----------------------------- MODULE OutboxRelay -----------------------------
(***************************************************************************)
(* The relay of transactional-outbox-pglogrepl: it reads the inserts into  *)
(* OUTBOX_RECORD from a logical replication slot and produces each to      *)
(* Kafka, one at a time, waiting up to ten seconds for its delivery        *)
(* report.                                                                 *)
(*                                                                         *)
(* The change stream is a sequence of messages, and a position in it       *)
(* stands for an LSN and for the record inserted there:                    *)
(*   "insert"    an outbox row                                             *)
(*   "noTopic"   an outbox row whose NAM_TOPIC is NULL                     *)
(*   "streamed"  the first row of a transaction so large that the server   *)
(*               streams it while it is in progress                        *)
(*   "commit"    the end of a transaction                                  *)
(* PostgreSQL (wal, slot), Kafka (topic) and what is on the wire survive   *)
(* the relay process; everything else dies with it.                        *)
(***************************************************************************)
EXTENDS Integers, Sequences, FiniteSets

CONSTANTS
  Bodies,     \* what a transaction may insert: sequences of rows
  MaxWal,     \* bound on the length of the change stream
  MaxTopic,   \* bound on the length of the topic
  MaxRequests,\* bound on the records on the wire at a time
  Faults,     \* which of FaultKinds may happen
  MaxFaults   \* bound on their number

RowKinds   == {"insert", "noTopic", "streamed"}
FaultKinds == {"kill", "ackLost", "deliveryFails", "slow", "queueFull"}

ASSUME BodiesAssumption == Bodies \subseteq Seq(RowKinds)
ASSUME BoundsAssumption ==
  MaxWal \in Nat /\ MaxTopic \in Nat /\ MaxRequests \in Nat /\ MaxFaults \in Nat
ASSUME FaultAssumption  == Faults \subseteq FaultKinds

VARIABLES
  wal,        \* PostgreSQL: the change stream
  slot,       \* PostgreSQL: the replication slot exists
  origin,     \* PostgreSQL: where the slot was created
  confirmed,  \* PostgreSQL: confirmed_flush_lsn of the slot
  topic,      \* Kafka: the records appended, in order
  requests,   \* librdkafka and the wire: records produced, not yet reported
  running,    \* the relay process
  next,       \* the message the server sends next
  lsn,        \* listenEvents' lsn: end of the last commit it has seen
  sending,    \* the record whose Send waits for its report, or None
  logged,     \* records reported as status=FailedToSend
  faults      \* how many faults have happened

database == <<wal, slot, origin>>
process  == <<running, next, lsn, sending>>
vars     == <<database, confirmed, topic, requests, process, logged, faults>>

None == 0

Request == [id : Nat, pos : Nat, written : BOOLEAN, orphan : BOOLEAN]

TypeOK ==
  /\ wal \in Seq(RowKinds \cup {"commit"})
  /\ slot \in BOOLEAN
  /\ origin \in Nat /\ confirmed \in Nat
  /\ topic \in Seq(Nat)
  /\ requests \subseteq Request
  /\ running \in BOOLEAN
  /\ next \in Nat /\ lsn \in Nat /\ sending \in Nat
  /\ logged \subseteq Nat
  /\ faults \in Nat

Init ==
  /\ wal = << >> /\ slot = FALSE /\ origin = 0 /\ confirmed = 0
  /\ topic = << >> /\ requests = {}
  /\ running = FALSE /\ next = 0 /\ lsn = 0 /\ sending = None
  /\ logged = {} /\ faults = 0

Fault(kind) ==
  /\ kind \in Faults /\ faults < MaxFaults
  /\ faults' = faults + 1

-----------------------------------------------------------------------------
(* The application.                                                        *)

CommitTransaction(body) ==
  /\ Len(wal) + Len(body) < MaxWal
  /\ wal' = wal \o body \o <<"commit">>
  /\ UNCHANGED <<slot, origin, confirmed, topic, requests, process, logged, faults>>

-----------------------------------------------------------------------------
(* The process: main, createReplicationSlot, findPos.                      *)

\* The slot is created the first time only ("already exists" is ignored), at
\* the present end of the stream; the position is asked from the slot.
Start ==
  /\ ~running
  /\ running' = TRUE
  /\ slot' = TRUE
  /\ origin' = IF slot THEN origin ELSE Len(wal)
  /\ confirmed' = IF slot THEN confirmed ELSE Len(wal)
  /\ next' = confirmed' + 1
  /\ lsn' = confirmed'
  /\ sending' = None
  /\ UNCHANGED <<wal, topic, requests, logged, faults>>

Orphaned(q) == [id |-> q.id, pos |-> q.pos, written |-> FALSE, orphan |-> TRUE]

\* log.Fatal, a panic or a kill: what is not written yet may still be, but
\* nobody waits for the report.
Die ==
  /\ running' = FALSE
  /\ requests' = {Orphaned(q) : q \in {r \in requests : ~r.written}}
  /\ next' = 0 /\ lsn' = 0 /\ sending' = None
  /\ UNCHANGED <<database, confirmed, topic, logged>>

Kill ==
  /\ running
  /\ Fault("kill")
  /\ Die

-----------------------------------------------------------------------------
(* listenEvents and process, one message at a time.                        *)

Receiving(kinds) ==
  /\ running /\ sending = None
  /\ next <= Len(wal) /\ wal[next] \in kinds

NewRequest(n) == [id |-> n, pos |-> next, written |-> FALSE, orphan |-> FALSE]

\* The record at next is put on the wire, under the first free id.
Enqueue ==
  \E n \in 1..MaxRequests :
    /\ \A q \in requests : q.id # n
    /\ \A k \in 1..(n - 1) : \E q \in requests : q.id = k
    /\ requests' = requests \cup {NewRequest(n)}

\* Mutant: Send does not wait for the delivery report.
ProduceWithoutWaiting ==
  /\ Receiving({"insert"})
  /\ Enqueue
  /\ sending' = None
  /\ next' = next + 1
  /\ UNCHANGED <<database, confirmed, topic, running, lsn, logged, faults>>

\* process on an InsertMessageV2: Send hands the record to librdkafka and
\* waits.
Produce ==
  /\ Receiving({"insert"})
  /\ Enqueue
  /\ sending' = next
  /\ next' = next + 1
  /\ UNCHANGED <<database, confirmed, topic, running, lsn, logged, faults>>

\* Produce returns an error: it is logged, and the stream goes on.
ProduceFails ==
  /\ Receiving({"insert"})
  /\ Fault("queueFull")
  /\ logged' = logged \cup {next}
  /\ next' = next + 1
  /\ UNCHANGED <<database, confirmed, topic, requests, running, lsn, sending>>

\* A row without topic panics in MapFromInsertMessage.  A message of a streamed
\* transaction cannot be parsed, because nothing ever sets inStream.
ReceiveUndecodable ==
  /\ Receiving({"noTopic", "streamed"})
  /\ Die
  /\ UNCHANGED faults

\* Mutant: onCommit not called.
ReceiveCommitUnnoticed ==
  /\ Receiving({"commit"})
  /\ next' = next + 1
  /\ UNCHANGED <<database, confirmed, topic, requests, running, lsn, sending, logged, faults>>

\* process on a CommitMessage: onCommit(TransactionEndLSN).
ReceiveCommit ==
  /\ Receiving({"commit"})
  /\ lsn' = next
  /\ next' = next + 1
  /\ UNCHANGED <<database, confirmed, topic, requests, running, sending, logged, faults>>

\* Mutant: confirms what was received instead of what was committed.
ConfirmReceived ==
  /\ running /\ sending = None
  /\ confirmed # next - 1
  /\ confirmed' = next - 1
  /\ UNCHANGED <<database, topic, requests, process, logged, faults>>

\* sendOffsetUpdateWhenNeedled, at the top of the loop: the deadline has passed
\* or the server has asked for a reply.
SendStandbyUpdate ==
  /\ running /\ sending = None
  /\ confirmed # lsn
  /\ confirmed' = lsn
  /\ UNCHANGED <<database, topic, requests, process, logged, faults>>

-----------------------------------------------------------------------------
(* Kafka and librdkafka, as Send uses them.                                *)

Written(q, w) ==
  requests' = (requests \ {q})
                \cup {[id |-> q.id, pos |-> q.pos, written |-> w, orphan |-> FALSE]}

AppendToTopic(q) ==
  /\ ~q.written /\ Len(topic) < MaxTopic
  /\ topic' = Append(topic, q.pos)
  /\ UNCHANGED <<database, confirmed, process, logged, faults>>

BrokerAppends(q) ==
  /\ ~q.orphan
  /\ AppendToTopic(q)
  /\ Written(q, TRUE)

\* The acknowledgement is lost and librdkafka sends again; enable.idempotence
\* is not set, so the broker will append again.
AckLost(q) ==
  /\ q.written /\ ~q.orphan
  /\ Fault("ackLost")
  /\ Written(q, FALSE)
  /\ UNCHANGED <<database, confirmed, topic, process, logged>>

\* The report of a record whose Send still waits.
DeliverySucceeds(q) ==
  /\ q.written /\ ~q.orphan /\ q.pos = sending
  /\ requests' = requests \ {q}
  /\ sending' = None
  /\ UNCHANGED <<database, confirmed, topic, running, next, lsn, logged, faults>>

\* Mutant: the error of the report is not looked at.
DeliveryFailsUnnoticed(q) ==
  /\ ~q.orphan /\ q.pos = sending
  /\ Fault("deliveryFails")
  /\ requests' = requests \ {q}
  /\ sending' = None
  /\ UNCHANGED <<database, confirmed, topic, running, next, lsn, logged>>

\* librdkafka gives up; the broker may have appended the record or not.
DeliveryFails(q) ==
  /\ ~q.orphan /\ q.pos = sending
  /\ Fault("deliveryFails")
  /\ requests' = requests \ {q}
  /\ sending' = None
  /\ logged' = logged \cup {q.pos}
  /\ UNCHANGED <<database, confirmed, topic, running, next, lsn>>

\* Mutant: a Send that timed out is tried again.
SendTimesOutRetrying ==
  /\ sending # None
  /\ Fault("slow")
  /\ logged' = logged
  /\ sending' = None
  /\ next' = next - 1
  /\ UNCHANGED <<database, confirmed, topic, requests, running, lsn>>

\* Ten seconds pass: Send closes the channel and returns an error; librdkafka
\* keeps trying.
SendTimesOut ==
  /\ sending # None
  /\ Fault("slow")
  /\ logged' = logged \cup {sending}
  /\ sending' = None
  /\ UNCHANGED <<database, confirmed, topic, requests, running, next, lsn>>

\* The report of such a record, good or bad, is sent on the closed channel: the
\* poller goroutine panics.
LateReport(q) ==
  /\ ~q.orphan /\ q.pos # sending
  /\ Die
  /\ UNCHANGED faults

\* What a dead process had sent is appended or lost, and nobody hears of it.
OrphanAppended(q) ==
  /\ q.orphan
  /\ AppendToTopic(q)
  /\ requests' = requests \ {q}

OrphanLost(q) ==
  /\ q.orphan
  /\ requests' = requests \ {q}
  /\ UNCHANGED <<database, confirmed, topic, process, logged, faults>>

-----------------------------------------------------------------------------
RequestStep(q) ==
  \/ BrokerAppends(q) \/ AckLost(q) \/ DeliverySucceeds(q) \/ DeliveryFails(q)
  \/ LateReport(q)
  \/ OrphanAppended(q) \/ OrphanLost(q)

Next ==
  \/ \E body \in Bodies : CommitTransaction(body)
  \/ Start \/ Kill
  \/ Produce \/ ProduceFails \/ ReceiveUndecodable \/ ReceiveCommit
  \/ SendStandbyUpdate \/ SendTimesOut
  \/ \E q \in requests : RequestStep(q)

Spec == Init /\ [][Next]_vars

-----------------------------------------------------------------------------
(* Fairness: the loop runs, librdkafka and the broker answer, and somebody  *)
(* starts the relay again when it has died.  Transactions and faults are    *)
(* not promised.                                                            *)
Fairness ==
  /\ WF_vars(Start) /\ WF_vars(SendStandbyUpdate)
  /\ WF_vars(Produce \/ ReceiveCommit \/ ReceiveUndecodable)
  /\ WF_vars(\E q \in requests : BrokerAppends(q))
  /\ WF_vars(\E q \in requests : DeliverySucceeds(q) \/ LateReport(q))

FairSpec == Spec /\ Fairness

-----------------------------------------------------------------------------
(* Properties.                                                             *)

Appended == {topic[n] : n \in DOMAIN topic}

\* The records the relay answers for: those after the slot's creation.
Records ==
  IF slot THEN {i \in DOMAIN wal : wal[i] # "commit" /\ i > origin} ELSE {}

\* A record behind the confirmed position, which PostgreSQL will never send
\* again, is in the topic or its loss is in the log: whatever dies, times out
\* or fails in between.
ConfirmedIsSettled ==
  \A i \in Records : i <= confirmed => i \in Appended \cup logged

\* The position confirmed to PostgreSQL is the end of a transaction: a restart
\* never begins in the middle of one.
ConfirmsWholeTransactions ==
  slot => confirmed = origin \/ wal[confirmed] = "commit"

\* Whatever is repeated, the first copies of the records are in the order of
\* the change stream, but for those whose Send failed.
FirstCopiesInOrder ==
  \A n \in DOMAIN topic : \A i \in Records :
    i < topic[n] => i \in logged \/ \E m \in 1..(n - 1) : topic[m] = i

Decodable == \A i \in DOMAIN wal : wal[i] \in {"insert", "commit"}

\* A record is in the topic once, and once more for each fault at most.
RepeatsHaveACause ==
  Decodable =>
    \A i \in Records : Cardinality({n \in DOMAIN topic : topic[n] = i}) <= 1 + faults

\* The relay keeps the promise of an outbox.
Promise == INSTANCE OutboxPromise WITH
  Record    <- 1..MaxWal,
  committed <- Records,
  published <- Appended,
  givenUp   <- logged,
  released  <- {i \in Records : i <= confirmed}

KeepsPromise == Promise!Spec

\* The slot follows the stream to its end: no transaction holds it back, but
\* one with a row the relay cannot decode.
EventuallyConfirmed ==
  \A i \in 1..MaxWal : i \in DOMAIN wal ~> (Decodable => confirmed >= i)

-----------------------------------------------------------------------------
(* What the repository says, and the code does not keep.                   *)

\* main.go:47, "whenever we get StreamStartMessage we set inStream to true and
\* then pass it to DecodeV2": streamed transactions are relayed.
StreamedIsRelayed ==
  \A i \in 1..MaxWal :
    (i \in DOMAIN wal /\ wal[i] = "streamed") ~> i \in Appended \cup logged

=============================================================================
