------------------------ MODULE OutboxRelayInvariant ------------------------
(***************************************************************************)
(* The inductive invariant of OutboxRelay: what is settled at each of the  *)
(* positions the relay and the database remember.                          *)
(***************************************************************************)
EXTENDS OutboxRelay

\* The record at i, if there is one, is in the topic or its loss is logged.
Settled(i) ==
  i \in Records => i \in Appended \cup logged

\* The positions are ordered, and those of the process lie behind the slot's.
Positions ==
  /\ confirmed <= Len(wal) /\ Len(wal) <= MaxWal
  /\ slot => origin <= confirmed
  /\ ~slot => requests = {} /\ topic = << >> /\ ~running /\ confirmed = 0
  /\ ~running => sending = None
  /\ running => /\ slot
                /\ confirmed <= lsn /\ lsn < next /\ next <= Len(wal) + 1
                /\ sending # None => sending = next - 1 /\ sending \in Records
  /\ \A q \in requests : q.pos \in Records
  /\ \A n \in DOMAIN topic : topic[n] \in Records

\* Everything behind the confirmed position is settled, and everything behind
\* the process's position but the record it waits for.
SettledBehind ==
  /\ \A i \in 1..confirmed : Settled(i)
  /\ running => \A i \in 1..(next - 1) : i # sending => Settled(i)

\* The position to confirm is the end of a transaction.
AtCommit(pos) == pos = origin \/ (pos \in DOMAIN wal /\ wal[pos] = "commit")

CommitsOnly ==
  slot => AtCommit(confirmed) /\ (running => AtCommit(lsn))

\* A request has everything before it settled, and is in the topic once the
\* broker has written it; a live one that Send has given up is logged.
RequestsInOrder ==
  \A q \in requests :
    /\ \A i \in 1..(q.pos - 1) : Settled(i)
    /\ q.written => q.pos \in Appended

Inductive ==
  /\ TypeOK
  /\ Positions
  /\ SettledBehind
  /\ CommitsOnly
  /\ RequestsInOrder
  /\ FirstCopiesInOrder

-----------------------------------------------------------------------------
(* A second one, on top of it, that counts how often a record may still be  *)
(* appended.                                                                *)

Copies(i) == {n \in DOMAIN topic : topic[n] = i}

\* The requests for i that the broker has still to write.
OnWire(i) == {q \in requests : q.pos = i /\ ~q.written}

\* The process has i before it, or the next one will have.
ToSend(i) == IF running THEN i >= next ELSE i > confirmed

\* librdkafka keeps trying what Send has given up: the report will end the
\* process.
Late == \E q \in requests : ~q.orphan /\ q.pos # sending

Once(condition) == IF condition THEN 1 ELSE 0

\* A living request is of this process, and of a record it has sent once.
LivingSentOnce ==
  \A q \in requests : ~q.orphan =>
    /\ running /\ q.pos < next
    /\ \A r \in requests : ~r.orphan /\ r.pos = q.pos => r = q

\* The copies of a record that there are or may be; the end of a process that a
\* late report will bring about sends records again.
Load(i) ==
  Cardinality(Copies(i)) + Cardinality(OnWire(i)) + Once(ToSend(i)) + Once(Late)

\* Every one of them, but one, has its fault.
FaultsCoverCopies ==
  Decodable => \A i \in Records : Load(i) <= 1 + faults

RepeatsCounted ==
  /\ IsFiniteSet(requests)
  /\ LivingSentOnce
  /\ Late => faults >= 1
  /\ FaultsCoverCopies

=============================================================================
