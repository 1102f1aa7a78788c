-------------------------- MODULE OutboxRelayProofs --------------------------
(***************************************************************************)
(* Every step of OutboxRelay preserves Inductive, and every step is a step *)
(* of OutboxPromise or leaves it alone, for every change stream, every     *)
(* bound and every choice of faults.  A record is appended once, and once  *)
(* more for each fault at most: every step preserves RepeatsCounted, given *)
(* Inductive.                                                              *)
(***************************************************************************)
EXTENDS OutboxRelayInvariant, SequenceTheorems, FiniteSetTheorems, TLAPS

USE BodiesAssumption, BoundsAssumption

-----------------------------------------------------------------------------
(* What a step does to the stream and to the topic.                        *)

\* What is added behind a sequence leaves the sequence as it was.
LEMMA Prefix ==
  ASSUME NEW S, NEW s \in Seq(S), NEW t \in Seq(S)
  PROVE  /\ s \o t \in Seq(S) /\ Len(s) \in Nat /\ Len(t) \in Nat
         /\ Len(s \o t) = Len(s) + Len(t)
         /\ \A i \in 1..Len(s) : (s \o t)[i] = s[i]
<1>1. Len(s) \in Nat /\ Len(t) \in Nat
  BY LenProperties
<1>2. \A i \in 1..Len(s) : i \in 1..(Len(s) + Len(t))
  BY <1>1
<1>3. QED
  BY <1>1, <1>2, ConcatProperties

\* A transaction is added behind the stream.
LEMMA StreamGrows ==
  ASSUME TypeOK, Positions, NEW body \in Bodies, CommitTransaction(body)
  PROVE  /\ wal' \in Seq(RowKinds \cup {"commit"})
         /\ Len(wal) < Len(wal') /\ Len(wal') <= MaxWal
         /\ \A i \in 1..Len(wal) : wal'[i] = wal[i]
         /\ Records \subseteq Records'
         /\ \A i \in 1..Len(wal) : i \in Records' => i \in Records
<1> DEFINE end == <<"commit">>
<1>1. body \in Seq(RowKinds \cup {"commit"}) /\ end \in Seq(RowKinds \cup {"commit"})
  BY DEF RowKinds
<1>2. wal \in Seq(RowKinds \cup {"commit"}) /\ wal' = (wal \o body) \o end /\ Len(end) = 1
  BY DEF CommitTransaction, TypeOK
<1>3. Len(wal) + Len(body) < MaxWal /\ Len(body) \in Nat /\ Len(wal) \in Nat
  BY <1>1, <1>2 DEF CommitTransaction
<1> DEFINE more == wal \o body
<1> HIDE DEF end, more
<1>4. /\ more \in Seq(RowKinds \cup {"commit"})
      /\ Len(more) = Len(wal) + Len(body)
      /\ \A i \in 1..Len(wal) : more[i] = wal[i]
  BY <1>1, <1>2, Prefix DEF more
<1>5. /\ wal' \in Seq(RowKinds \cup {"commit"})
      /\ Len(wal') = Len(more) + 1
      /\ \A i \in 1..Len(more) : wal'[i] = more[i]
  <2>1. wal' = more \o end
    BY <1>2 DEF more
  <2>2. /\ more \o end \in Seq(RowKinds \cup {"commit"})
        /\ Len(more \o end) = Len(more) + Len(end)
        /\ \A i \in 1..Len(more) : (more \o end)[i] = more[i]
    BY <1>1, <1>4, Prefix
  <2>3. QED
    BY <1>2, <2>1, <2>2
<1>6. /\ Len(wal) < Len(wal') /\ Len(wal') <= MaxWal
      /\ \A i \in 1..Len(wal) : wal'[i] = wal[i]
  <2>1. Len(wal') = Len(wal) + Len(body) + 1
    BY <1>4, <1>5
  <2>2. 1..Len(wal) \subseteq 1..Len(more)
    BY <1>3, <1>4
  <2>3. QED
    BY <1>3, <1>4, <1>5, <2>1, <2>2
<1>7. slot' = slot /\ origin' = origin /\ DOMAIN wal = 1..Len(wal) /\ DOMAIN wal' = 1..Len(wal')
  BY <1>2, <1>5 DEF CommitTransaction
<1>8. QED
  BY <1>3, <1>5, <1>6, <1>7 DEF Records

\* The other actions but Start leave the stream and its records alone.
LEMMA RecordsStay == UNCHANGED database => Records' = Records
BY DEF database, Records

\* Starting the relay begins with the records there were: none, if the slot is new.
LEMMA RecordsAtStart == TypeOK /\ Start => Records' = Records
BY DEF TypeOK, Start, Records

\* A record is appended behind the topic.
LEMMA TopicGrows ==
  ASSUME TypeOK, NEW q \in requests, AppendToTopic(q)
  PROVE  /\ topic' \in Seq(Nat) /\ Len(topic') = Len(topic) + 1
         /\ topic'[Len(topic')] = q.pos
         /\ \A n \in 1..Len(topic) : topic'[n] = topic[n]
         /\ Appended' = Appended \cup {q.pos}
<1>1. topic \in Seq(Nat) /\ q.pos \in Nat /\ topic' = Append(topic, q.pos)
  BY DEF TypeOK, Request, AppendToTopic
<1>2. /\ topic' \in Seq(Nat) /\ Len(topic') = Len(topic) + 1
      /\ topic'[Len(topic')] = q.pos
      /\ \A n \in 1..Len(topic) : topic'[n] = topic[n]
      /\ Len(topic) \in Nat
  BY <1>1
<1>3. DOMAIN topic' = 1..(Len(topic) + 1) /\ DOMAIN topic = 1..Len(topic)
  BY <1>1, <1>2
<1>4. QED
  BY <1>2, <1>3 DEF Appended

-----------------------------------------------------------------------------
(* One lemma per part of the invariant.                                    *)

\* What a step adds: the records of the stream, of the topic and of the log stay.
Growth ==
  /\ Len(wal) <= Len(wal')
  /\ Records \subseteq Records'
  /\ \A i \in 1..Len(wal) : i \in Records' => i \in Records
  /\ Appended \subseteq Appended'
  /\ logged \subseteq logged'

\* No step forgets a record, a message of the topic or a line of the log.
LEMMA Grows == TypeOK /\ Positions /\ [Next]_vars => Growth
<1> SUFFICES ASSUME TypeOK /\ Positions, [Next]_vars PROVE Growth
  OBVIOUS
<1> USE DEF Growth, database, process
<1>1. ASSUME NEW body \in Bodies, CommitTransaction(body)
      PROVE  Growth
  <2>1. Len(wal) < Len(wal') /\ Len(wal) \in Nat /\ Len(wal') \in Nat
    BY <1>1, StreamGrows, LenProperties DEF TypeOK
  <2>2. topic' = topic /\ logged' = logged
    BY <1>1 DEF CommitTransaction
  <2>3. QED
    BY <1>1, <2>1, <2>2, StreamGrows DEF Appended
<1>2. CASE Start
  BY <1>2, RecordsAtStart DEF TypeOK, Start, Appended
<1>3. CASE Kill
  BY <1>3, RecordsStay DEF Kill, Die, Orphaned, Fault, Appended
<1>4. CASE Produce
  BY <1>4, RecordsStay DEF Produce, Receiving, Enqueue, NewRequest, Appended
<1>5. CASE ProduceFails
  BY <1>5, RecordsStay DEF ProduceFails, Receiving, Fault, Appended
<1>6. CASE ReceiveUndecodable
  BY <1>6, RecordsStay DEF ReceiveUndecodable, Die, Orphaned, Receiving,
     Appended
<1>7. CASE ReceiveCommit
  BY <1>7, RecordsStay DEF ReceiveCommit, Receiving, Appended
<1>8. CASE SendStandbyUpdate
  BY <1>8, RecordsStay DEF SendStandbyUpdate, Appended
<1>9. CASE SendTimesOut
  BY <1>9, RecordsStay DEF SendTimesOut, Fault, Appended
<1>10. ASSUME NEW q \in requests, RequestStep(q)
      PROVE  Growth
  <2>1. CASE BrokerAppends(q)
    <3>1. Appended' = Appended \cup {q.pos}
      BY <2>1, TopicGrows DEF BrokerAppends
    <3>2. QED
      BY <2>1, <3>1, RecordsStay DEF TypeOK, BrokerAppends, AppendToTopic
  <2>2. CASE AckLost(q)
    BY <2>2, RecordsStay DEF AckLost, Written, Fault, Appended
  <2>3. CASE DeliverySucceeds(q)
    BY <2>3, RecordsStay DEF DeliverySucceeds, Appended
  <2>4. CASE DeliveryFails(q)
    BY <2>4, RecordsStay DEF DeliveryFails, Fault, Appended
  <2>5. CASE LateReport(q)
    BY <2>5, RecordsStay DEF LateReport, Die, Orphaned, Appended
  <2>6. CASE OrphanAppended(q)
    <3>1. Appended' = Appended \cup {q.pos}
      BY <2>6, TopicGrows DEF OrphanAppended
    <3>2. QED
      BY <2>6, <3>1, RecordsStay DEF TypeOK, OrphanAppended, AppendToTopic
  <2>7. CASE OrphanLost(q)
    BY <2>7, RecordsStay DEF OrphanLost, Appended
  <2>8. QED
    BY <1>10, <2>1, <2>2, <2>3, <2>4, <2>5, <2>6, <2>7 DEF RequestStep
<1>11. CASE UNCHANGED vars
  BY <1>11, RecordsStay DEF TypeOK, vars, Appended
<1>12. QED
  BY <1>1, <1>2, <1>3, <1>4, <1>5, <1>6, <1>7, <1>8, <1>9, <1>10, <1>11 DEF
     Next

\* Every variable keeps its type.
LEMMA TypeStep == TypeOK /\ Positions /\ [Next]_vars => TypeOK'
<1> SUFFICES ASSUME TypeOK /\ Positions, [Next]_vars PROVE TypeOK'
  OBVIOUS
<1> USE DEF TypeOK, None, database, process
<1>1. ASSUME NEW body \in Bodies, CommitTransaction(body)
      PROVE  TypeOK'
  BY <1>1, StreamGrows DEF CommitTransaction
<1>2. CASE Start
  <2>1. Len(wal) \in Nat
    BY LenProperties
  <2>2. confirmed' \in Nat /\ origin' \in Nat
    BY <1>2, <2>1 DEF Start
  <2>3. QED
    BY <1>2, <2>2 DEF Start
<1>3. CASE Kill
  <2>1. \A r \in requests : Orphaned(r) \in Request
    BY DEF Orphaned, Request
  <2>2. requests' \subseteq Request
    BY <1>3, <2>1 DEF Kill, Die
  <2>3. faults' \in Nat
    BY <1>3 DEF Kill, Fault
  <2>4. QED
    BY <1>3, <2>2, <2>3 DEF Kill, Die
<1>4. CASE Produce
  <2>1. \A n \in 1..MaxRequests : NewRequest(n) \in Request
    BY DEF NewRequest, Request
  <2>2. requests' \subseteq Request
    BY <1>4, <2>1 DEF Produce, Enqueue
  <2>3. QED
    BY <1>4, <2>2 DEF Produce
<1>5. CASE ProduceFails
  BY <1>5 DEF ProduceFails, Receiving, Fault
<1>6. CASE ReceiveUndecodable
  <2>1. \A r \in requests : Orphaned(r) \in Request
    BY DEF Orphaned, Request
  <2>2. requests' \subseteq Request
    BY <1>6, <2>1 DEF ReceiveUndecodable, Die
  <2>3. faults' \in Nat
    BY <1>6 DEF ReceiveUndecodable, Fault
  <2>4. QED
    BY <1>6, <2>2, <2>3 DEF ReceiveUndecodable, Die
<1>7. CASE ReceiveCommit
  BY <1>7 DEF ReceiveCommit, Receiving
<1>8. CASE SendStandbyUpdate
  BY <1>8 DEF SendStandbyUpdate
<1>9. CASE SendTimesOut
  BY <1>9 DEF SendTimesOut, Fault
<1>10. ASSUME NEW q \in requests, RequestStep(q)
      PROVE  TypeOK'
  <2>1. CASE BrokerAppends(q)
    <3>1. [id |-> q.id, pos |-> q.pos, written |-> TRUE, orphan |-> FALSE] \in Request
      BY DEF Request
    <3>2. requests' \subseteq Request
      BY <2>1, <3>1 DEF BrokerAppends, Written
    <3>3. topic' \in Seq(Nat)
      BY <2>1, TopicGrows DEF BrokerAppends
    <3>4. QED
      BY <2>1, <3>2, <3>3 DEF BrokerAppends, AppendToTopic
  <2>2. CASE AckLost(q)
    <3>1. [id |-> q.id, pos |-> q.pos, written |-> FALSE, orphan |-> FALSE] \in Request
      BY DEF Request
    <3>2. requests' \subseteq Request
      BY <2>2, <3>1 DEF AckLost, Written
    <3>3. QED
      BY <2>2, <3>2 DEF AckLost, Fault
  <2>3. CASE DeliverySucceeds(q)
    BY <2>3 DEF DeliverySucceeds
  <2>4. CASE DeliveryFails(q)
    BY <2>4 DEF DeliveryFails, Fault
  <2>5. CASE LateReport(q)
    <3>1. \A r \in requests : Orphaned(r) \in Request
      BY DEF Orphaned, Request
    <3>2. requests' \subseteq Request
      BY <2>5, <3>1 DEF LateReport, Die
    <3>3. faults' \in Nat
      BY <2>5 DEF LateReport, Fault
    <3>4. QED
      BY <2>5, <3>2, <3>3 DEF LateReport, Die
  <2>6. CASE OrphanAppended(q)
    <3>1. topic' \in Seq(Nat)
      BY <2>6, TopicGrows DEF OrphanAppended
    <3>2. QED
      BY <2>6, <3>1 DEF OrphanAppended, AppendToTopic
  <2>7. CASE OrphanLost(q)
    BY <2>7 DEF OrphanLost
  <2>8. QED
    BY <1>10, <2>1, <2>2, <2>3, <2>4, <2>5, <2>6, <2>7 DEF RequestStep
<1>11. CASE UNCHANGED vars
  BY <1>11 DEF vars
<1>12. QED
  BY <1>1, <1>2, <1>3, <1>4, <1>5, <1>6, <1>7, <1>8, <1>9, <1>10, <1>11 DEF
     Next

\* The requests of a process that dies stay what they were, but for their owner.
LEMMA DeathKeepsRequests ==
  Die => \A r \in requests' :
           ~r.written /\ \E q \in requests : r.pos = q.pos
BY DEF Die, Orphaned

\* Changing one request leaves the others as they were.
LEMMA OneRequestChanges ==
  ASSUME NEW q \in requests, NEW w \in BOOLEAN, Written(q, w)
  PROVE  \A r \in requests' : r \in requests \/ (r.pos = q.pos /\ r.written = w)
BY DEF Written

\* The positions keep their order.
LEMMA PositionsStep == Inductive /\ [Next]_vars => Positions'
<1> SUFFICES ASSUME Inductive, [Next]_vars PROVE Positions'
  OBVIOUS
<1>a. Growth /\ TypeOK' /\ TypeOK /\ Positions
  BY Grows, TypeStep DEF Inductive
<1> USE DEF Positions, None, database, process
<1>1. ASSUME NEW body \in Bodies, CommitTransaction(body)
      PROVE  Positions'
  <2>1. /\ UNCHANGED <<slot, origin, confirmed, topic, requests, process>>
        /\ Len(wal) < Len(wal') /\ Len(wal') <= MaxWal /\ Records \subseteq Records'
    BY <1>1, <1>a, StreamGrows DEF CommitTransaction
  <2>2. Len(wal) \in Nat /\ Len(wal') \in Nat
    BY <1>a, LenProperties DEF TypeOK
  <2>3. QED
    BY <1>a, <2>1, <2>2 DEF TypeOK
<1>2. CASE Start
  <2>1. Records' = Records
    BY <1>2, <1>a, RecordsAtStart
  <2>2. Len(wal) \in Nat
    BY <1>a, LenProperties DEF TypeOK
  <2>3. confirmed' \in Nat /\ origin' <= confirmed' /\ confirmed' <= Len(wal)
    BY <1>a, <1>2, <2>2 DEF Start, TypeOK
  <2>4. QED
    BY <1>a, <1>2, <2>1, <2>2, <2>3 DEF Start
<1>3. CASE Kill
  <2>1. Die
    BY <1>3 DEF Kill
  <2>2. Records' = Records /\ \A r \in requests' : \E q1 \in requests : r.pos = q1.pos
    BY <2>1, DeathKeepsRequests, RecordsStay DEF Die
  <2>3. QED
    BY <1>a, <2>1, <2>2 DEF Die
<1>4. CASE Produce
  <2>1. Records' = Records /\ next \in Records
    BY <1>4, <1>a, RecordsStay DEF Produce, Receiving, Records, TypeOK
  <2>2. \A r \in requests' : r \in requests \/ r.pos = next
    BY <1>4 DEF Produce, Enqueue, NewRequest
  <2>3. QED
    BY <1>a, <1>4, <2>1, <2>2 DEF Produce, Receiving, Records, TypeOK
<1>5. CASE ProduceFails
  BY <1>5, <1>a, RecordsStay DEF ProduceFails, Receiving, Fault, TypeOK,
     Records
<1>6. CASE ReceiveUndecodable
  <2>1. Die
    BY <1>6 DEF ReceiveUndecodable
  <2>2. Records' = Records /\ \A r \in requests' : \E q1 \in requests : r.pos = q1.pos
    BY <2>1, DeathKeepsRequests, RecordsStay DEF Die
  <2>3. QED
    BY <1>a, <2>1, <2>2 DEF Die
<1>7. CASE ReceiveCommit
  BY <1>7, <1>a, RecordsStay DEF ReceiveCommit, Receiving, TypeOK, Records
<1>8. CASE SendStandbyUpdate
  BY <1>8, <1>a, RecordsStay DEF SendStandbyUpdate, TypeOK, Records
<1>9. CASE SendTimesOut
  BY <1>9, <1>a, RecordsStay DEF SendTimesOut, Fault, TypeOK, Records
<1>10. ASSUME NEW q \in requests, RequestStep(q)
      PROVE  Positions'
  <2>1. CASE BrokerAppends(q)
    <3>1. Records' = Records
      BY <2>1, RecordsStay DEF BrokerAppends, AppendToTopic
    <3>2. \A r \in requests' : r.pos \in Records
      BY <1>a, <2>1, OneRequestChanges DEF BrokerAppends
    <3>3. \A n \in DOMAIN topic' : topic'[n] \in Records
      <4>1. /\ DOMAIN topic' = 1..(Len(topic) + 1) /\ DOMAIN topic = 1..Len(topic)
            /\ Len(topic) \in Nat
        BY <1>a, <2>1, TopicGrows, LenProperties DEF TypeOK, BrokerAppends
      <4>2. q.pos \in Records
        BY <1>a
      <4>3. /\ \A n \in 1..Len(topic) : topic'[n] = topic[n]
            /\ topic'[Len(topic) + 1] = q.pos
        BY <1>a, <2>1, TopicGrows, <4>1 DEF BrokerAppends
      <4>4. \A n \in 1..Len(topic) : topic[n] \in Records
        BY <1>a, <4>1
      <4>5. \A n \in 1..(Len(topic) + 1) : n \in 1..Len(topic) \/ n = Len(topic) + 1
        BY <4>1
      <4>6. QED
        BY <4>1, <4>2, <4>3, <4>4, <4>5
    <3>4. slot /\ slot' = slot
      BY <1>a, <2>1 DEF BrokerAppends, AppendToTopic, TypeOK
    <3>5. QED
      BY <1>a, <2>1, <3>1, <3>2, <3>3, <3>4 DEF BrokerAppends, AppendToTopic, TypeOK
  <2>2. CASE AckLost(q)
    <3>1. Records' = Records
      BY <2>2, RecordsStay DEF AckLost
    <3>2. \A r \in requests' : r.pos \in Records
      BY <1>a, <2>2, OneRequestChanges DEF AckLost
    <3>3. QED
      BY <1>a, <2>2, <3>1, <3>2 DEF AckLost, TypeOK
  <2>3. CASE DeliverySucceeds(q)
    BY <2>3, <1>a, RecordsStay DEF DeliverySucceeds, TypeOK, Records
  <2>4. CASE DeliveryFails(q)
    BY <2>4, <1>a, RecordsStay DEF DeliveryFails, Fault, TypeOK, Records
  <2>5. CASE LateReport(q)
    <3>1. Die
      BY <2>5 DEF LateReport
    <3>2. Records' = Records /\ \A r \in requests' : \E q1 \in requests : r.pos = q1.pos
      BY <3>1, DeathKeepsRequests, RecordsStay DEF Die
    <3>3. QED
      BY <1>a, <3>1, <3>2 DEF Die
  <2>6. CASE OrphanAppended(q)
    <3>1. Records' = Records
      BY <2>6, RecordsStay DEF OrphanAppended, AppendToTopic
    <3>2. \A r \in requests' : r.pos \in Records
      BY <1>a, <2>6 DEF OrphanAppended
    <3>3. \A n \in DOMAIN topic' : topic'[n] \in Records
      <4>1. /\ DOMAIN topic' = 1..(Len(topic) + 1) /\ DOMAIN topic = 1..Len(topic)
            /\ Len(topic) \in Nat
        BY <1>a, <2>6, TopicGrows, LenProperties DEF TypeOK, OrphanAppended
      <4>2. q.pos \in Records
        BY <1>a
      <4>3. /\ \A n \in 1..Len(topic) : topic'[n] = topic[n]
            /\ topic'[Len(topic) + 1] = q.pos
        BY <1>a, <2>6, TopicGrows, <4>1 DEF OrphanAppended
      <4>4. \A n \in 1..Len(topic) : topic[n] \in Records
        BY <1>a, <4>1
      <4>5. \A n \in 1..(Len(topic) + 1) : n \in 1..Len(topic) \/ n = Len(topic) + 1
        BY <4>1
      <4>6. QED
        BY <4>1, <4>2, <4>3, <4>4, <4>5
    <3>4. slot /\ slot' = slot
      BY <1>a, <2>6 DEF OrphanAppended, AppendToTopic, TypeOK
    <3>5. QED
      BY <1>a, <2>6, <3>1, <3>2, <3>3, <3>4 DEF OrphanAppended, AppendToTopic, TypeOK
  <2>7. CASE OrphanLost(q)
    BY <2>7, <1>a, RecordsStay DEF OrphanLost, TypeOK, Records
  <2>8. QED
    BY <1>10, <2>1, <2>2, <2>3, <2>4, <2>5, <2>6, <2>7 DEF RequestStep
<1>11. CASE UNCHANGED vars
  BY <1>11, <1>a, RecordsStay DEF vars, TypeOK, Records
<1>12. QED
  BY <1>1, <1>2, <1>3, <1>4, <1>5, <1>6, <1>7, <1>8, <1>9, <1>10, <1>11 DEF
     Next

\* Everything behind the remembered positions stays settled.
LEMMA SettledStep == Inductive /\ [Next]_vars => SettledBehind'
<1> SUFFICES ASSUME Inductive, [Next]_vars PROVE SettledBehind'
  OBVIOUS
<1>a. Growth /\ TypeOK' /\ TypeOK /\ Positions
  BY Grows, TypeStep DEF Inductive
<1>b. \A i \in 1..Len(wal) : Settled(i) => Settled(i)'
  BY <1>a DEF Growth, Settled
<1>c. Len(wal) \in Nat
  BY <1>a, LenProperties DEF TypeOK
<1> USE DEF SettledBehind, Inductive, None, database, process
<1>1. ASSUME NEW body \in Bodies, CommitTransaction(body)
      PROVE  SettledBehind'
  <2>1. UNCHANGED <<confirmed, running, next, sending>>
    BY <1>1 DEF CommitTransaction, process
  <2>2. QED
    BY <1>a, <1>b, <1>c, <2>1 DEF TypeOK, Positions
<1>2. CASE Start
  <2>1. confirmed' \in Nat /\ Records' = Records /\ confirmed' <= Len(wal)
    BY <1>a, <1>c, <1>2, RecordsAtStart DEF Start, TypeOK, Positions
  <2>2. \A i \in 1..confirmed' : Settled(i)
    BY <1>a, <1>c, <1>2, <2>1 DEF Start, TypeOK, Records, Settled
  <2>3. \A i \in 1..confirmed' : Settled(i)'
    BY <1>b, <1>c, <2>1, <2>2
  <2>4. QED
    BY <1>a, <1>2, <2>1, <2>3 DEF Start, TypeOK
<1>3. CASE Kill
  BY <1>3, <1>a, <1>b, <1>c DEF Kill, Die, Orphaned, Fault, TypeOK,
     Positions
<1>4. CASE Produce
  BY <1>4, <1>a, <1>b, <1>c DEF Produce, Receiving, Enqueue, NewRequest,
     TypeOK, Positions
<1>5. CASE ProduceFails
  BY <1>5, <1>a, <1>b, <1>c DEF ProduceFails, Receiving, Fault, TypeOK,
     Positions, Settled, Records
<1>6. CASE ReceiveUndecodable
  BY <1>6, <1>a, <1>b, <1>c DEF ReceiveUndecodable, Die, Orphaned,
     Receiving, TypeOK, Positions
<1>7. CASE ReceiveCommit
  BY <1>7, <1>a, <1>b, <1>c DEF ReceiveCommit, Receiving, TypeOK, Positions,
     Settled, Records
<1>8. CASE SendStandbyUpdate
  BY <1>8, <1>a, <1>b, <1>c DEF SendStandbyUpdate, TypeOK, Positions
<1>9. CASE SendTimesOut
  BY <1>9, <1>a, <1>b, <1>c DEF SendTimesOut, Fault, TypeOK, Positions,
     Settled, Records
<1>10. ASSUME NEW q \in requests, RequestStep(q)
      PROVE  SettledBehind'
  <2>1. CASE BrokerAppends(q)
    <3>1. UNCHANGED <<wal, confirmed, running, next, sending>>
      BY <2>1 DEF BrokerAppends, AppendToTopic
    <3>2. QED
      BY <1>a, <1>b, <1>c, <3>1 DEF TypeOK, Positions
  <2>2. CASE AckLost(q)
    <3>1. UNCHANGED <<wal, confirmed, running, next, sending>>
      BY <2>2 DEF AckLost
    <3>2. QED
      BY <1>a, <1>b, <1>c, <3>1 DEF TypeOK, Positions
  <2>3. CASE DeliverySucceeds(q)
    <3>1. Settled(sending)
      BY <2>3 DEF DeliverySucceeds, RequestsInOrder, Settled
    <3>2. QED
      BY <1>a, <1>b, <1>c, <2>3, <3>1 DEF DeliverySucceeds, TypeOK, Positions
  <2>4. CASE DeliveryFails(q)
    BY <2>4, <1>a, <1>b, <1>c DEF DeliveryFails, Fault, TypeOK, Positions,
       Settled, Records
  <2>5. CASE LateReport(q)
    BY <2>5, <1>a, <1>b, <1>c DEF LateReport, Die, Orphaned, TypeOK,
       Positions
  <2>6. CASE OrphanAppended(q)
    <3>1. UNCHANGED <<wal, confirmed, running, next, sending>>
      BY <2>6 DEF OrphanAppended, AppendToTopic
    <3>2. QED
      BY <1>a, <1>b, <1>c, <3>1 DEF TypeOK, Positions
  <2>7. CASE OrphanLost(q)
    BY <2>7, <1>a, <1>b, <1>c DEF OrphanLost, TypeOK, Positions, Settled,
       Records
  <2>8. QED
    BY <1>10, <2>1, <2>2, <2>3, <2>4, <2>5, <2>6, <2>7 DEF RequestStep
<1>11. CASE UNCHANGED vars
  BY <1>11, <1>a, <1>b, <1>c DEF vars, TypeOK, Positions
<1>12. QED
  BY <1>1, <1>2, <1>3, <1>4, <1>5, <1>6, <1>7, <1>8, <1>9, <1>10, <1>11 DEF
     Next

\* The position to confirm stays the end of a transaction.
LEMMA CommitsStep == Inductive /\ [Next]_vars => CommitsOnly'
<1> SUFFICES ASSUME Inductive, [Next]_vars PROVE CommitsOnly'
  OBVIOUS
<1>a. Growth /\ TypeOK' /\ TypeOK /\ Positions
  BY Grows, TypeStep DEF Inductive
<1>c. Len(wal) \in Nat /\ DOMAIN wal = 1..Len(wal)
  BY <1>a, LenProperties DEF TypeOK
<1> USE DEF CommitsOnly, AtCommit, Inductive, None, database, process
<1>1. ASSUME NEW body \in Bodies, CommitTransaction(body)
      PROVE  CommitsOnly'
  <2>1. /\ UNCHANGED <<slot, origin, confirmed, running, lsn>>
        /\ wal' \in Seq(RowKinds \cup {"commit"}) /\ Len(wal) < Len(wal')
        /\ \A i \in 1..Len(wal) : wal'[i] = wal[i]
    BY <1>1, <1>a, StreamGrows DEF CommitTransaction
  <2>2. DOMAIN wal' = 1..Len(wal') /\ Len(wal') \in Nat
    BY <2>1, LenProperties
  <2>3. \A i \in DOMAIN wal : i \in DOMAIN wal' /\ wal'[i] = wal[i]
    BY <1>c, <2>1, <2>2
  <2>4. QED
    BY <1>a, <2>1, <2>3
<1>2. CASE Start
  BY <1>2, <1>a, <1>c DEF Start, TypeOK, Positions
<1>3. CASE Kill
  BY <1>3, <1>a, <1>c DEF Kill, Die, Orphaned, Fault, TypeOK, Positions
<1>4. CASE Produce
  BY <1>4, <1>a, <1>c DEF Produce, Receiving, Enqueue, NewRequest, TypeOK,
     Positions
<1>5. CASE ProduceFails
  BY <1>5, <1>a, <1>c DEF ProduceFails, Receiving, Fault, TypeOK, Positions
<1>6. CASE ReceiveUndecodable
  BY <1>6, <1>a, <1>c DEF ReceiveUndecodable, Die, Orphaned, Receiving,
     TypeOK, Positions
<1>7. CASE ReceiveCommit
  BY <1>7, <1>a, <1>c DEF ReceiveCommit, Receiving, TypeOK, Positions
<1>8. CASE SendStandbyUpdate
  BY <1>8, <1>a, <1>c DEF SendStandbyUpdate, TypeOK, Positions
<1>9. CASE SendTimesOut
  BY <1>9, <1>a, <1>c DEF SendTimesOut, Fault, TypeOK, Positions
<1>10. ASSUME NEW q \in requests, RequestStep(q)
      PROVE  CommitsOnly'
  <2>1. CASE BrokerAppends(q)
    BY <2>1, <1>a, <1>c DEF BrokerAppends, Written, AppendToTopic, TypeOK,
       Positions
  <2>2. CASE AckLost(q)
    BY <2>2, <1>a, <1>c DEF AckLost, Written, Fault, TypeOK, Positions
  <2>3. CASE DeliverySucceeds(q)
    BY <2>3, <1>a, <1>c DEF DeliverySucceeds, TypeOK, Positions
  <2>4. CASE DeliveryFails(q)
    BY <2>4, <1>a, <1>c DEF DeliveryFails, Fault, TypeOK, Positions
  <2>5. CASE LateReport(q)
    BY <2>5, <1>a, <1>c DEF LateReport, Die, Orphaned, TypeOK, Positions
  <2>6. CASE OrphanAppended(q)
    BY <2>6, <1>a, <1>c DEF OrphanAppended, AppendToTopic, TypeOK, Positions
  <2>7. CASE OrphanLost(q)
    BY <2>7, <1>a, <1>c DEF OrphanLost, TypeOK, Positions
  <2>8. QED
    BY <1>10, <2>1, <2>2, <2>3, <2>4, <2>5, <2>6, <2>7 DEF RequestStep
<1>11. CASE UNCHANGED vars
  BY <1>11, <1>a, <1>c DEF vars, TypeOK, Positions
<1>12. QED
  BY <1>1, <1>2, <1>3, <1>4, <1>5, <1>6, <1>7, <1>8, <1>9, <1>10, <1>11 DEF
     Next

\* Every record on the wire has everything before it settled.
LEMMA RequestsStep == Inductive /\ [Next]_vars => RequestsInOrder'
<1> SUFFICES ASSUME Inductive, [Next]_vars PROVE RequestsInOrder'
  OBVIOUS
<1>a. Growth /\ TypeOK' /\ TypeOK /\ Positions
  BY Grows, TypeStep DEF Inductive
<1>b. \A i \in 1..Len(wal) : Settled(i) => Settled(i)'
  BY <1>a DEF Growth, Settled
<1>c. Len(wal) \in Nat /\ \A q \in requests : q \in Request /\ q.pos \in 1..Len(wal)
  BY <1>a, LenProperties DEF TypeOK, Positions, Records, Request
<1>d. \A q \in requests : \A i \in 1..(q.pos - 1) : Settled(i)'
  <2>1. \A q \in requests : \A i \in 1..(q.pos - 1) : Settled(i) /\ i \in 1..Len(wal)
    BY <1>c DEF Inductive, RequestsInOrder, Request
  <2>2. QED
    BY <1>b, <2>1
<1>e. \A q \in requests : q.written => q.pos \in Appended'
  BY <1>a DEF Inductive, RequestsInOrder, Growth
<1> USE DEF None, database, process
<1>1. ASSUME NEW body \in Bodies, CommitTransaction(body)
      PROVE  RequestsInOrder'
  <2>1. \A r \in requests' : \E q1 \in requests : r.pos = q1.pos /\ (r.written => q1.written)
    BY <1>1 DEF CommitTransaction
  <2>2. QED
    BY <1>d, <1>e, <2>1 DEF RequestsInOrder
<1>2. CASE Start
  <2>1. \A r \in requests' : \E q1 \in requests : r.pos = q1.pos /\ (r.written => q1.written)
    BY <1>2 DEF Start
  <2>2. QED
    BY <1>d, <1>e, <2>1 DEF RequestsInOrder
<1>3. CASE Kill
  <2>1. \A r \in requests' : \E q1 \in requests : r.pos = q1.pos /\ (r.written => q1.written)
    BY <1>3, DeathKeepsRequests DEF Kill
  <2>2. QED
    BY <1>d, <1>e, <2>1 DEF RequestsInOrder
<1>4. CASE Produce
  <2>1. next \in 1..Len(wal) /\ sending = None /\ running
    BY <1>a, <1>c, <1>4 DEF Produce, Receiving, TypeOK, Positions
  <2>2. \A i \in 1..(next - 1) : Settled(i) /\ i \in 1..Len(wal)
    BY <1>c, <2>1 DEF Inductive, SettledBehind, None
  <2>3. \A r \in requests' : r \in requests \/ (r.pos = next /\ r.written = FALSE)
    BY <1>4 DEF Produce, Enqueue, NewRequest
  <2>4. QED
    BY <1>b, <1>d, <1>e, <2>2, <2>3 DEF RequestsInOrder
<1>5. CASE ProduceFails
  <2>1. \A r \in requests' : \E q1 \in requests : r.pos = q1.pos /\ (r.written => q1.written)
    BY <1>5 DEF ProduceFails
  <2>2. QED
    BY <1>d, <1>e, <2>1 DEF RequestsInOrder
<1>6. CASE ReceiveUndecodable
  <2>1. \A r \in requests' : \E q1 \in requests : r.pos = q1.pos /\ (r.written => q1.written)
    BY <1>6, DeathKeepsRequests DEF ReceiveUndecodable
  <2>2. QED
    BY <1>d, <1>e, <2>1 DEF RequestsInOrder
<1>7. CASE ReceiveCommit
  <2>1. \A r \in requests' : \E q1 \in requests : r.pos = q1.pos /\ (r.written => q1.written)
    BY <1>7 DEF ReceiveCommit
  <2>2. QED
    BY <1>d, <1>e, <2>1 DEF RequestsInOrder
<1>8. CASE SendStandbyUpdate
  <2>1. \A r \in requests' : \E q1 \in requests : r.pos = q1.pos /\ (r.written => q1.written)
    BY <1>8 DEF SendStandbyUpdate
  <2>2. QED
    BY <1>d, <1>e, <2>1 DEF RequestsInOrder
<1>9. CASE SendTimesOut
  <2>1. \A r \in requests' : \E q1 \in requests : r.pos = q1.pos /\ (r.written => q1.written)
    BY <1>9 DEF SendTimesOut
  <2>2. QED
    BY <1>d, <1>e, <2>1 DEF RequestsInOrder
<1>10. ASSUME NEW q \in requests, RequestStep(q)
      PROVE  RequestsInOrder'
  <2>1. CASE BrokerAppends(q)
    <3>1. \A r \in requests' : r \in requests \/ r.pos = q.pos
      BY <2>1, OneRequestChanges DEF BrokerAppends
    <3>2. q.pos \in Appended'
      BY <1>a, <2>1, TopicGrows DEF BrokerAppends
    <3>3. QED
      BY <1>d, <1>e, <3>1, <3>2 DEF RequestsInOrder
  <2>2. CASE AckLost(q)
    <3>1. \A r \in requests' : r \in requests \/ (r.pos = q.pos /\ r.written = FALSE)
      BY <2>2, OneRequestChanges DEF AckLost
    <3>2. QED
      BY <1>d, <1>e, <3>1 DEF RequestsInOrder
  <2>3. CASE DeliverySucceeds(q)
    <3>1. \A r \in requests' : \E q1 \in requests : r.pos = q1.pos /\ (r.written => q1.written)
      BY <2>3 DEF DeliverySucceeds
    <3>2. QED
      BY <1>d, <1>e, <3>1 DEF RequestsInOrder
  <2>4. CASE DeliveryFails(q)
    <3>1. \A r \in requests' : \E q1 \in requests : r.pos = q1.pos /\ (r.written => q1.written)
      BY <2>4 DEF DeliveryFails
    <3>2. QED
      BY <1>d, <1>e, <3>1 DEF RequestsInOrder
  <2>5. CASE LateReport(q)
    <3>1. \A r \in requests' : \E q1 \in requests : r.pos = q1.pos /\ (r.written => q1.written)
      BY <2>5, DeathKeepsRequests DEF LateReport
    <3>2. QED
      BY <1>d, <1>e, <3>1 DEF RequestsInOrder
  <2>6. CASE OrphanAppended(q)
    <3>1. \A r \in requests' : \E q1 \in requests : r.pos = q1.pos /\ (r.written => q1.written)
      BY <2>6 DEF OrphanAppended
    <3>2. QED
      BY <1>d, <1>e, <3>1 DEF RequestsInOrder
  <2>7. CASE OrphanLost(q)
    <3>1. \A r \in requests' : \E q1 \in requests : r.pos = q1.pos /\ (r.written => q1.written)
      BY <2>7 DEF OrphanLost
    <3>2. QED
      BY <1>d, <1>e, <3>1 DEF RequestsInOrder
  <2>8. QED
    BY <1>10, <2>1, <2>2, <2>3, <2>4, <2>5, <2>6, <2>7 DEF RequestStep
<1>11. CASE UNCHANGED vars
  <2>1. \A r \in requests' : \E q1 \in requests : r.pos = q1.pos /\ (r.written => q1.written)
    BY <1>11 DEF vars
  <2>2. QED
    BY <1>d, <1>e, <2>1 DEF RequestsInOrder
<1>12. QED
  BY <1>1, <1>2, <1>3, <1>4, <1>5, <1>6, <1>7, <1>8, <1>9, <1>10, <1>11 DEF
     Next

\* First copies stay in the order of the stream.
LEMMA OrderStep == Inductive /\ [Next]_vars => FirstCopiesInOrder'
<1> SUFFICES ASSUME Inductive, [Next]_vars PROVE FirstCopiesInOrder'
  OBVIOUS
<1>a. Growth /\ TypeOK' /\ TypeOK /\ Positions
  BY Grows, TypeStep DEF Inductive
<1>b. DOMAIN topic = 1..Len(topic) /\ Len(topic) \in Nat
  BY <1>a, LenProperties DEF TypeOK
<1>c. \A n \in DOMAIN topic : topic[n] \in 1..Len(wal)
  BY <1>a, LenProperties DEF Positions, Records, TypeOK
<1>d. \A n \in DOMAIN topic : \A i \in Records' :
        i < topic[n] => i \in logged' \/ \E m \in 1..(n - 1) : topic[m] = i
  <2> SUFFICES ASSUME NEW n \in DOMAIN topic, NEW i \in Records', i < topic[n]
               PROVE  i \in logged' \/ \E m \in 1..(n - 1) : topic[m] = i
    OBVIOUS
  <2>1. i \in Nat \ {0}
    BY <1>a, LenProperties DEF Records, TypeOK
  <2>2. Len(wal) \in Nat /\ i \in 1..Len(wal)
    BY <1>a, <1>c, <2>1, LenProperties DEF TypeOK
  <2>3. QED
    BY <1>a, <2>2 DEF Inductive, FirstCopiesInOrder, Growth
<1> USE DEF None, database, process
<1>1. ASSUME NEW body \in Bodies, CommitTransaction(body)
      PROVE  FirstCopiesInOrder'
  <2>1. topic' = topic
    BY <1>1 DEF CommitTransaction
  <2>2. QED
    BY <1>d, <2>1 DEF FirstCopiesInOrder
<1>2. CASE Start
  <2>1. topic' = topic
    BY <1>2 DEF Start
  <2>2. QED
    BY <1>d, <2>1 DEF FirstCopiesInOrder
<1>3. CASE Kill
  <2>1. topic' = topic
    BY <1>3 DEF Kill, Die
  <2>2. QED
    BY <1>d, <2>1 DEF FirstCopiesInOrder
<1>4. CASE Produce
  <2>1. topic' = topic
    BY <1>4 DEF Produce
  <2>2. QED
    BY <1>d, <2>1 DEF FirstCopiesInOrder
<1>5. CASE ProduceFails
  <2>1. topic' = topic
    BY <1>5 DEF ProduceFails
  <2>2. QED
    BY <1>d, <2>1 DEF FirstCopiesInOrder
<1>6. CASE ReceiveUndecodable
  <2>1. topic' = topic
    BY <1>6 DEF ReceiveUndecodable, Die
  <2>2. QED
    BY <1>d, <2>1 DEF FirstCopiesInOrder
<1>7. CASE ReceiveCommit
  <2>1. topic' = topic
    BY <1>7 DEF ReceiveCommit
  <2>2. QED
    BY <1>d, <2>1 DEF FirstCopiesInOrder
<1>8. CASE SendStandbyUpdate
  <2>1. topic' = topic
    BY <1>8 DEF SendStandbyUpdate
  <2>2. QED
    BY <1>d, <2>1 DEF FirstCopiesInOrder
<1>9. CASE SendTimesOut
  <2>1. topic' = topic
    BY <1>9 DEF SendTimesOut
  <2>2. QED
    BY <1>d, <2>1 DEF FirstCopiesInOrder
<1>10. ASSUME NEW q \in requests, RequestStep(q)
      PROVE  FirstCopiesInOrder'
  <2>1. CASE BrokerAppends(q)
    <3>1. q.pos \in 1..Len(wal) /\ Len(wal) \in Nat
      BY <1>a, LenProperties DEF Positions, Records, TypeOK
    <3>2. Records' = Records /\ logged' = logged
      BY <2>1, RecordsStay DEF BrokerAppends, AppendToTopic
    <3>3. \A i \in Records : i < q.pos => i \in Appended \cup logged
      BY <1>a, <3>1, LenProperties DEF Inductive, RequestsInOrder, Settled, Records, TypeOK
    <3>4. \A i \in Records : i < q.pos => i \in logged \/ \E m \in 1..Len(topic) : topic[m] = i
      BY <1>b, <3>3 DEF Appended
    <3>5. /\ DOMAIN topic' = 1..(Len(topic) + 1)
          /\ \A n \in 1..Len(topic) : topic'[n] = topic[n]
          /\ topic'[Len(topic) + 1] = q.pos
      BY <1>a, <1>b, <2>1, TopicGrows, LenProperties DEF BrokerAppends
    <3>6. SUFFICES ASSUME NEW n \in 1..(Len(topic) + 1), NEW i \in Records, i < topic'[n]
                  PROVE  i \in logged \/ \E m \in 1..(n - 1) : topic'[m] = i
      BY <3>2, <3>5 DEF FirstCopiesInOrder
    <3>7. CASE n = Len(topic) + 1
      BY <1>b, <3>4, <3>5, <3>6, <3>7
    <3>8. CASE n \in 1..Len(topic)
      <4>1. i \in logged \/ \E m \in 1..(n - 1) : topic[m] = i
        BY <1>b, <1>d, <3>2, <3>5, <3>6, <3>8
      <4>2. 1..(n - 1) \subseteq 1..Len(topic)
        BY <1>b, <3>8
      <4>3. QED
        BY <3>5, <4>1, <4>2
    <3>9. QED
      BY <1>b, <3>7, <3>8
  <2>2. CASE AckLost(q)
    <3>1. topic' = topic
      BY <2>2 DEF AckLost
    <3>2. QED
      BY <1>d, <3>1 DEF FirstCopiesInOrder
  <2>3. CASE DeliverySucceeds(q)
    <3>1. topic' = topic
      BY <2>3 DEF DeliverySucceeds
    <3>2. QED
      BY <1>d, <3>1 DEF FirstCopiesInOrder
  <2>4. CASE DeliveryFails(q)
    <3>1. topic' = topic
      BY <2>4 DEF DeliveryFails
    <3>2. QED
      BY <1>d, <3>1 DEF FirstCopiesInOrder
  <2>5. CASE LateReport(q)
    <3>1. topic' = topic
      BY <2>5 DEF LateReport, Die
    <3>2. QED
      BY <1>d, <3>1 DEF FirstCopiesInOrder
  <2>6. CASE OrphanAppended(q)
    <3>1. q.pos \in 1..Len(wal) /\ Len(wal) \in Nat
      BY <1>a, LenProperties DEF Positions, Records, TypeOK
    <3>2. Records' = Records /\ logged' = logged
      BY <2>6, RecordsStay DEF OrphanAppended, AppendToTopic
    <3>3. \A i \in Records : i < q.pos => i \in Appended \cup logged
      BY <1>a, <3>1, LenProperties DEF Inductive, RequestsInOrder, Settled, Records, TypeOK
    <3>4. \A i \in Records : i < q.pos => i \in logged \/ \E m \in 1..Len(topic) : topic[m] = i
      BY <1>b, <3>3 DEF Appended
    <3>5. /\ DOMAIN topic' = 1..(Len(topic) + 1)
          /\ \A n \in 1..Len(topic) : topic'[n] = topic[n]
          /\ topic'[Len(topic) + 1] = q.pos
      BY <1>a, <1>b, <2>6, TopicGrows, LenProperties DEF OrphanAppended
    <3>6. SUFFICES ASSUME NEW n \in 1..(Len(topic) + 1), NEW i \in Records, i < topic'[n]
                  PROVE  i \in logged \/ \E m \in 1..(n - 1) : topic'[m] = i
      BY <3>2, <3>5 DEF FirstCopiesInOrder
    <3>7. CASE n = Len(topic) + 1
      BY <1>b, <3>4, <3>5, <3>6, <3>7
    <3>8. CASE n \in 1..Len(topic)
      <4>1. i \in logged \/ \E m \in 1..(n - 1) : topic[m] = i
        BY <1>b, <1>d, <3>2, <3>5, <3>6, <3>8
      <4>2. 1..(n - 1) \subseteq 1..Len(topic)
        BY <1>b, <3>8
      <4>3. QED
        BY <3>5, <4>1, <4>2
    <3>9. QED
      BY <1>b, <3>7, <3>8
  <2>7. CASE OrphanLost(q)
    <3>1. topic' = topic
      BY <2>7 DEF OrphanLost
    <3>2. QED
      BY <1>d, <3>1 DEF FirstCopiesInOrder
  <2>8. QED
    BY <1>10, <2>1, <2>2, <2>3, <2>4, <2>5, <2>6, <2>7 DEF RequestStep
<1>11. CASE UNCHANGED vars
  <2>1. topic' = topic
    BY <1>11 DEF vars
  <2>2. QED
    BY <1>d, <2>1 DEF FirstCopiesInOrder
<1>12. QED
  BY <1>1, <1>2, <1>3, <1>4, <1>5, <1>6, <1>7, <1>8, <1>9, <1>10, <1>11 DEF
     Next

-----------------------------------------------------------------------------
(* The theorems.                                                           *)

\* Whatever the stream, the bounds and the faults, the relay stays within its
\* inductive invariant.
THEOREM AlwaysInductive == Spec => []Inductive
<1>1. Init => Inductive
  <2> SUFFICES ASSUME Init PROVE Inductive
    OBVIOUS
  <2>1. /\ wal \in Seq(RowKinds \cup {"commit"}) /\ Len(wal) = 0
        /\ topic \in Seq(Nat) /\ DOMAIN topic = {} /\ Records = {}
    BY EmptySeq, LenProperties DEF Init, Records
  <2>2. TypeOK
    BY <2>1 DEF Init, TypeOK, None
  <2>3. Positions
    BY <2>1 DEF Init, Positions, None
  <2>4. SettledBehind /\ CommitsOnly /\ RequestsInOrder
    BY <2>1 DEF Init, SettledBehind, CommitsOnly, RequestsInOrder
  <2>5. FirstCopiesInOrder
    BY <2>1 DEF FirstCopiesInOrder
  <2>6. QED
    BY <2>2, <2>3, <2>4, <2>5 DEF Inductive
<1>2. Inductive /\ [Next]_vars => Inductive'
  BY TypeStep, PositionsStep, SettledStep, CommitsStep, RequestsStep, OrderStep
     DEF Inductive
<1>3. QED
  BY <1>1, <1>2, PTL DEF Spec

\* Every variable keeps its type.
THEOREM AlwaysTyped == Spec => []TypeOK
<1>1. Inductive => TypeOK
  BY DEF Inductive
<1>2. QED
  BY <1>1, AlwaysInductive, PTL

\* No record behind the confirmed position is lost without a line in the log.
THEOREM NothingLostSilently == Spec => []ConfirmedIsSettled
<1>1. Inductive => ConfirmedIsSettled
  <2> SUFFICES ASSUME Inductive, NEW i \in Records, i <= confirmed
               PROVE  i \in Appended \cup logged
    BY DEF ConfirmedIsSettled
  <2>1. i \in 1..confirmed
    BY LenProperties DEF Inductive, TypeOK, Records
  <2>2. QED
    BY <2>1 DEF Inductive, SettledBehind, Settled
<1>2. QED
  BY <1>1, AlwaysInductive, PTL

\* The relay only ever confirms the end of a transaction.
THEOREM WholeTransactions == Spec => []ConfirmsWholeTransactions
<1>1. Inductive => ConfirmsWholeTransactions
  BY DEF Inductive, CommitsOnly, AtCommit, ConfirmsWholeTransactions
<1>2. QED
  BY <1>1, AlwaysInductive, PTL

\* First copies are in the order of the stream, but for records given up.
THEOREM OrderedFirstCopies == Spec => []FirstCopiesInOrder
<1>1. Inductive => FirstCopiesInOrder
  BY DEF Inductive
<1>2. QED
  BY <1>1, AlwaysInductive, PTL

\* What each step is for the promise of an outbox.
LEMMA StepKeepsPromise ==
  Inductive /\ [Next]_vars => [Promise!Next]_(Promise!vars)
<1> SUFFICES ASSUME Inductive, [Next]_vars PROVE [Promise!Next]_(Promise!vars)
  OBVIOUS
<1> USE DEF database, process
<1> DEFINE Released == {i \in Records : i <= confirmed}
<1>a. /\ TypeOK /\ Positions /\ Growth
      /\ Len(wal) \in Nat /\ Len(wal') \in Nat /\ DOMAIN wal = 1..Len(wal)
      /\ DOMAIN wal' = 1..Len(wal') /\ Len(wal) <= MaxWal /\ Len(wal') <= MaxWal
  BY TypeStep, PositionsStep, Grows, LenProperties DEF Inductive, TypeOK, Positions
<1>b. Records \subseteq 1..MaxWal /\ Records' \subseteq 1..MaxWal
  BY <1>a DEF Records
<1>c. UNCHANGED <<Records, Appended, logged, Released>> => UNCHANGED Promise!vars
  BY DEF Promise!vars
<1>d. ASSUME Records' = Records, Appended' = Appended, Released' = Released,
             NEW r \in Records, logged' = logged \cup {r}
      PROVE  Promise!Next
  BY <1>b, <1>d DEF Promise!Next, Promise!GiveUp
<1>1. ASSUME NEW body \in Bodies, CommitTransaction(body)
      PROVE  Promise!Next
  <2>1. UNCHANGED <<Appended, logged, confirmed>> /\ Records \subseteq Records'
    BY <1>a, <1>1 DEF CommitTransaction, Appended, Growth
  <2>2. Released' = Released
    BY <1>a, <2>1 DEF Growth, TypeOK, Positions, Records
  <2>3. Records' = Records \cup Records'
    BY <2>1
  <2>4. QED
    BY <1>b, <2>1, <2>2, <2>3 DEF Promise!Next, Promise!Commit
<1>2. CASE Start
  <2>1. UNCHANGED <<Records, Appended, logged>>
    BY <1>a, <1>2, RecordsAtStart DEF Start, Appended
  <2>2. Released' = Released
    BY <1>a, <1>2, <2>1 DEF Start, Records, TypeOK
  <2>3. QED
    BY <1>c, <2>1, <2>2
<1>3. CASE Kill
  BY <1>c, <1>3, RecordsStay DEF Kill, Die, Appended
<1>4. CASE Produce
  BY <1>c, <1>4, RecordsStay DEF Produce, Appended
<1>5. CASE ProduceFails
  <2>1. UNCHANGED <<Records, Appended, Released>> /\ logged' = logged \cup {next}
    BY <1>5, RecordsStay DEF ProduceFails, Appended
  <2>2. next \in Records
    BY <1>a, <1>5 DEF ProduceFails, Receiving, Records, TypeOK, Positions
  <2>3. QED
    BY <1>d, <2>1, <2>2
<1>6. CASE ReceiveUndecodable
  BY <1>c, <1>6, RecordsStay DEF ReceiveUndecodable, Die, Appended
<1>7. CASE ReceiveCommit
  BY <1>c, <1>7, RecordsStay DEF ReceiveCommit, Appended
<1>8. CASE SendStandbyUpdate
  <2>1. UNCHANGED <<Records, Appended, logged>> /\ confirmed' = lsn /\ lsn \in Nat
    BY <1>a, <1>8, RecordsStay DEF SendStandbyUpdate, Appended, TypeOK
  <2>2. confirmed <= lsn /\ confirmed \in Nat /\ \A i \in 1..lsn : Settled(i)
    BY <1>a, <1>8 DEF SendStandbyUpdate, Inductive, SettledBehind, Positions, TypeOK, None
  <2>3. Released' \subseteq Records /\ Released' \subseteq Appended \cup logged
    <3>1. Released' = {i \in Records : i <= lsn}
      BY <2>1
    <3>2. \A i \in Records : i \in Nat \ {0}
      BY <1>a DEF Records
    <3>3. \A i \in Records : i <= lsn => i \in 1..lsn
      BY <2>1, <3>2
    <3>4. QED
      BY <2>2, <3>1, <3>3 DEF Settled
  <2>4. Released' = Released \cup Released'
    <3>1. \A i \in Records : i \in Nat
      BY <1>a DEF Records
    <3>2. \A i \in Records : i <= confirmed => i <= lsn
      BY <2>1, <2>2, <3>1
    <3>3. QED
      BY <2>1, <3>2
  <2>5. QED
    BY <1>b, <2>1, <2>3, <2>4 DEF Promise!Next, Promise!Release
<1>9. CASE SendTimesOut
  <2>1. UNCHANGED <<Records, Appended, Released>> /\ logged' = logged \cup {sending}
    BY <1>9, RecordsStay DEF SendTimesOut, Appended
  <2>2. sending \in Records
    BY <1>a, <1>9 DEF SendTimesOut, Positions, TypeOK
  <2>3. QED
    BY <1>d, <2>1, <2>2
<1>10. ASSUME NEW q \in requests, RequestStep(q)
       PROVE  [Promise!Next]_(Promise!vars)
  <2>1. CASE BrokerAppends(q)
    <3>1. UNCHANGED <<Records, logged, Released>> /\ Appended' = Appended \cup {q.pos}
      <4>1. AppendToTopic(q)
        BY <2>1 DEF BrokerAppends
      <4>2. QED
        BY <1>a, <4>1, RecordsStay, TopicGrows DEF AppendToTopic
    <3>2. q.pos \in Records
      BY <1>a DEF Positions
    <3>3. QED
      BY <1>b, <3>1, <3>2 DEF Promise!Next, Promise!Publish
  <2>2. CASE AckLost(q)
    BY <1>c, <2>2, RecordsStay DEF AckLost, Appended
  <2>3. CASE DeliverySucceeds(q)
    BY <1>c, <2>3, RecordsStay DEF DeliverySucceeds, Appended
  <2>4. CASE DeliveryFails(q)
    <3>1. UNCHANGED <<Records, Appended, Released>> /\ logged' = logged \cup {q.pos}
      BY <2>4, RecordsStay DEF DeliveryFails, Appended
    <3>2. q.pos \in Records
      BY <1>a DEF Positions
    <3>3. QED
      BY <1>d, <3>1, <3>2
  <2>5. CASE LateReport(q)
    BY <1>c, <2>5, RecordsStay DEF LateReport, Die, Appended
  <2>6. CASE OrphanAppended(q)
    <3>1. UNCHANGED <<Records, logged, Released>> /\ Appended' = Appended \cup {q.pos}
      <4>1. AppendToTopic(q)
        BY <2>6 DEF OrphanAppended
      <4>2. QED
        BY <1>a, <4>1, RecordsStay, TopicGrows DEF AppendToTopic
    <3>2. q.pos \in Records
      BY <1>a DEF Positions
    <3>3. QED
      BY <1>b, <3>1, <3>2 DEF Promise!Next, Promise!Publish
  <2>7. CASE OrphanLost(q)
    BY <1>c, <2>7, RecordsStay DEF OrphanLost, Appended
  <2>8. QED
    BY <1>10, <2>1, <2>2, <2>3, <2>4, <2>5, <2>6, <2>7 DEF RequestStep
<1>11. CASE UNCHANGED vars
  BY <1>c, <1>11, RecordsStay DEF vars, Appended
<1>12. QED
  BY <1>1, <1>2, <1>3, <1>4, <1>5, <1>6, <1>7, <1>8, <1>9, <1>10, <1>11 DEF Next

\* The relay keeps the promise of an outbox: what it releases to PostgreSQL was
\* published, or the log says that it was given up.
THEOREM RelayKeepsPromise == Spec => KeepsPromise
<1>1. Init => Promise!Init
  BY DEF Init, Promise!Init, Records, Appended
<1>2. QED
  BY <1>1, StepKeepsPromise, AlwaysInductive, PTL DEF KeepsPromise, Spec, Promise!Spec

-----------------------------------------------------------------------------
(* Counting.                                                               *)

\* One element more, at most.
LEMMA OneMore ==
  ASSUME NEW S, IsFiniteSet(S), NEW x, NEW T \in SUBSET (S \cup {x})
  PROVE  IsFiniteSet(T) /\ Cardinality(T) <= Cardinality(S) + 1
<1>1. /\ IsFiniteSet(S \cup {x})
      /\ Cardinality(S \cup {x}) =
           IF x \in S THEN Cardinality(S) ELSE Cardinality(S) + 1
  BY FS_AddElement
<1>2. IsFiniteSet(T) /\ Cardinality(T) <= Cardinality(S \cup {x})
  BY <1>1, FS_Subset
<1>3. Cardinality(S) \in Nat /\ Cardinality(T) \in Nat /\ Cardinality(S \cup {x}) \in Nat
  BY <1>1, <1>2, FS_CardinalityType
<1> QED
  BY <1>1, <1>2, <1>3

\* The copies of a record are finitely many.
LEMMA CopiesCounted ==
  ASSUME TypeOK, NEW i
  PROVE  /\ Copies(i) \in SUBSET (1..Len(topic))
         /\ IsFiniteSet(Copies(i)) /\ Cardinality(Copies(i)) \in Nat
<1>1. topic \in Seq(Nat) /\ Len(topic) \in Nat /\ DOMAIN topic = 1..Len(topic)
  BY LenProperties DEF TypeOK
<1>2. IsFiniteSet(1..Len(topic))
  BY <1>1, FS_Interval
<1> QED
  BY <1>1, <1>2, FS_Subset, FS_CardinalityType DEF Copies

\* A request is for a message of the stream.
LEMMA RequestPositions ==
  ASSUME Inductive
  PROVE  \A q \in requests : q.pos \in Nat /\ q.pos # None
<1>1. \A q \in requests : q.pos \in DOMAIN wal
  BY DEF Inductive, Positions, Records
<1>2. DOMAIN wal = 1..Len(wal) /\ Len(wal) \in Nat
  BY LenProperties DEF Inductive, TypeOK
<1> QED
  BY <1>1, <1>2 DEF None

\* So are those on the wire.
LEMMA WireCounted ==
  ASSUME IsFiniteSet(requests), NEW i
  PROVE  IsFiniteSet(OnWire(i)) /\ Cardinality(OnWire(i)) \in Nat
BY FS_Subset, FS_CardinalityType DEF OnWire

\* An append makes one more copy, of what is appended.
LEMMA AppendCopies ==
  ASSUME TypeOK, NEW p \in Nat, topic' = Append(topic, p), NEW i
  PROVE  /\ i # p => Copies(i)' = Copies(i)
         /\ Cardinality(Copies(i)') \in Nat
         /\ Cardinality(Copies(i)') <= Cardinality(Copies(i)) + 1
<1>1. topic \in Seq(Nat) /\ Len(topic) \in Nat /\ DOMAIN topic = 1..Len(topic)
  BY LenProperties DEF TypeOK
<1>2. /\ DOMAIN topic' = 1..(Len(topic) + 1)
      /\ topic'[Len(topic) + 1] = p
      /\ \A n \in 1..Len(topic) : topic'[n] = topic[n]
  BY <1>1, AppendProperties, LenProperties
<1>3. i # p => Copies(i)' = Copies(i)
  BY <1>1, <1>2 DEF Copies
<1>4. Copies(i)' \subseteq Copies(i) \cup {Len(topic) + 1}
  BY <1>1, <1>2 DEF Copies
<1> QED
  BY <1>3, <1>4, CopiesCounted, OneMore, FS_CardinalityType

\* When the process dies nothing is put on the wire.
LEMMA DeathOnWire ==
  ASSUME IsFiniteSet(requests), Die, NEW i
  PROVE  /\ IsFiniteSet(requests') /\ \A q \in requests' : q.orphan
         /\ Cardinality(OnWire(i)') <= Cardinality(OnWire(i))
<1> DEFINE unwritten == {q \in requests : ~q.written}
           lost(S) == {Orphaned(q) : q \in S}
<1>1. requests' = lost(unwritten) /\ \A q \in requests' : q.orphan
  BY DEF Die, Orphaned
<1>2. OnWire(i)' = lost(OnWire(i))
  BY <1>1 DEF OnWire, Orphaned
<1>3. ASSUME NEW S, IsFiniteSet(S)
      PROVE  IsFiniteSet(lost(S)) /\ Cardinality(lost(S)) <= Cardinality(S)
  <2> DEFINE orphan == [q \in S |-> Orphaned(q)]
  <2>1. orphan \in Surjection(S, lost(S))
    BY DEF Surjection
  <2> QED
    BY <1>3, <2>1, FS_Surjection
<1>4. IsFiniteSet(unwritten)
  BY FS_Subset
<1> HIDE DEF lost, unwritten
<1> QED
  BY <1>1, <1>2, <1>3, <1>4, WireCounted

-----------------------------------------------------------------------------
(* The steps.                                                              *)

LivingFacts == IsFiniteSet(requests) /\ LivingSentOnce /\ (Late => faults >= 1)

\* A step that makes Send give up is a fault.
LateCosts == Late' => Late \/ (faults' = faults + 1 /\ sending' # sending)

\* Living requests stay those of the process, one for each record.
LEMMA LivingStep ==
  Inductive /\ RepeatsCounted /\ [Next]_vars => LivingFacts' /\ LateCosts
<1> SUFFICES ASSUME Inductive, RepeatsCounted, [Next]_vars
             PROVE  LivingFacts' /\ LateCosts
  OBVIOUS
<1> USE DEF RepeatsCounted, LivingFacts, LateCosts, database, process
<1>1. ASSUME NEW body \in Bodies, CommitTransaction(body) PROVE LivingFacts' /\ LateCosts
  BY <1>1 DEF CommitTransaction, LivingSentOnce, Late
<1>2. CASE Start
  BY <1>2 DEF Start, LivingSentOnce, Late
<1>3. CASE Kill
  <2>1. /\ IsFiniteSet(requests') /\ \A q \in requests' : q.orphan
    BY <1>3, DeathOnWire DEF Kill
  <2> QED
    BY <2>1 DEF LivingSentOnce, Late
<1>4. CASE Produce
  <2>1. PICK n \in 1..MaxRequests : requests' = requests \cup {NewRequest(n)}
    BY <1>4 DEF Produce, Enqueue
  <2> DEFINE new == NewRequest(n)
  <2>2. new.pos = next /\ ~new.orphan
    BY DEF NewRequest
  <2>3. requests' = requests \cup {new}
    BY <2>1
  <2> HIDE DEF new
  <2>4. /\ running /\ running' /\ sending = None /\ sending' = next /\ next' = next + 1
        /\ faults' = faults /\ next \in Nat /\ next # None
    BY <1>4 DEF Produce, Receiving, Inductive, Positions, TypeOK, None
  <2>5. IsFiniteSet(requests')
    BY <2>3, FS_AddElement
  <2>6. \A r \in requests : r.pos \in Nat /\ r.pos # None
    BY RequestPositions
  <2>7. LivingSentOnce'
    BY <2>2, <2>3, <2>4, <2>6 DEF LivingSentOnce
  <2>8. Late' => Late
    BY <2>2, <2>3, <2>4, <2>6 DEF Late
  <2> QED
    BY <2>4, <2>5, <2>7, <2>8
<1>5. CASE ProduceFails
  <2>1. next \in Nat /\ \A r \in requests : r.pos \in Nat
    BY DEF Inductive, TypeOK, Request
  <2> QED
    BY <1>5, <2>1 DEF ProduceFails, Receiving, Fault, LivingSentOnce, Late, Inductive, TypeOK
<1>6. CASE ReceiveUndecodable
  <2>1. /\ IsFiniteSet(requests') /\ \A q \in requests' : q.orphan
    BY <1>6, DeathOnWire DEF ReceiveUndecodable
  <2> QED
    BY <2>1 DEF LivingSentOnce, Late
<1>7. CASE ReceiveCommit
  <2>1. next \in Nat /\ \A r \in requests : r.pos \in Nat
    BY DEF Inductive, TypeOK, Request
  <2> QED
    BY <1>7, <2>1 DEF ReceiveCommit, Receiving, Fault, LivingSentOnce, Late, Inductive, TypeOK
<1>8. CASE SendStandbyUpdate
  BY <1>8 DEF SendStandbyUpdate, Fault, LivingSentOnce, Late
<1>9. CASE SendTimesOut
  <2>1. faults' >= 1 /\ faults' = faults + 1 /\ sending' # sending
    BY <1>9 DEF SendTimesOut, Fault, Inductive, TypeOK
  <2> QED
    BY <1>9, <2>1 DEF SendTimesOut, LivingSentOnce
<1>10. ASSUME NEW q \in requests, RequestStep(q) PROVE LivingFacts' /\ LateCosts
  <2>1. CASE BrokerAppends(q)
    <3> DEFINE new == [id |-> q.id, pos |-> q.pos, written |-> TRUE, orphan |-> FALSE]
    <3>1. new.pos = q.pos /\ ~new.orphan
      OBVIOUS
    <3>2. requests' = (requests \ {q}) \cup {new}
      BY <2>1 DEF BrokerAppends, Written
    <3> HIDE DEF new
    <3>3. IsFiniteSet(requests')
      BY <3>2, FS_RemoveElement, FS_AddElement
    <3>4. ~q.orphan /\ UNCHANGED <<running, next, sending>> /\ faults' >= faults /\ faults' \in Nat
      BY <2>1 DEF BrokerAppends, AppendToTopic, Fault, Inductive, TypeOK
    <3>5. LivingSentOnce'
      BY <3>1, <3>2, <3>4 DEF LivingSentOnce
    <3>6. Late' => Late
      BY <3>1, <3>2, <3>4 DEF Late
    <3> QED
      BY <3>3, <3>4, <3>5, <3>6 DEF Inductive, TypeOK
  <2>2. CASE AckLost(q)
    <3> DEFINE new == [id |-> q.id, pos |-> q.pos, written |-> FALSE, orphan |-> FALSE]
    <3>1. new.pos = q.pos /\ ~new.orphan
      OBVIOUS
    <3>2. requests' = (requests \ {q}) \cup {new}
      BY <2>2 DEF AckLost, Written
    <3> HIDE DEF new
    <3>3. IsFiniteSet(requests')
      BY <3>2, FS_RemoveElement, FS_AddElement
    <3>4. ~q.orphan /\ UNCHANGED <<running, next, sending>> /\ faults' >= faults /\ faults' \in Nat
      BY <2>2 DEF AckLost, AppendToTopic, Fault, Inductive, TypeOK
    <3>5. LivingSentOnce'
      BY <3>1, <3>2, <3>4 DEF LivingSentOnce
    <3>6. Late' => Late
      BY <3>1, <3>2, <3>4 DEF Late
    <3> QED
      BY <3>3, <3>4, <3>5, <3>6 DEF Inductive, TypeOK
  <2>3. CASE DeliverySucceeds(q)
    <3>1. requests' = requests \ {q}
      BY <2>3 DEF DeliverySucceeds
    <3>2. IsFiniteSet(requests')
      BY <3>1, FS_RemoveElement
    <3>3. UNCHANGED <<running, next>> /\ faults' >= faults /\ faults' \in Nat
      BY <2>3 DEF DeliverySucceeds, AppendToTopic, Fault, Inductive, TypeOK
    <3>4. LivingSentOnce'
      BY <3>1, <3>3 DEF LivingSentOnce
    <3>5. Late' => Late
      <4>1. q.pos = sending /\ ~q.orphan
        BY <2>3 DEF DeliverySucceeds
      <4>2. \A r \in requests' : ~r.orphan => r \in requests /\ r.pos # sending
        BY <3>1, <4>1 DEF LivingSentOnce
      <4> QED
        BY <4>2 DEF Late
    <3> QED
      BY <3>2, <3>3, <3>4, <3>5 DEF Inductive, TypeOK
  <2>4. CASE DeliveryFails(q)
    <3>1. requests' = requests \ {q}
      BY <2>4 DEF DeliveryFails
    <3>2. IsFiniteSet(requests')
      BY <3>1, FS_RemoveElement
    <3>3. UNCHANGED <<running, next>> /\ faults' >= faults /\ faults' \in Nat
      BY <2>4 DEF DeliveryFails, AppendToTopic, Fault, Inductive, TypeOK
    <3>4. LivingSentOnce'
      BY <3>1, <3>3 DEF LivingSentOnce
    <3>5. Late' => Late
      <4>1. q.pos = sending /\ ~q.orphan
        BY <2>4 DEF DeliveryFails
      <4>2. \A r \in requests' : ~r.orphan => r \in requests /\ r.pos # sending
        BY <3>1, <4>1 DEF LivingSentOnce
      <4> QED
        BY <4>2 DEF Late
    <3> QED
      BY <3>2, <3>3, <3>4, <3>5 DEF Inductive, TypeOK
  <2>5. CASE LateReport(q)
    <3>1. /\ IsFiniteSet(requests') /\ \A r \in requests' : r.orphan
      BY <2>5, DeathOnWire DEF LateReport
    <3> QED
      BY <3>1 DEF LivingSentOnce, Late
  <2>6. CASE OrphanAppended(q)
    <3>1. requests' = requests \ {q}
      BY <2>6 DEF OrphanAppended
    <3>2. IsFiniteSet(requests')
      BY <3>1, FS_RemoveElement
    <3>3. UNCHANGED <<running, next>> /\ faults' >= faults /\ faults' \in Nat
      BY <2>6 DEF OrphanAppended, AppendToTopic, Fault, Inductive, TypeOK
    <3>4. LivingSentOnce'
      BY <3>1, <3>3 DEF LivingSentOnce
    <3>5. Late' => Late
      <4>1. sending' = sending
        BY <2>6 DEF OrphanAppended, AppendToTopic
      <4> QED
        BY <3>1, <4>1 DEF Late
    <3> QED
      BY <3>2, <3>3, <3>4, <3>5 DEF Inductive, TypeOK
  <2>7. CASE OrphanLost(q)
    <3>1. requests' = requests \ {q}
      BY <2>7 DEF OrphanLost
    <3>2. IsFiniteSet(requests')
      BY <3>1, FS_RemoveElement
    <3>3. UNCHANGED <<running, next>> /\ faults' >= faults /\ faults' \in Nat
      BY <2>7 DEF OrphanLost, AppendToTopic, Fault, Inductive, TypeOK
    <3>4. LivingSentOnce'
      BY <3>1, <3>3 DEF LivingSentOnce
    <3>5. Late' => Late
      <4>1. sending' = sending
        BY <2>7 DEF OrphanLost, AppendToTopic
      <4> QED
        BY <3>1, <4>1 DEF Late
    <3> QED
      BY <3>2, <3>3, <3>4, <3>5 DEF Inductive, TypeOK
  <2> QED
    BY <1>10, <2>1, <2>2, <2>3, <2>4, <2>5, <2>6, <2>7 DEF RequestStep
<1>11. CASE UNCHANGED vars
  BY <1>11 DEF vars, LivingSentOnce, Late
<1> QED
  BY <1>1, <1>2, <1>3, <1>4, <1>5, <1>6, <1>7, <1>8, <1>9, <1>10, <1>11 DEF Next

-----------------------------------------------------------------------------
(* What becomes of the copies of a record.                                 *)

\* A step that makes nothing more of a record.
LEMMA Lighter ==
  ASSUME TypeOK, TypeOK', IsFiniteSet(requests), LateCosts, NEW i,
         Load(i) <= 1 + faults, faults <= faults',
         topic' = topic, OnWire(i)' \subseteq OnWire(i), ToSend(i)' => ToSend(i)
  PROVE  Load(i)' <= 1 + faults'
<1>1. Cardinality(Copies(i)) \in Nat /\ Copies(i)' = Copies(i)
  BY CopiesCounted DEF Copies
<1>2. /\ Cardinality(OnWire(i)) \in Nat /\ Cardinality(OnWire(i)') \in Nat
      /\ Cardinality(OnWire(i)') <= Cardinality(OnWire(i))
  BY WireCounted, FS_Subset, FS_CardinalityType
<1>3. faults \in Nat /\ faults' \in Nat
  BY DEF TypeOK
<1> QED
  BY <1>1, <1>2, <1>3 DEF Load, Once, LateCosts

\* A process that dies, of a fault or of a late report, leaves its records to the
\* next one.
LEMMA DeathCosts ==
  ASSUME TypeOK, TypeOK', IsFiniteSet(requests), LivingSentOnce', Die, NEW i,
         Load(i) <= 1 + faults,
         \/ faults' = faults + 1
         \/ Late /\ faults' = faults
  PROVE  Load(i)' <= 1 + faults'
<1>1. Cardinality(Copies(i)) \in Nat /\ Copies(i)' = Copies(i)
  BY CopiesCounted DEF Copies, Die
<1>2. /\ IsFiniteSet(requests') /\ \A q \in requests' : q.orphan
      /\ Cardinality(OnWire(i)') <= Cardinality(OnWire(i))
  BY DeathOnWire
<1>3. Cardinality(OnWire(i)) \in Nat /\ Cardinality(OnWire(i)') \in Nat
  BY <1>2, WireCounted, FS_Subset, FS_CardinalityType DEF OnWire
<1>4. ~Late'
  BY <1>2 DEF Late
<1>5. faults \in Nat
  BY DEF TypeOK
<1> QED
  BY <1>1, <1>2, <1>3, <1>4, <1>5 DEF Load, Once

\* A record appended is no longer on the wire.
LEMMA AppendMoves ==
  ASSUME TypeOK, TypeOK', IsFiniteSet(requests), LateCosts, NEW i,
         Load(i) <= 1 + faults, NEW q \in requests, AppendToTopic(q),
         OnWire(i)' \subseteq OnWire(i) \ {q}
  PROVE  Load(i)' <= 1 + faults'
<1>1. /\ q.pos \in Nat /\ topic' = Append(topic, q.pos) /\ ~q.written
      /\ UNCHANGED <<running, next, confirmed, sending, faults>>
  BY DEF AppendToTopic, TypeOK, Request, process
<1>2. Cardinality(Copies(i)) \in Nat /\ Cardinality(Copies(i)') \in Nat
  BY <1>1, CopiesCounted, AppendCopies
<1>3. /\ Cardinality(OnWire(i)) \in Nat /\ Cardinality(OnWire(i)') \in Nat
      /\ Cardinality(OnWire(i)') <= Cardinality(OnWire(i))
  BY WireCounted, FS_Subset, FS_CardinalityType
<1>4. Cardinality(Copies(i)') + Cardinality(OnWire(i)')
        <= Cardinality(Copies(i)) + Cardinality(OnWire(i))
  <2>1. CASE i = q.pos
    <3>1. q \in OnWire(i)
      BY <1>1, <2>1 DEF OnWire
    <3>2. /\ IsFiniteSet(OnWire(i) \ {q})
          /\ Cardinality(OnWire(i) \ {q}) = Cardinality(OnWire(i)) - 1
      BY <3>1, WireCounted, FS_RemoveElement
    <3>3. Cardinality(OnWire(i)') <= Cardinality(OnWire(i)) - 1
      BY <3>2, FS_Subset
    <3>4. Cardinality(Copies(i)') <= Cardinality(Copies(i)) + 1
      BY <1>1, AppendCopies
    <3> QED
      BY <1>2, <1>3, <3>3, <3>4
  <2>2. CASE i # q.pos
    <3>1. Copies(i)' = Copies(i)
      BY <1>1, <2>2, AppendCopies
    <3> QED
      BY <1>2, <1>3, <3>1
  <2> QED
    BY <2>1, <2>2
<1>5. (ToSend(i)' <=> ToSend(i)) /\ (Late' => Late) /\ faults \in Nat
  BY <1>1 DEF ToSend, LateCosts, TypeOK
<1> QED
  BY <1>1, <1>2, <1>3, <1>4, <1>5 DEF Load, Once

\* A transaction's records have no copies yet, and nothing on the wire.
LEMMA NewRecords ==
  ASSUME Inductive, IsFiniteSet(requests), NEW i, i \notin Records
  PROVE  Cardinality(Copies(i)) = 0 /\ Cardinality(OnWire(i)) = 0
<1>1. Copies(i) = {} /\ OnWire(i) = {}
  BY DEF Inductive, Positions, Copies, OnWire
<1> QED
  BY <1>1, FS_EmptySet

\* Every step that makes one more copy possible takes another one's place, or is
\* a fault.
LEMMA CoverStep ==
  Inductive /\ Inductive' /\ RepeatsCounted /\ [Next]_vars => FaultsCoverCopies'
<1> SUFFICES ASSUME Inductive, Inductive', RepeatsCounted, [Next]_vars, Decodable', NEW i \in Records'
             PROVE  Load(i)' <= 1 + faults'
  BY DEF FaultsCoverCopies
<1> USE DEF database, process
<1>a. TypeOK /\ TypeOK' /\ Positions /\ Growth
  BY Grows DEF Inductive
<1>b. LivingSentOnce' /\ LateCosts /\ IsFiniteSet(requests) /\ (Late => faults >= 1)
  BY LivingStep DEF LivingFacts, RepeatsCounted
<1>c. /\ Cardinality(Copies(i)) \in Nat /\ Cardinality(OnWire(i)) \in Nat
      /\ IsFiniteSet(OnWire(i))
  BY <1>a, <1>b, CopiesCounted, WireCounted
<1>d. faults \in Nat /\ faults' \in Nat /\ next \in Nat /\ confirmed \in Nat /\ sending \in Nat
  BY <1>a DEF TypeOK
<1>e. DOMAIN wal = 1..Len(wal) /\ Len(wal) \in Nat
  BY <1>a, LenProperties DEF TypeOK
<1>f. Decodable
  <2>1. ASSUME NEW body \in Bodies, CommitTransaction(body)  PROVE Decodable
    <3>1. \A k \in DOMAIN wal : k \in DOMAIN wal' /\ wal'[k] = wal[k]
      <4>1. DOMAIN wal' = 1..Len(wal') /\ Len(wal') \in Nat
        BY <1>a, LenProperties DEF TypeOK
      <4> QED
        BY <1>a, <1>e, <2>1, <4>1, StreamGrows
    <3> QED
      BY <3>1 DEF Decodable
  <2>2. CASE wal' = wal
    BY <2>2 DEF Decodable
  <2>3. (\E body \in Bodies : CommitTransaction(body)) \/ wal' = wal
    BY DEF Next, Start, Kill, Produce, ProduceFails, ReceiveUndecodable, ReceiveCommit,
       SendStandbyUpdate, SendTimesOut, RequestStep, BrokerAppends, AppendToTopic, AckLost,
       DeliverySucceeds, DeliveryFails, LateReport, OrphanAppended, OrphanLost, Die, vars
  <2> QED
    BY <2>1, <2>2, <2>3
<1>g. i \in Records => Load(i) <= 1 + faults
  BY <1>f DEF RepeatsCounted, FaultsCoverCopies
<1>1. ASSUME NEW body \in Bodies, CommitTransaction(body) PROVE Load(i)' <= 1 + faults'
  <2>0. UNCHANGED <<topic, requests, confirmed, process, faults>>
    BY <1>1 DEF CommitTransaction
  <2>1. /\ Copies(i)' = Copies(i) /\ OnWire(i)' = OnWire(i) /\ faults' = faults
        /\ (Late' <=> Late) /\ (ToSend(i)' <=> ToSend(i))
    BY <2>0 DEF Copies, OnWire, Late, ToSend
  <2>2. CASE i \in Records
    BY <1>c, <1>d, <1>g, <2>1, <2>2 DEF Load, Once
  <2>3. CASE i \notin Records
    <3>1. Cardinality(Copies(i)) = 0 /\ Cardinality(OnWire(i)) = 0
      BY <1>b, <2>3, NewRecords
    <3> QED
      BY <1>b, <1>d, <2>1, <3>1 DEF Load, Once
  <2> QED
    BY <2>2, <2>3
<1>2. CASE Start
  <2>1. UNCHANGED <<topic, requests, faults>> /\ Records' = Records
    BY <1>a, <1>2, RecordsAtStart DEF Start
  <2>2. slot /\ i \in Records /\ OnWire(i)' = OnWire(i)
    BY <2>1 DEF Records, OnWire
  <2>3. i \in Nat
    BY <1>e, <2>2 DEF Records
  <2>4. ToSend(i)' => ToSend(i)
    BY <1>d, <1>2, <2>2, <2>3 DEF Start, ToSend
  <2> QED
    BY <1>a, <1>b, <1>d, <1>g, <2>1, <2>2, <2>4, Lighter
<1>3. CASE Kill
  <2>1. Die /\ faults' = faults + 1 /\ i \in Records
    BY <1>3, RecordsStay DEF Kill, Fault, Die
  <2> QED
    BY <1>a, <1>b, <1>g, <2>1, DeathCosts
<1>4. CASE Produce
  <2>1. PICK n \in 1..MaxRequests : requests' = requests \cup {NewRequest(n)}
    BY <1>4 DEF Produce, Enqueue
  <2> DEFINE new == NewRequest(n)
  <2>2. new.pos = next /\ ~new.written /\ requests' = requests \cup {new}
    BY <2>1 DEF NewRequest
  <2> HIDE DEF new
  <2>3. /\ UNCHANGED <<database, topic, faults>> /\ running /\ running' /\ next' = next + 1
    BY <1>4 DEF Produce, Receiving
  <2>4. i \in Records /\ i \in Nat /\ Copies(i)' = Copies(i)
    BY <1>e, <2>3, RecordsStay DEF Records, Copies
  <2>5. Late' => Late
    BY <1>b, <1>d, <2>3 DEF LateCosts
  <2>6. CASE i = next
    <3>1. OnWire(i)' \subseteq OnWire(i) \cup {new}
      BY <2>2 DEF OnWire
    <3>2. Cardinality(OnWire(i)') <= Cardinality(OnWire(i)) + 1 /\ Cardinality(OnWire(i)') \in Nat
      BY <1>c, <3>1, OneMore, FS_CardinalityType
    <3>3. ToSend(i) /\ ~ToSend(i)'
      BY <1>d, <2>3, <2>6 DEF ToSend
    <3> QED
      BY <1>c, <1>d, <1>g, <2>3, <2>4, <2>5, <3>2, <3>3 DEF Load, Once
  <2>7. CASE i # next
    <3>1. OnWire(i)' = OnWire(i)
      BY <2>2, <2>7 DEF OnWire
    <3>2. ToSend(i)' => ToSend(i)
      BY <1>d, <2>3, <2>4 DEF ToSend
    <3> QED
      BY <1>a, <1>b, <1>d, <1>g, <2>3, <2>4, <3>1, <3>2, Lighter
  <2> QED
    BY <2>6, <2>7
<1>5. CASE ProduceFails
  <2>1. UNCHANGED <<database, topic, requests>> /\ faults <= faults'
    BY <1>d, <1>5 DEF ProduceFails, Receiving, Fault
  <2>2. i \in Records /\ OnWire(i)' = OnWire(i)
    BY <2>1, RecordsStay DEF OnWire
  <2>3. i \in Nat
    BY <1>e, <2>2 DEF Records
  <2>4. ToSend(i)' => ToSend(i)
    BY <1>d, <2>3, <1>5 DEF ProduceFails, Receiving, Fault, ToSend
  <2> QED
    BY <1>a, <1>b, <1>g, <2>1, <2>2, <2>4, Lighter
<1>6. CASE ReceiveUndecodable
  <2>1. next \in DOMAIN wal
    BY <1>a, <1>d, <1>e, <1>6 DEF ReceiveUndecodable, Receiving, Positions, TypeOK
  <2> QED
    BY <1>f, <2>1, <1>6 DEF Decodable, ReceiveUndecodable, Receiving
<1>7. CASE ReceiveCommit
  <2>1. UNCHANGED <<database, topic, requests>> /\ faults <= faults'
    BY <1>d, <1>7 DEF ReceiveCommit, Receiving
  <2>2. i \in Records /\ OnWire(i)' = OnWire(i)
    BY <2>1, RecordsStay DEF OnWire
  <2>3. i \in Nat
    BY <1>e, <2>2 DEF Records
  <2>4. ToSend(i)' => ToSend(i)
    BY <1>d, <2>3, <1>7 DEF ReceiveCommit, Receiving, ToSend
  <2> QED
    BY <1>a, <1>b, <1>g, <2>1, <2>2, <2>4, Lighter
<1>8. CASE SendStandbyUpdate
  <2>1. UNCHANGED <<database, topic, requests>> /\ faults <= faults'
    BY <1>d, <1>8 DEF SendStandbyUpdate
  <2>2. i \in Records /\ OnWire(i)' = OnWire(i)
    BY <2>1, RecordsStay DEF OnWire
  <2>3. ToSend(i)' => ToSend(i)
    BY <1>d, <1>8 DEF SendStandbyUpdate, ToSend
  <2> QED
    BY <1>a, <1>b, <1>g, <2>1, <2>2, <2>3, Lighter
<1>9. CASE SendTimesOut
  <2>1. UNCHANGED <<database, topic, requests>> /\ faults <= faults'
    BY <1>d, <1>9 DEF SendTimesOut, Fault
  <2>2. i \in Records /\ OnWire(i)' = OnWire(i)
    BY <2>1, RecordsStay DEF OnWire
  <2>3. ToSend(i)' => ToSend(i)
    BY <1>d, <1>9 DEF SendTimesOut, Fault, ToSend
  <2> QED
    BY <1>a, <1>b, <1>g, <2>1, <2>2, <2>3, Lighter
<1>10. ASSUME NEW q \in requests, RequestStep(q) PROVE Load(i)' <= 1 + faults'
  <2>1. CASE BrokerAppends(q)
    <3> DEFINE new == [id |-> q.id, pos |-> q.pos, written |-> TRUE, orphan |-> FALSE]
    <3>1. requests' = (requests \ {q}) \cup {new} /\ new.written = TRUE
      BY <2>1 DEF BrokerAppends, Written
    <3> HIDE DEF new
    <3>2. AppendToTopic(q) /\ i \in Records
      BY <2>1, RecordsStay DEF BrokerAppends, AppendToTopic
    <3>3. OnWire(i)' \subseteq OnWire(i) \ {q}
      BY <3>1 DEF OnWire
    <3> QED
      BY <1>a, <1>b, <1>g, <3>2, <3>3, AppendMoves
  <2>2. CASE AckLost(q)
    <3> DEFINE new == [id |-> q.id, pos |-> q.pos, written |-> FALSE, orphan |-> FALSE]
    <3>1. requests' = (requests \ {q}) \cup {new} /\ new.written = FALSE
      BY <2>2 DEF AckLost, Written
    <3> HIDE DEF new
    <3>2. /\ UNCHANGED <<database, topic, confirmed, running, next, sending>>
          /\ faults' = faults + 1
      BY <2>2 DEF AckLost, Fault
    <3>3. /\ i \in Records /\ Copies(i)' = Copies(i)
          /\ (ToSend(i)' => ToSend(i)) /\ (Late' => Late)
      BY <1>b, <3>2, RecordsStay DEF Copies, ToSend, LateCosts
    <3>4. OnWire(i)' \subseteq OnWire(i) \cup {new}
      BY <3>1 DEF OnWire
    <3>5. Cardinality(OnWire(i)') <= Cardinality(OnWire(i)) + 1 /\ Cardinality(OnWire(i)') \in Nat
      BY <1>c, <3>4, OneMore, FS_CardinalityType
    <3> QED
      BY <1>c, <1>d, <1>g, <3>2, <3>3, <3>5 DEF Load, Once
  <2>3. CASE DeliverySucceeds(q)
    <3>1. /\ UNCHANGED <<database, topic, confirmed, running, next>> /\ requests' = requests \ {q}
          /\ faults <= faults'
      BY <1>d, <2>3 DEF DeliverySucceeds
    <3>2. i \in Records /\ OnWire(i)' \subseteq OnWire(i) /\ (ToSend(i)' => ToSend(i))
      BY <3>1, RecordsStay DEF OnWire, ToSend
    <3> QED
      BY <1>a, <1>b, <1>g, <3>1, <3>2, Lighter
  <2>4. CASE DeliveryFails(q)
    <3>1. /\ UNCHANGED <<database, topic, confirmed, running, next>> /\ requests' = requests \ {q}
          /\ faults <= faults'
      BY <1>d, <2>4 DEF DeliveryFails, Fault
    <3>2. i \in Records /\ OnWire(i)' \subseteq OnWire(i) /\ (ToSend(i)' => ToSend(i))
      BY <3>1, RecordsStay DEF OnWire, ToSend
    <3> QED
      BY <1>a, <1>b, <1>g, <3>1, <3>2, Lighter
  <2>5. CASE LateReport(q)
    <3>1. Die /\ Late /\ faults' = faults /\ i \in Records
      BY <2>5, RecordsStay DEF LateReport, Late, Die
    <3> QED
      BY <1>a, <1>b, <1>g, <3>1, DeathCosts
  <2>6. CASE OrphanAppended(q)
    <3>1. AppendToTopic(q) /\ requests' = requests \ {q} /\ i \in Records
      BY <2>6, RecordsStay DEF OrphanAppended, AppendToTopic
    <3>2. OnWire(i)' \subseteq OnWire(i) \ {q}
      BY <3>1 DEF OnWire
    <3> QED
      BY <1>a, <1>b, <1>g, <3>1, <3>2, AppendMoves
  <2>7. CASE OrphanLost(q)
    <3>1. /\ UNCHANGED <<database, topic, confirmed, running, next>> /\ requests' = requests \ {q}
          /\ faults <= faults'
      BY <1>d, <2>7 DEF OrphanLost
    <3>2. i \in Records /\ OnWire(i)' \subseteq OnWire(i) /\ (ToSend(i)' => ToSend(i))
      BY <3>1, RecordsStay DEF OnWire, ToSend
    <3> QED
      BY <1>a, <1>b, <1>g, <3>1, <3>2, Lighter
  <2> QED
    BY <1>10, <2>1, <2>2, <2>3, <2>4, <2>5, <2>6, <2>7 DEF RequestStep
<1>11. CASE UNCHANGED vars
  <2>1. UNCHANGED <<database, topic, requests, confirmed, process, faults>>
    BY <1>11 DEF vars
  <2>2. i \in Records /\ OnWire(i)' = OnWire(i) /\ (ToSend(i)' => ToSend(i))
    BY <2>1, RecordsStay DEF OnWire, ToSend
  <2> QED
    BY <1>a, <1>b, <1>d, <1>g, <2>1, <2>2, Lighter
<1> QED
  BY <1>1, <1>2, <1>3, <1>4, <1>5, <1>6, <1>7, <1>8, <1>9, <1>10, <1>11 DEF Next

-----------------------------------------------------------------------------
(* The theorems.                                                           *)

\* Every copy of a record, made or still to come, but one, has its fault.
THEOREM AlwaysCounted == Spec => []RepeatsCounted
<1>1. Init => RepeatsCounted
  <2> SUFFICES ASSUME Init PROVE RepeatsCounted
    OBVIOUS
  <2>1. requests = {} /\ Records = {}
    BY DEF Init, Records
  <2>2. IsFiniteSet(requests)
    BY <2>1, FS_EmptySet
  <2> QED
    BY <2>1, <2>2 DEF RepeatsCounted, LivingSentOnce, Late, FaultsCoverCopies
<1>2. Inductive /\ Inductive' /\ RepeatsCounted /\ [Next]_vars => RepeatsCounted'
  BY LivingStep, CoverStep DEF RepeatsCounted, LivingFacts
<1> QED
  BY <1>1, <1>2, AlwaysInductive, PTL DEF Spec

\* A record is in the topic once, and once more for each fault at most: whatever
\* kills the relay, is lost or comes too late.
THEOREM RepeatsAreCaused == Spec => []RepeatsHaveACause
<1>1. TypeOK /\ RepeatsCounted => RepeatsHaveACause
  <2> SUFFICES ASSUME TypeOK, RepeatsCounted, Decodable, NEW i \in Records
               PROVE  Cardinality(Copies(i)) <= 1 + faults
    BY DEF RepeatsHaveACause, Copies
  <2>1. Load(i) <= 1 + faults /\ faults \in Nat
    BY DEF RepeatsCounted, FaultsCoverCopies, TypeOK
  <2>2. Cardinality(Copies(i)) \in Nat /\ Cardinality(OnWire(i)) \in Nat
    BY CopiesCounted, WireCounted DEF RepeatsCounted
  <2> QED
    BY <2>1, <2>2 DEF Load, Once
<1> QED
  BY <1>1, AlwaysTyped, AlwaysCounted, PTL

=============================================================================
