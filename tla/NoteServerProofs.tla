--------------------------- MODULE NoteServerProofs ---------------------------
(***************************************************************************)
(* Nobody who has joined a note misses a recorded update, and connected    *)
(* browsers whose questions are remembered agree at rest, for any number   *)
(* of browsers, sessions, edits and faults and any limit of the log: IInv, *)
(* and beside it Convergent of NoteAgreement, are inductive.               *)
(***************************************************************************)
EXTENDS NoteAgreement, SequenceTheorems, TLAPS

\* A session is in NOTE_SESSIONS before its onOpen replays the log, and stays
\* there while it is open.
Joined ==
  \A s \in Sessions : IsOpen(s) =>
    /\ pc[s] \in {"opening", "replaying", "idle", "saving", "sending"}
    /\ pc[s] # "opening" => s \in sessions

HandlesMessage ==
  \A s \in Sessions :
    handling[s] \in IF pc[s] \in {"saving", "sending"} THEN Message ELSE {NoMessage}

\* What a browser has sent over an open connection it holds itself.
SentIsHeld ==
  \A s \in Sessions : IsOpen(s) =>
    Contents(toServer[s]) \cup Told(handling[s]) \subseteq doc[Owner[s]]

ConnectsOwn ==
  \A c \in Clients : connection[c] # NoSession => Owner[connection[c]] = c

IInv ==
  /\ TypeOK /\ Joined /\ HandlesMessage /\ SentIsHeld /\ ConnectsOwn
  /\ ReachesEveryone

-----------------------------------------------------------------------------
(* What is told in a queue.                                                *)

LEMMA ContentsIsTold ==
  ASSUME NEW q \in Seq(Message), NEW x
  PROVE  x \in Contents(q) <=> \E n \in 1..Len(q) : x \in Told(q[n])
<1>1. DOMAIN q = 1..Len(q)
  BY LenProperties
<1> QED BY <1>1 DEF Contents, Told

LEMMA ContentsOfNothing == Contents(<< >>) = {}
BY DEF Contents

LEMMA ContentsOfConcat ==
  ASSUME NEW q \in Seq(Message), NEW r \in Seq(Message)
  PROVE  q \o r \in Seq(Message) /\ Contents(q \o r) = Contents(q) \cup Contents(r)
<1>1. /\ q \o r \in Seq(Message) /\ Len(q \o r) = Len(q) + Len(r)
      /\ \A i \in 1..(Len(q) + Len(r)) :
           (q \o r)[i] = IF i <= Len(q) THEN q[i] ELSE r[i - Len(q)]
  BY ConcatProperties
<1>2. Len(q) \in Nat /\ Len(r) \in Nat
  BY LenProperties
<1>3. ASSUME NEW x \in Contents(q \o r)
      PROVE  x \in Contents(q) \cup Contents(r)
  <2>1. PICK i \in 1..(Len(q) + Len(r)) : x \in Told((q \o r)[i])
    BY <1>1, ContentsIsTold
  <2>2. CASE i <= Len(q)
    BY <1>1, <1>2, <2>1, <2>2, ContentsIsTold
  <2>3. CASE ~(i <= Len(q))
    <3>1. i - Len(q) \in 1..Len(r) /\ (q \o r)[i] = r[i - Len(q)]
      BY <1>1, <1>2, <2>3
    <3> QED BY <2>1, <3>1, ContentsIsTold
  <2> QED BY <2>2, <2>3
<1>4. ASSUME NEW x \in Contents(q)
      PROVE  x \in Contents(q \o r)
  <2>1. PICK i \in 1..Len(q) : x \in Told(q[i])
    BY ContentsIsTold
  <2>2. i \in 1..(Len(q) + Len(r)) /\ (q \o r)[i] = q[i]
    BY <1>1, <1>2
  <2> QED BY <1>1, <2>1, <2>2, ContentsIsTold
<1>5. ASSUME NEW x \in Contents(r)
      PROVE  x \in Contents(q \o r)
  <2>1. PICK i \in 1..Len(r) : x \in Told(r[i])
    BY ContentsIsTold
  <2>2. Len(q) + i \in 1..(Len(q) + Len(r)) /\ (q \o r)[Len(q) + i] = r[i]
    BY <1>1, <1>2
  <2> QED BY <1>1, <2>1, <2>2, ContentsIsTold
<1> QED BY <1>1, <1>3, <1>4, <1>5

LEMMA ContentsOfOne ==
  ASSUME NEW m \in Message
  PROVE  << m >> \in Seq(Message) /\ Contents(<< m >>) = Told(m)
<1>1. << m >> \in Seq(Message) /\ Len(<< m >>) = 1 /\ << m >>[1] = m
  OBVIOUS
<1>2. ASSUME NEW x
      PROVE  x \in Contents(<< m >>) <=> x \in Told(m)
  <2>1. x \in Contents(<< m >>) <=> \E n \in 1..Len(<< m >>) : x \in Told(<< m >>[n])
    BY <1>1, ContentsIsTold
  <2>2. 1..Len(<< m >>) = {1}
    BY <1>1
  <2> QED BY <1>1, <2>1, <2>2, Zenon
<1> QED BY <1>1, <1>2

LEMMA ContentsOfAppend ==
  ASSUME NEW q \in Seq(Message), NEW m \in Message
  PROVE  Append(q, m) \in Seq(Message) /\ Contents(Append(q, m)) = Contents(q) \cup Told(m)
<1>1. Append(q, m) = q \o << m >>
  BY AppendIsConcat
<1> QED BY <1>1, ContentsOfConcat, ContentsOfOne

LEMMA ContentsOfTail ==
  ASSUME NEW q \in Seq(Message), q # << >>
  PROVE  /\ Head(q) \in Message /\ Tail(q) \in Seq(Message)
         /\ Contents(q) = Contents(Tail(q)) \cup Told(Head(q))
<1>1. Head(q) \in Message /\ Tail(q) \in Seq(Message) /\ Len(q) \in Nat \ {0}
  BY HeadTailProperties, EmptySeq
<1>2. q = << Head(q) >> \o Tail(q)
  <2>1. SubSeq(q, 1, Len(q)) = << q[1] >> \o SubSeq(q, 1 + 1, Len(q))
    BY <1>1, SubSeqRecursiveFirst
  <2>2. SubSeq(q, 1, Len(q)) = q /\ Tail(q) = SubSeq(q, 2, Len(q))
    BY SubSeqFull, TailIsSubSeq
  <2>3. Head(q) = q[1]
    BY <1>1
  <2>4. 1 + 1 = 2
    OBVIOUS
  <2> QED BY <2>1, <2>2, <2>3, <2>4, Zenon
<1>3. << Head(q) >> \in Seq(Message) /\ Contents(<< Head(q) >>) = Told(Head(q))
  BY <1>1, ContentsOfOne
<1>4. Contents(<< Head(q) >> \o Tail(q)) = Contents(<< Head(q) >>) \cup Contents(Tail(q))
  BY <1>1, <1>3, ContentsOfConcat
<1>5. Contents(q) = Contents(<< Head(q) >> \o Tail(q))
  BY <1>2, Zenon
<1> HIDE <1>2
<1> QED BY <1>1, <1>3, <1>4, <1>5

LEMMA ContentsOfSubSeq ==
  ASSUME NEW q \in Seq(Message), NEW a \in 1..(Len(q) + 1)
  PROVE  /\ SubSeq(q, a, Len(q)) \in Seq(Message)
         /\ Len(SubSeq(q, a, Len(q))) = Len(q) - a + 1
         /\ Contents(SubSeq(q, a, Len(q))) \subseteq Contents(q)
<1>1. Len(q) \in Nat /\ \A i \in 1..Len(q) : q[i] \in Message
  BY LenProperties, ElementOfSeq
<1>2. \A i \in a..Len(q) : q[i] \in Message
  BY <1>1
<1>3. /\ SubSeq(q, a, Len(q)) \in Seq(Message)
      /\ Len(SubSeq(q, a, Len(q))) = IF a <= Len(q) THEN Len(q) - a + 1 ELSE 0
      /\ \A i \in 1..(Len(q) - a + 1) : SubSeq(q, a, Len(q))[i] = q[a + i - 1]
  BY <1>1, <1>2, SubSeqProperties
<1>4. Len(SubSeq(q, a, Len(q))) = Len(q) - a + 1
  BY <1>1, <1>3
<1>5. ASSUME NEW x \in Contents(SubSeq(q, a, Len(q)))
      PROVE  x \in Contents(q)
  <2>1. PICK i \in 1..(Len(q) - a + 1) : x \in Told(SubSeq(q, a, Len(q))[i])
    BY <1>3, <1>4, ContentsIsTold
  <2>2. a + i - 1 \in 1..Len(q) /\ SubSeq(q, a, Len(q))[i] = q[a + i - 1]
    BY <1>1, <1>3
  <2> QED BY <2>1, <2>2, ContentsIsTold
<1> QED BY <1>3, <1>4, <1>5

LEMMA RetainedKeepsLimit ==
  ASSUME NEW log \in Seq(Message)
  PROVE  /\ Retained(log) \in Seq(Message) /\ Len(Retained(log)) <= MaxStoredUpdates
         /\ Contents(Retained(log)) \subseteq Contents(log)
<1>1. Len(log) \in Nat /\ MaxStoredUpdates \in Nat
  BY LenProperties, BoundsAssumption
<1>2. CASE Len(log) <= MaxStoredUpdates
  BY <1>2 DEF Retained
<1>3. CASE ~(Len(log) <= MaxStoredUpdates)
  <2>1. Len(log) - MaxStoredUpdates + 1 \in 1..(Len(log) + 1)
    BY <1>1, <1>3
  <2>2. Retained(log) = SubSeq(log, Len(log) - MaxStoredUpdates + 1, Len(log))
    BY <1>3 DEF Retained
  <2> QED BY <1>1, <2>1, <2>2, ContentsOfSubSeq
<1> QED BY <1>2, <1>3

-----------------------------------------------------------------------------
(* What an update is, and who is about to send one.                        *)

LEMMA AboutToSendIsTold ==
  ASSUME NEW x
  PROVE  /\ x \in AboutToSend <=> \E s \in Sessions : pc[s] = "sending" /\ x \in Told(handling[s])
         /\ x \in AboutToSend' <=> \E s \in Sessions : pc'[s] = "sending" /\ x \in Told(handling'[s])
BY DEF AboutToSend, Told

LEMMA Updates ==
  ASSUME NEW c \in Clients, NEW n \in 1..MaxEdits[c]
  PROVE  <<c, n>> \in Update
BY DEF Update

LEMMA Messages ==
  ASSUME NEW s \in Sessions, NEW content \in SUBSET Update
  PROVE  /\ Ask(s, content) \in Message /\ Told(Ask(s, content)) = {}
         /\ Tell(s, content) \in Message /\ Told(Tell(s, content)) = content
BY DEF Ask, Tell, Message, Told

LEMMA ToldIsUpdates ==
  ASSUME NEW m \in Message
  PROVE  Told(m) \in SUBSET Update
BY DEF Message, Told

LEMMA NothingTold == Told(NoMessage) = {}
BY DEF NoMessage, Told

\* Steps after which nobody is owed more than before.
LEMMA KeepsReaching ==
  ASSUME IInv,
         Contents(updates') \subseteq Contents(updates),
         AboutToSend \subseteq AboutToSend',
         \A s \in Sessions : IsOpen(s)' /\ pc'[s] \notin {"opening", "replaying"} =>
           /\ IsOpen(s) /\ pc[s] \notin {"opening", "replaying"}
           /\ doc[Owner[s]] \subseteq doc'[Owner[s]]
           /\ Contents(toClient[s]) \subseteq doc'[Owner[s]] \cup Contents(toClient'[s])
  PROVE  ReachesEveryone'
<1> SUFFICES ASSUME NEW s \in Sessions, IsOpen(s)', pc'[s] \notin {"opening", "replaying"}
             PROVE  Contents(updates') \subseteq
                      doc'[Owner[s]] \cup Contents(toClient'[s]) \cup AboutToSend'
  BY DEF ReachesEveryone, Contents
<1>1. Contents(updates) \subseteq doc[Owner[s]] \cup Contents(toClient[s]) \cup AboutToSend
  BY DEF IInv, ReachesEveryone
<1> QED BY <1>1

LEMMA Typed ==
  ASSUME IInv, NEW s \in Sessions
  PROVE  /\ Owner[s] \in Clients /\ doc[Owner[s]] \in SUBSET Update
         /\ toServer[s] \in Seq(Message) /\ toClient[s] \in Seq(Message)
         /\ handling[s] \in Message \cup {NoMessage} /\ pc[s] \in Steps
         /\ updates \in Seq(Message)
BY OwnerAssumption DEF IInv, TypeOK

-----------------------------------------------------------------------------
(* The browser.                                                            *)

LEMMA ConnectIsGood ==
  ASSUME IInv, NEW s \in Sessions, Connect(s)
  PROVE  IInv'
<1> DEFINE c == Owner[s]
           asked == <<Ask(s, doc[c])>>
<1>1. /\ pc[s] = "unused" /\ connection[c] = NoSession
      /\ connection' = [connection EXCEPT ![c] = s]
      /\ pc' = [pc EXCEPT ![s] = "opening"]
      /\ toServer' = [toServer EXCEPT ![s] = asked]
      /\ UNCHANGED <<doc, edits, toClient, handling, holding, sessions, updates, faults>>
  BY DEF Connect, maps
<1>2. c \in Clients /\ doc[c] \in SUBSET Update /\ handling[s] \in Message \cup {NoMessage}
  BY Typed
<1>3. asked \in Seq(Message) /\ Contents(asked) = {}
  BY <1>2, Messages, ContentsOfOne
<1> HIDE DEF asked
<1>4. TypeOK'
  BY <1>1, <1>2, <1>3 DEF IInv, TypeOK, Steps
<1>5. /\ pc'[s] = "opening" /\ \A t \in Sessions \ {s} : pc'[t] = pc[t] /\ toServer'[t] = toServer[t]
      /\ toServer'[s] = asked
      /\ \A t \in Sessions \ {s} : IsOpen(t)' => IsOpen(t)
  BY <1>1, <1>2, OwnerAssumption DEF IInv, TypeOK, IsOpen
<1>6. Joined'
  BY <1>1, <1>5 DEF IInv, Joined
<1>7. HandlesMessage'
  BY <1>1, <1>5 DEF IInv, HandlesMessage
<1>8. SentIsHeld'
  <2> SUFFICES ASSUME NEW t \in Sessions, IsOpen(t)'
               PROVE  Contents(toServer'[t]) \cup Told(handling'[t]) \subseteq doc'[Owner[t]]
    BY DEF SentIsHeld, Contents, Told
  <2>1. CASE t = s
    BY <1>1, <1>3, <1>5, <2>1, NothingTold DEF IInv, HandlesMessage
  <2>2. CASE t # s
    BY <1>1, <1>5, <2>2 DEF IInv, SentIsHeld
  <2> QED BY <2>1, <2>2
<1>9. AboutToSend \subseteq AboutToSend'
  BY <1>1, <1>5, AboutToSendIsTold
<1>10. ReachesEveryone'
  <2>1. \A t \in Sessions : IsOpen(t)' /\ pc'[t] \notin {"opening", "replaying"} =>
          IsOpen(t) /\ pc[t] \notin {"opening", "replaying"}
    BY <1>5
  <2> QED BY <1>1, <1>9, <2>1, KeepsReaching
<1>11. ConnectsOwn'
  BY <1>1, <1>2 DEF IInv, ConnectsOwn, TypeOK
<1> QED BY <1>4, <1>6, <1>7, <1>8, <1>10, <1>11 DEF IInv

LEMMA EditIsGood ==
  ASSUME IInv, NEW c \in Clients, Edit(c)
  PROVE  IInv'
<1> DEFINE new == {<<c, edits[c] + 1>>}
           s == connection[c]
<1>1. /\ edits[c] < MaxEdits[c]
      /\ edits' = [edits EXCEPT ![c] = @ + 1]
      /\ doc' = [doc EXCEPT ![c] = @ \cup new]
      /\ toServer' = IF s = NoSession THEN toServer
                     ELSE [toServer EXCEPT ![s] = Append(@, Tell(s, new))]
      /\ UNCHANGED <<connection, toClient, pc, handling, holding, sessions, updates, faults>>
  BY DEF Edit, maps
<1>2. edits[c] \in 0..MaxEdits[c] /\ MaxEdits[c] \in Nat
  BY BoundsAssumption DEF IInv, TypeOK
<1>3. new \in SUBSET Update
  <2>1. edits[c] + 1 \in 1..MaxEdits[c]
    BY <1>1, <1>2
  <2> QED BY <2>1, Updates
<1>4. s \in Sessions \cup {NoSession}
  BY DEF IInv, TypeOK
<1> HIDE DEF new
<1>5. doc' \in [Clients -> SUBSET Update] /\ \A d \in Clients : doc[d] \subseteq doc'[d]
  BY <1>1, <1>3 DEF IInv, TypeOK
<1>6. ASSUME s # NoSession
      PROVE  /\ s \in Sessions
             /\ toServer'[s] \in Seq(Message)
             /\ Contents(toServer'[s]) = Contents(toServer[s]) \cup new
  <2>1. s \in Sessions /\ toServer[s] \in Seq(Message)
    BY <1>4, <1>6 DEF IInv, TypeOK
  <2>2. toServer'[s] = Append(toServer[s], Tell(s, new))
    BY <1>1, <1>6, <2>1 DEF IInv, TypeOK
  <2>3. Tell(s, new) \in Message /\ Told(Tell(s, new)) = new
    BY <1>3, <2>1, Messages
  <2> QED BY <2>1, <2>2, <2>3, ContentsOfAppend
<1>7. \A t \in Sessions : t # s => toServer'[t] = toServer[t]
  BY <1>1, <1>4 DEF IInv, TypeOK
<1>8. toServer' \in [Sessions -> Seq(Message)]
  <2>1. DOMAIN toServer' = Sessions /\ toServer' = [t \in Sessions |-> toServer'[t]]
    BY <1>1 DEF IInv, TypeOK
  <2>2. \A t \in Sessions : toServer'[t] \in Seq(Message)
    BY <1>6, <1>7, OwnerAssumption DEF IInv, TypeOK
  <2> QED BY <2>1, <2>2
<1>9. TypeOK'
  <2>1. \A d \in Clients : edits'[d] \in 0..MaxEdits[d]
    <3> TAKE d \in Clients
    <3>1. CASE d = c /\ c \in DOMAIN edits
      BY <1>1, <1>2, <3>1
    <3>2. CASE ~(d = c /\ c \in DOMAIN edits)
      BY <1>1, <3>2 DEF IInv, TypeOK
    <3> QED BY <3>1, <3>2
  <2> QED BY <1>1, <1>5, <1>8, <2>1 DEF IInv, TypeOK
<1>10. Joined' /\ HandlesMessage' /\ ConnectsOwn'
  BY <1>1 DEF IInv, Joined, HandlesMessage, ConnectsOwn, IsOpen
<1>11. SentIsHeld'
  <2> SUFFICES ASSUME NEW t \in Sessions, IsOpen(t)'
               PROVE  Contents(toServer'[t]) \cup Told(handling'[t]) \subseteq doc'[Owner[t]]
    BY DEF SentIsHeld, Contents, Told
  <2>1. /\ Contents(toServer[t]) \cup Told(handling[t]) \subseteq doc[Owner[t]]
        /\ Owner[t] \in Clients /\ connection[Owner[t]] = t
    BY <1>1, OwnerAssumption DEF IInv, SentIsHeld, IsOpen
  <2>2. Contents(toServer'[t]) \subseteq doc'[Owner[t]]
    <3>1. CASE t = s
      <4>1. Contents(toServer'[t]) = Contents(toServer[t]) \cup new
        BY <1>6, <3>1, OwnerAssumption
      <4>2. doc'[c] = doc[c] \cup new /\ Owner[t] = c
        BY <1>1, <3>1, OwnerAssumption DEF IInv, TypeOK, ConnectsOwn
      <4> QED BY <1>5, <2>1, <3>1, <4>1, <4>2
    <3>2. CASE t # s
      BY <1>5, <1>7, <2>1, <3>2
    <3> QED BY <3>1, <3>2
  <2> QED BY <1>1, <1>5, <2>1, <2>2
<1>12. ReachesEveryone'
  <2>1. AboutToSend \subseteq AboutToSend'
    BY <1>1, AboutToSendIsTold
  <2>2. \A t \in Sessions : IsOpen(t)' => IsOpen(t)
    BY <1>1 DEF IsOpen
  <2> QED BY <1>1, <1>5, <2>1, <2>2, OwnerAssumption, KeepsReaching
<1> QED BY <1>9, <1>10, <1>11, <1>12 DEF IInv

LEMMA ReceiveIsGood ==
  ASSUME IInv, NEW s \in Sessions, Receive(s)
  PROVE  IInv'
<1> DEFINE c == Owner[s]
           m == Head(toClient[s])
           missing == doc[c] \ m.content
<1>1. /\ IsOpen(s) /\ toClient[s] # << >>
      /\ toClient' = [toClient EXCEPT ![s] = Tail(@)]
      /\ doc' = [doc EXCEPT ![c] = IF m.kind = "tell" THEN @ \cup m.content ELSE @]
      /\ toServer' = IF m.kind = "ask" /\ missing # {}
                     THEN [toServer EXCEPT ![s] = Append(@, Tell(s, missing))]
                     ELSE toServer
      /\ UNCHANGED <<edits, connection, pc, handling, holding, sessions, updates, faults>>
  BY DEF Receive, maps
<1>2. /\ c \in Clients /\ doc[c] \in SUBSET Update
      /\ toClient[s] \in Seq(Message) /\ toServer[s] \in Seq(Message)
  BY Typed
<1>3. /\ m \in Message /\ Tail(toClient[s]) \in Seq(Message)
      /\ Contents(toClient[s]) = Contents(Tail(toClient[s])) \cup Told(m)
  BY <1>1, <1>2, ContentsOfTail
<1>4. Told(m) \in SUBSET Update
  BY <1>3, ToldIsUpdates
<1>5. missing \in SUBSET Update /\ missing \subseteq doc[c]
  BY <1>2
<1> HIDE DEF m, missing
<1>6. /\ doc'[c] = doc[c] \cup Told(m) /\ doc' \in [Clients -> SUBSET Update]
      /\ \A d \in Clients : doc[d] \subseteq doc'[d]
  <2>1. CASE m.kind = "tell"
    BY <1>1, <1>2, <1>4, <2>1 DEF IInv, TypeOK, Told
  <2>2. CASE m.kind # "tell"
    BY <1>1, <1>2, <2>2 DEF IInv, TypeOK, Told
  <2> QED BY <2>1, <2>2
<1>7. /\ toClient' \in [Sessions -> Seq(Message)]
      /\ toClient'[s] = Tail(toClient[s])
      /\ \A t \in Sessions \ {s} : toClient'[t] = toClient[t]
  BY <1>1, <1>3 DEF IInv, TypeOK
<1>8. /\ toServer' \in [Sessions -> Seq(Message)]
      /\ Contents(toServer'[s]) \subseteq Contents(toServer[s]) \cup doc[c]
      /\ \A t \in Sessions \ {s} : toServer'[t] = toServer[t]
  <2>1. CASE m.kind = "ask" /\ missing # {}
    <3>1. Tell(s, missing) \in Message /\ Told(Tell(s, missing)) = missing
      BY <1>5, Messages
    <3>2. /\ Append(toServer[s], Tell(s, missing)) \in Seq(Message)
          /\ Contents(Append(toServer[s], Tell(s, missing))) = Contents(toServer[s]) \cup missing
      BY <1>2, <3>1, ContentsOfAppend
    <3> QED BY <1>1, <1>5, <2>1, <3>2 DEF IInv, TypeOK
  <2>2. CASE ~(m.kind = "ask" /\ missing # {})
    BY <1>1, <2>2 DEF IInv, TypeOK
  <2> QED BY <2>1, <2>2
<1>9. TypeOK'
  BY <1>1, <1>6, <1>7, <1>8 DEF IInv, TypeOK
<1>10. Joined' /\ HandlesMessage' /\ ConnectsOwn'
  BY <1>1 DEF IInv, Joined, HandlesMessage, ConnectsOwn, IsOpen
<1>11. SentIsHeld'
  <2> SUFFICES ASSUME NEW t \in Sessions, IsOpen(t)'
               PROVE  Contents(toServer'[t]) \cup Told(handling'[t]) \subseteq doc'[Owner[t]]
    BY DEF SentIsHeld, Contents, Told
  <2>1. /\ Contents(toServer[t]) \cup Told(handling[t]) \subseteq doc[Owner[t]]
        /\ Owner[t] \in Clients
    BY <1>1, OwnerAssumption DEF IInv, SentIsHeld, IsOpen
  <2> QED BY <1>1, <1>6, <1>8, <2>1
<1>12. ReachesEveryone'
  <2>1. AboutToSend \subseteq AboutToSend'
    BY <1>1, AboutToSendIsTold
  <2>2. \A t \in Sessions : IsOpen(t)' => IsOpen(t)
    BY <1>1 DEF IsOpen
  <2>3. \A t \in Sessions : Contents(toClient[t]) \subseteq doc'[Owner[t]] \cup Contents(toClient'[t])
    BY <1>3, <1>6, <1>7
  <2> QED BY <1>1, <1>6, <2>1, <2>2, <2>3, OwnerAssumption, KeepsReaching
<1> QED BY <1>9, <1>10, <1>11, <1>12 DEF IInv

\* A session ends, with or without the document and what was on its way.
LEMMA DisconnectIsGood ==
  ASSUME IInv, NEW s \in Sessions, Disconnect(s), faults' \in 0..MaxFaults,
         doc' = doc \/ doc' = [doc EXCEPT ![Owner[s]] = {}],
         toServer' = toServer \/ toServer' = [toServer EXCEPT ![s] = << >>]
  PROVE  IInv'
<1>1. /\ IsOpen(s)
      /\ connection' = [connection EXCEPT ![Owner[s]] = NoSession]
      /\ toClient' = [toClient EXCEPT ![s] = << >>]
      /\ UNCHANGED <<edits, pc, handling, holding, sessions, updates>>
  BY DEF Disconnect, maps
<1>2. Owner[s] \in Clients
  BY Typed
<1>3. \A t \in Sessions : IsOpen(t)' =>
        /\ IsOpen(t) /\ t # s /\ Owner[t] # Owner[s]
        /\ toServer'[t] = toServer[t] /\ toClient'[t] = toClient[t] /\ doc'[Owner[t]] = doc[Owner[t]]
  <2> TAKE t \in Sessions
  <2> HAVE IsOpen(t)'
  <2>1. Owner[t] \in Clients /\ connection'[Owner[t]] = t /\ t # NoSession
    BY OwnerAssumption DEF IsOpen
  <2>2. Owner[t] # Owner[s] /\ IsOpen(t)
    BY <1>1, <1>2, <2>1 DEF IInv, TypeOK, IsOpen
  <2> QED BY <1>1, <1>2, <2>1, <2>2 DEF IInv, TypeOK
<1>4. TypeOK'
  <2>1. doc' \in [Clients -> SUBSET Update]
    BY <1>2 DEF IInv, TypeOK
  <2>2. toServer' \in [Sessions -> Seq(Message)] /\ toClient' \in [Sessions -> Seq(Message)]
    <3>1. << >> \in Seq(Message)
      BY EmptySeq
    <3>2. toServer \in [Sessions -> Seq(Message)] /\ toClient \in [Sessions -> Seq(Message)]
      BY DEF IInv, TypeOK
    <3>3. [toServer EXCEPT ![s] = << >>] \in [Sessions -> Seq(Message)]
      BY <3>1, <3>2
    <3>4. [toClient EXCEPT ![s] = << >>] \in [Sessions -> Seq(Message)]
      BY <3>1, <3>2
    <3> QED BY <1>1, <3>2, <3>3, <3>4, Zenon
  <2>3. connection' \in [Clients -> Sessions \cup {NoSession}]
    BY <1>1, <1>2 DEF IInv, TypeOK
  <2> QED BY <1>1, <2>1, <2>2, <2>3 DEF IInv, TypeOK
<1>5. Joined' /\ HandlesMessage'
  BY <1>1, <1>3 DEF IInv, Joined, HandlesMessage
<1>6. ConnectsOwn'
  BY <1>1, <1>2 DEF IInv, ConnectsOwn, TypeOK
<1>7. SentIsHeld'
  <2> SUFFICES ASSUME NEW t \in Sessions, IsOpen(t)'
               PROVE  Contents(toServer'[t]) \cup Told(handling'[t]) \subseteq doc'[Owner[t]]
    BY DEF SentIsHeld, Contents, Told
  <2> QED BY <1>1, <1>3 DEF IInv, SentIsHeld
<1>8. ReachesEveryone'
  <2>1. AboutToSend \subseteq AboutToSend'
    BY <1>1, AboutToSendIsTold
  <2> QED BY <1>1, <1>3, <2>1, KeepsReaching
<1> QED BY <1>4, <1>5, <1>6, <1>7, <1>8 DEF IInv

LEMMA FaultsAreBounded ==
  ASSUME IInv, NEW kind, Fault(kind)
  PROVE  faults' \in 0..MaxFaults
BY BoundsAssumption DEF IInv, TypeOK, Fault

LEMMA LoseConnectionIsGood ==
  ASSUME IInv, NEW s \in Sessions, LoseConnection(s)
  PROVE  IInv'
<1>1. /\ Disconnect(s) /\ doc' = doc
      /\ toServer' = toServer \/ toServer' = [toServer EXCEPT ![s] = << >>]
      /\ Fault("connectionLost") \/ Fault("messagesLost")
  BY DEF LoseConnection
<1>2. faults' \in 0..MaxFaults
  BY <1>1, FaultsAreBounded
<1> QED BY <1>1, <1>2, DisconnectIsGood

LEMMA CloseTabIsGood ==
  ASSUME IInv, NEW s \in Sessions, CloseTab(s)
  PROVE  IInv'
<1>1. /\ Disconnect(s) /\ Fault("tabClosed")
      /\ doc' = [doc EXCEPT ![Owner[s]] = {}] /\ toServer' = toServer
  BY DEF CloseTab
<1> QED BY <1>1, FaultsAreBounded, DisconnectIsGood

LEMMA CrashIsGood ==
  ASSUME IInv, Crash
  PROVE  IInv'
<1>1. /\ connection' = [c \in Clients |-> NoSession]
      /\ pc' = [s \in Sessions |-> IF pc[s] = "unused" THEN "unused" ELSE "closed"]
      /\ toServer' = [s \in Sessions |-> << >>] /\ toClient' = [s \in Sessions |-> << >>]
      /\ handling' = [s \in Sessions |-> NoMessage]
      /\ holding' = {} /\ sessions' = {} /\ updates' = << >>
      /\ UNCHANGED <<doc, edits>>
      /\ Fault("serverLost")
  BY DEF Crash
<1>2. faults' \in 0..MaxFaults
  BY <1>1, FaultsAreBounded
<1>3. TypeOK'
  <2>1. toServer' \in [Sessions -> Seq(Message)] /\ toClient' \in [Sessions -> Seq(Message)]
    BY <1>1, EmptySeq
  <2>2. updates' \in Seq(Message) /\ Len(updates') <= MaxStoredUpdates
    BY <1>1, EmptySeq, BoundsAssumption
  <2>3. pc' \in [Sessions -> Steps] /\ handling' \in [Sessions -> Message \cup {NoMessage}]
    BY <1>1 DEF Steps
  <2>4. /\ holding' \subseteq Sessions /\ sessions' \subseteq Sessions
        /\ connection' \in [Clients -> Sessions \cup {NoSession}]
    BY <1>1
  <2> QED BY <1>1, <1>2, <2>1, <2>2, <2>3, <2>4 DEF IInv, TypeOK
<1>4. \A s \in Sessions : ~IsOpen(s)'
  BY <1>1, OwnerAssumption DEF IsOpen
<1>5. Joined' /\ SentIsHeld' /\ ReachesEveryone'
  BY <1>4 DEF Joined, SentIsHeld, ReachesEveryone
<1>6. HandlesMessage' /\ ConnectsOwn'
  BY <1>1 DEF HandlesMessage, ConnectsOwn
<1> QED BY <1>3, <1>5, <1>6 DEF IInv

-----------------------------------------------------------------------------
(* The server.                                                             *)

\* What every step of a handler leaves alone.
LEMMA HandlerStep ==
  ASSUME IInv, NEW s \in Sessions, NEW here, NEW then \in Steps, At(s, here, then)
  PROVE  /\ pc[s] = here /\ pc'[s] = then /\ pc' \in [Sessions -> Steps]
         /\ \A t \in Sessions \ {s} : pc'[t] = pc[t]
         /\ doc' = doc /\ edits' = edits /\ connection' = connection /\ faults' = faults
         /\ \A t \in Sessions : IsOpen(t)' <=> IsOpen(t)
         /\ ConnectsOwn'
<1>1. /\ pc[s] = here /\ pc' = [pc EXCEPT ![s] = then]
      /\ doc' = doc /\ edits' = edits /\ connection' = connection /\ faults' = faults
  BY DEF At, browsers
<1>2. pc \in [Sessions -> Steps]
  BY DEF IInv, TypeOK
<1> QED BY <1>1, <1>2 DEF IInv, IsOpen, ConnectsOwn

\* Steps that keep the queues, and touch no message.
LEMMA QuietStep ==
  ASSUME IInv, NEW s \in Sessions, NEW here \in Steps \ {"saving", "sending"},
         NEW then \in Steps \ {"saving", "sending"},
         At(s, here, then),
         UNCHANGED <<toServer, toClient, handling>>,
         sessions' \subseteq Sessions, holding' \subseteq Sessions,
         updates' = updates \/ updates' = << >>,
         \A t \in Sessions \ {s} : IsOpen(t) /\ t \in sessions => t \in sessions',
         IsOpen(s) => here = "opening" /\ then = "replaying" /\ s \in sessions'
  PROVE  IInv'
<1>1. /\ pc[s] = here /\ pc'[s] = then /\ pc' \in [Sessions -> Steps]
      /\ \A t \in Sessions \ {s} : pc'[t] = pc[t]
      /\ doc' = doc /\ edits' = edits /\ connection' = connection /\ faults' = faults
      /\ \A t \in Sessions : IsOpen(t)' <=> IsOpen(t)
      /\ ConnectsOwn'
  BY HandlerStep
<1>2. updates' \in Seq(Message) /\ Len(updates') <= MaxStoredUpdates
        /\ Contents(updates') \subseteq Contents(updates)
  <2>1. CASE updates' = updates
    BY <2>1 DEF IInv, TypeOK
  <2>2. CASE updates' = << >>
    <3>1. << >> \in Seq(Message) /\ Len(<< >>) = 0 /\ Contents(<< >>) = {}
      BY EmptySeq, ContentsOfNothing
    <3>2. 0 <= MaxStoredUpdates
      BY BoundsAssumption
    <3>3. updates' \in Seq(Message) /\ Len(updates') = 0 /\ Contents(updates') = {}
      BY <2>2, <3>1, Zenon
    <3> QED BY <3>2, <3>3
  <2> QED BY <2>1, <2>2
<1>3. TypeOK'
  BY <1>1, <1>2 DEF IInv, TypeOK
<1>4. Joined'
  <2> SUFFICES ASSUME NEW t \in Sessions, IsOpen(t)'
               PROVE  /\ pc'[t] \in {"opening", "replaying", "idle", "saving", "sending"}
                      /\ pc'[t] # "opening" => t \in sessions'
    BY DEF Joined
  <2> QED BY <1>1 DEF IInv, Joined
<1>5. HandlesMessage'
  BY <1>1 DEF IInv, HandlesMessage
<1>6. SentIsHeld'
  <2> SUFFICES ASSUME NEW t \in Sessions, IsOpen(t)'
               PROVE  Contents(toServer'[t]) \cup Told(handling'[t]) \subseteq doc'[Owner[t]]
    BY DEF SentIsHeld, Contents, Told
  <2> QED BY <1>1 DEF IInv, SentIsHeld
<1>7. AboutToSend \subseteq AboutToSend'
  BY <1>1, AboutToSendIsTold
<1>8. ReachesEveryone'
  BY <1>1, <1>2, <1>7, KeepsReaching
<1> QED BY <1>1, <1>3, <1>4, <1>5, <1>6, <1>8 DEF IInv

LEMMA OnOpenIsGood ==
  ASSUME IInv, NEW s \in Sessions, OnOpen(s)
  PROVE  IInv'
<1>1. CASE At(s, "opening", "replaying") /\ AddSession(s)
  <2>1. /\ sessions' = sessions \cup {s}
        /\ UNCHANGED <<updates, toServer, toClient, handling, holding>>
    BY <1>1 DEF AddSession
  <2>2. sessions' \subseteq Sessions /\ holding' \subseteq Sessions
    BY <2>1 DEF IInv, TypeOK
  <2>3. "opening" \in Steps \ {"saving", "sending"} /\ "replaying" \in Steps \ {"saving", "sending"}
    BY DEF Steps
  <2> QED BY <1>1, <2>1, <2>2, <2>3, QuietStep
<1>2. CASE At(s, "replaying", "idle") /\ ReplayUpdatesTo(s)
  <2>1. /\ toClient' = [toClient EXCEPT ![s] = IF IsOpen(s) THEN @ \o updates ELSE @]
        /\ UNCHANGED <<sessions, updates, toServer, handling, holding>>
    BY <1>2 DEF ReplayUpdatesTo, maps
  <2>2. /\ pc[s] = "replaying" /\ pc'[s] = "idle" /\ pc' \in [Sessions -> Steps]
        /\ \A t \in Sessions \ {s} : pc'[t] = pc[t]
        /\ doc' = doc /\ edits' = edits /\ connection' = connection /\ faults' = faults
        /\ \A t \in Sessions : IsOpen(t)' <=> IsOpen(t)
        /\ ConnectsOwn'
    <3>1. "idle" \in Steps
      BY DEF Steps
    <3> QED BY <1>2, <3>1, HandlerStep
  <2>3. /\ toClient[s] \o updates \in Seq(Message)
        /\ Contents(toClient[s] \o updates) = Contents(toClient[s]) \cup Contents(updates)
    BY Typed, ContentsOfConcat
  <2>4. /\ toClient' \in [Sessions -> Seq(Message)]
        /\ IsOpen(s) => Contents(toClient'[s]) = Contents(toClient[s]) \cup Contents(updates)
        /\ \A t \in Sessions \ {s} : toClient'[t] = toClient[t]
    BY <2>1, <2>3 DEF IInv, TypeOK
  <2>5. TypeOK'
    BY <2>1, <2>2, <2>4 DEF IInv, TypeOK
  <2>6. Joined' /\ HandlesMessage'
    BY <2>1, <2>2 DEF IInv, Joined, HandlesMessage
  <2>7. SentIsHeld'
    <3> SUFFICES ASSUME NEW t \in Sessions, IsOpen(t)'
                 PROVE  Contents(toServer'[t]) \cup Told(handling'[t]) \subseteq doc'[Owner[t]]
      BY DEF SentIsHeld, Contents, Told
    <3> QED BY <2>1, <2>2 DEF IInv, SentIsHeld
  <2>8. AboutToSend \subseteq AboutToSend'
    BY <2>1, <2>2, AboutToSendIsTold
  <2>9. ReachesEveryone'
    <3> SUFFICES ASSUME NEW t \in Sessions, IsOpen(t)', pc'[t] \notin {"opening", "replaying"}
                 PROVE  Contents(updates') \subseteq
                          doc'[Owner[t]] \cup Contents(toClient'[t]) \cup AboutToSend'
      BY DEF ReachesEveryone, Contents
    <3>1. CASE t = s
      BY <2>1, <2>2, <2>4, <3>1
    <3>2. CASE t # s
      <4>1. Contents(updates) \subseteq doc[Owner[t]] \cup Contents(toClient[t]) \cup AboutToSend
        BY <2>2, <3>2 DEF IInv, ReachesEveryone
      <4> QED BY <2>1, <2>2, <2>4, <2>8, <3>2, <4>1
    <3> QED BY <3>1, <3>2
  <2> QED BY <2>2, <2>5, <2>6, <2>7, <2>9 DEF IInv
<1> QED BY <1>1, <1>2 DEF OnOpen

LEMMA TakeMessageIsGood ==
  ASSUME IInv, NEW s \in Sessions, At(s, "idle", "saving"), TakeMessage(s)
  PROVE  IInv'
<1>1. /\ toServer[s] # << >>
      /\ handling' = [handling EXCEPT ![s] = Head(toServer[s])]
      /\ toServer' = [toServer EXCEPT ![s] = Tail(toServer[s])]
      /\ holding' = holding \cup {s}
      /\ UNCHANGED <<sessions, updates, toClient>>
  BY DEF TakeMessage, maps
<1>2. /\ pc[s] = "idle" /\ pc'[s] = "saving" /\ pc' \in [Sessions -> Steps]
      /\ \A t \in Sessions \ {s} : pc'[t] = pc[t]
      /\ doc' = doc /\ edits' = edits /\ connection' = connection /\ faults' = faults
      /\ \A t \in Sessions : IsOpen(t)' <=> IsOpen(t)
      /\ ConnectsOwn'
  <2>1. "saving" \in Steps
    BY DEF Steps
  <2> QED BY <2>1, HandlerStep
<1>3. /\ Head(toServer[s]) \in Message /\ Tail(toServer[s]) \in Seq(Message)
      /\ Contents(toServer[s]) = Contents(Tail(toServer[s])) \cup Told(Head(toServer[s]))
  BY <1>1, Typed, ContentsOfTail
<1>4. /\ handling'[s] = Head(toServer[s]) /\ toServer'[s] = Tail(toServer[s])
      /\ \A t \in Sessions \ {s} : handling'[t] = handling[t] /\ toServer'[t] = toServer[t]
      /\ handling' \in [Sessions -> Message \cup {NoMessage}]
      /\ toServer' \in [Sessions -> Seq(Message)]
  BY <1>1, <1>3 DEF IInv, TypeOK
<1>5. TypeOK'
  BY <1>1, <1>2, <1>4 DEF IInv, TypeOK
<1>6. Joined' /\ HandlesMessage'
  BY <1>1, <1>2, <1>3, <1>4 DEF IInv, Joined, HandlesMessage
<1>7. SentIsHeld'
  <2> SUFFICES ASSUME NEW t \in Sessions, IsOpen(t)'
               PROVE  Contents(toServer'[t]) \cup Told(handling'[t]) \subseteq doc'[Owner[t]]
    BY DEF SentIsHeld, Contents, Told
  <2>1. Contents(toServer[t]) \cup Told(handling[t]) \subseteq doc[Owner[t]]
    BY <1>2 DEF IInv, SentIsHeld
  <2> QED BY <1>2, <1>3, <1>4, <2>1
<1>8. AboutToSend \subseteq AboutToSend'
  BY <1>2, <1>4, AboutToSendIsTold
<1>9. ReachesEveryone'
  BY <1>1, <1>2, <1>8, KeepsReaching
<1> QED BY <1>2, <1>5, <1>6, <1>7, <1>9 DEF IInv

LEMMA SaveMessageIsGood ==
  ASSUME IInv, NEW s \in Sessions, At(s, "saving", "sending"), SaveMessage(s)
  PROVE  IInv'
<1>1. /\ updates' = IF s \in holding THEN Retained(Append(updates, handling[s])) ELSE updates
      /\ holding' = holding \ {s}
      /\ UNCHANGED <<sessions, toServer, toClient, handling>>
  BY DEF SaveMessage
<1>2. /\ pc[s] = "saving" /\ pc'[s] = "sending" /\ pc' \in [Sessions -> Steps]
      /\ \A t \in Sessions \ {s} : pc'[t] = pc[t]
      /\ doc' = doc /\ edits' = edits /\ connection' = connection /\ faults' = faults
      /\ \A t \in Sessions : IsOpen(t)' <=> IsOpen(t)
      /\ ConnectsOwn'
  <2>1. "sending" \in Steps
    BY DEF Steps
  <2> QED BY <2>1, HandlerStep
<1>3. handling[s] \in Message
  BY <1>2 DEF IInv, HandlesMessage
<1>4. /\ updates' \in Seq(Message) /\ Len(updates') <= MaxStoredUpdates
      /\ Contents(updates') \subseteq Contents(updates) \cup Told(handling[s])
  <2>1. /\ Append(updates, handling[s]) \in Seq(Message)
        /\ Contents(Append(updates, handling[s])) = Contents(updates) \cup Told(handling[s])
    BY <1>3, Typed, ContentsOfAppend
  <2>2. /\ Retained(Append(updates, handling[s])) \in Seq(Message)
        /\ Len(Retained(Append(updates, handling[s]))) <= MaxStoredUpdates
        /\ Contents(Retained(Append(updates, handling[s]))) \subseteq
             Contents(updates) \cup Told(handling[s])
    BY <2>1, RetainedKeepsLimit
  <2>3. CASE s \in holding
    BY <1>1, <2>2, <2>3
  <2>4. CASE s \notin holding
    BY <1>1, <2>4 DEF IInv, TypeOK
  <2> QED BY <2>3, <2>4
<1>5. TypeOK'
  BY <1>1, <1>2, <1>4 DEF IInv, TypeOK
<1>6. Joined' /\ HandlesMessage'
  BY <1>1, <1>2 DEF IInv, Joined, HandlesMessage
<1>7. SentIsHeld'
  <2> SUFFICES ASSUME NEW t \in Sessions, IsOpen(t)'
               PROVE  Contents(toServer'[t]) \cup Told(handling'[t]) \subseteq doc'[Owner[t]]
    BY DEF SentIsHeld, Contents, Told
  <2> QED BY <1>1, <1>2 DEF IInv, SentIsHeld
<1>8. AboutToSend \cup Told(handling[s]) \subseteq AboutToSend'
  BY <1>1, <1>2, AboutToSendIsTold
<1>9. ReachesEveryone'
  <2> SUFFICES ASSUME NEW t \in Sessions, IsOpen(t)', pc'[t] \notin {"opening", "replaying"}
               PROVE  Contents(updates') \subseteq
                        doc'[Owner[t]] \cup Contents(toClient'[t]) \cup AboutToSend'
    BY DEF ReachesEveryone, Contents
  <2>1. Contents(updates) \subseteq doc[Owner[t]] \cup Contents(toClient[t]) \cup AboutToSend
    BY <1>2 DEF IInv, ReachesEveryone
  <2> QED BY <1>1, <1>2, <1>4, <1>8, <2>1
<1> QED BY <1>2, <1>5, <1>6, <1>7, <1>9 DEF IInv

LEMMA BroadcastToOthersIsGood ==
  ASSUME IInv, NEW s \in Sessions, At(s, "sending", "idle"), BroadcastToOthers(s)
  PROVE  IInv'
<1>1. /\ toClient' = [t \in Sessions |->
                        IF t \in sessions \ {s} /\ IsOpen(t)
                        THEN Append(toClient[t], handling[s]) ELSE toClient[t]]
      /\ handling' = [handling EXCEPT ![s] = NoMessage]
      /\ UNCHANGED <<sessions, updates, toServer, holding>>
  BY DEF BroadcastToOthers, maps
<1>2. /\ pc[s] = "sending" /\ pc'[s] = "idle" /\ pc' \in [Sessions -> Steps]
      /\ \A t \in Sessions \ {s} : pc'[t] = pc[t]
      /\ doc' = doc /\ edits' = edits /\ connection' = connection /\ faults' = faults
      /\ \A t \in Sessions : IsOpen(t)' <=> IsOpen(t)
      /\ ConnectsOwn'
  <2>1. "idle" \in Steps
    BY DEF Steps
  <2> QED BY <2>1, HandlerStep
<1>3. handling[s] \in Message
  BY <1>2 DEF IInv, HandlesMessage
<1>4. \A t \in Sessions :
        /\ toClient[t] \in Seq(Message) /\ Append(toClient[t], handling[s]) \in Seq(Message)
        /\ Contents(Append(toClient[t], handling[s])) = Contents(toClient[t]) \cup Told(handling[s])
  BY <1>3, Typed, ContentsOfAppend
<1>5. /\ toClient' \in [Sessions -> Seq(Message)]
      /\ \A t \in Sessions : Contents(toClient[t]) \subseteq Contents(toClient'[t])
      /\ \A t \in Sessions :
           t \in sessions \ {s} /\ IsOpen(t) => Told(handling[s]) \subseteq Contents(toClient'[t])
  <2>1. \A t \in Sessions : toClient'[t] = IF t \in sessions \ {s} /\ IsOpen(t)
                                            THEN Append(toClient[t], handling[s]) ELSE toClient[t]
    BY <1>1
  <2>2. \A t \in Sessions : toClient'[t] \in Seq(Message)
    BY <1>4, <2>1
  <2>3. DOMAIN toClient' = Sessions /\ toClient' = [t \in Sessions |-> toClient'[t]]
    BY <1>1
  <2>4. toClient' \in [Sessions -> Seq(Message)]
    BY <2>2, <2>3
  <2> QED BY <1>4, <2>1, <2>4
<1>6. /\ handling'[s] = NoMessage /\ \A t \in Sessions \ {s} : handling'[t] = handling[t]
      /\ handling' \in [Sessions -> Message \cup {NoMessage}]
  BY <1>1 DEF IInv, TypeOK
<1>7. TypeOK'
  BY <1>1, <1>2, <1>5, <1>6 DEF IInv, TypeOK
<1>8. Joined' /\ HandlesMessage'
  BY <1>1, <1>2, <1>6 DEF IInv, Joined, HandlesMessage
<1>9. SentIsHeld'
  <2> SUFFICES ASSUME NEW t \in Sessions, IsOpen(t)'
               PROVE  Contents(toServer'[t]) \cup Told(handling'[t]) \subseteq doc'[Owner[t]]
    BY DEF SentIsHeld, Contents, Told
  <2>1. Contents(toServer[t]) \cup Told(handling[t]) \subseteq doc[Owner[t]]
    BY <1>2 DEF IInv, SentIsHeld
  <2> QED BY <1>1, <1>2, <1>6, <2>1, NothingTold
<1>10. AboutToSend \subseteq AboutToSend' \cup Told(handling[s])
  BY <1>2, <1>6, AboutToSendIsTold
<1>11. ReachesEveryone'
  <2> SUFFICES ASSUME NEW t \in Sessions, IsOpen(t)', pc'[t] \notin {"opening", "replaying"}
               PROVE  Contents(updates') \subseteq
                        doc'[Owner[t]] \cup Contents(toClient'[t]) \cup AboutToSend'
    BY DEF ReachesEveryone, Contents
  <2>1. IsOpen(t) /\ pc[t] \notin {"opening", "replaying"}
    BY <1>2
  <2>2. Contents(updates) \subseteq doc[Owner[t]] \cup Contents(toClient[t]) \cup AboutToSend
    BY <2>1 DEF IInv, ReachesEveryone
  <2>3. Told(handling[s]) \subseteq doc[Owner[t]] \cup Contents(toClient'[t])
    <3>1. CASE t = s
      BY <2>1, <3>1 DEF IInv, SentIsHeld
    <3>2. CASE t # s
      <4>1. t \in sessions
        BY <2>1 DEF IInv, Joined
      <4> QED BY <1>5, <2>1, <3>2, <4>1
    <3> QED BY <3>1, <3>2
  <2>4. Contents(toClient[t]) \subseteq Contents(toClient'[t])
    BY <1>5
  <2> QED BY <1>1, <1>2, <1>10, <2>2, <2>3, <2>4
<1> QED BY <1>2, <1>7, <1>8, <1>9, <1>11 DEF IInv

LEMMA OnBinaryIsGood ==
  ASSUME IInv, NEW s \in Sessions, OnBinary(s)
  PROVE  IInv'
BY TakeMessageIsGood, SaveMessageIsGood, BroadcastToOthersIsGood DEF OnBinary

LEMMA OnCloseIsGood ==
  ASSUME IInv, NEW s \in Sessions, OnClose(s)
  PROVE  IInv'
<1>1. /\ "idle" \in Steps \ {"saving", "sending"} /\ "checking" \in Steps \ {"saving", "sending"}
      /\ "dropping" \in Steps \ {"saving", "sending"} /\ "closed" \in Steps \ {"saving", "sending"}
  BY DEF Steps
<1>2. holding \subseteq Sessions /\ sessions \subseteq Sessions
  BY DEF IInv, TypeOK
<1>3. CASE At(s, "idle", "checking") /\ RemoveSession(s)
  <2>1. /\ ~IsOpen(s) /\ sessions' = sessions \ {s}
        /\ UNCHANGED <<updates, toServer, toClient, handling, holding>>
    BY <1>3 DEF RemoveSession
  <2> QED BY <1>1, <1>2, <1>3, <2>1, QuietStep
<1>4. ASSUME NEW then \in {"dropping", "closed"}, At(s, "checking", then),
             UNCHANGED <<maps, toServer, toClient, handling, holding>>
      PROVE  IInv'
  <2>1. ~IsOpen(s)
    BY <1>4 DEF At, IInv, Joined
  <2>2. UNCHANGED <<sessions, updates, toServer, toClient, handling, holding>>
    BY <1>4 DEF maps
  <2>3. then \in Steps \ {"saving", "sending"}
    BY <1>1
  <2> QED BY <1>1, <1>2, <1>4, <2>1, <2>2, <2>3, QuietStep
<1>5. CASE At(s, "dropping", "closed") /\ DropUpdates(s)
  <2>1. ~IsOpen(s)
    BY <1>5 DEF At, IInv, Joined
  <2>2. /\ updates' = << >> /\ holding' = {}
        /\ UNCHANGED <<sessions, toServer, toClient, handling>>
    BY <1>5 DEF DropUpdates
  <2>3. holding' \subseteq Sessions /\ sessions' \subseteq Sessions
    BY <1>2, <2>2
  <2> QED BY <1>1, <1>5, <2>1, <2>2, <2>3, QuietStep
<1> QED BY <1>3, <1>4, <1>5 DEF OnClose

-----------------------------------------------------------------------------
(* The theorems.                                                           *)

LEMMA InitIsGood == Init => IInv
<1> SUFFICES ASSUME Init PROVE IInv
  OBVIOUS
<1>1. << >> \in Seq(Message) /\ Len(<< >>) = 0
  BY EmptySeq
<1>2. TypeOK
  BY <1>1, BoundsAssumption DEF Init, TypeOK, Steps
<1>3. \A s \in Sessions : ~IsOpen(s)
  BY OwnerAssumption DEF Init, IsOpen
<1>4. Joined /\ SentIsHeld /\ ReachesEveryone
  BY <1>3 DEF Joined, SentIsHeld, ReachesEveryone
<1>5. HandlesMessage /\ ConnectsOwn
  BY DEF Init, HandlesMessage, ConnectsOwn
<1> QED BY <1>2, <1>4, <1>5 DEF IInv

LEMMA StutterIsGood ==
  ASSUME IInv, UNCHANGED vars
  PROVE  IInv'
<1>1. UNCHANGED <<doc, edits, connection, toServer, toClient, pc, handling, holding,
                  sessions, updates, faults>>
  BY DEF vars, browsers, maps
<1>2. TypeOK'
  BY <1>1 DEF IInv, TypeOK
<1>3. Joined' /\ HandlesMessage' /\ ConnectsOwn'
  BY <1>1 DEF IInv, Joined, HandlesMessage, ConnectsOwn, IsOpen
<1>4. SentIsHeld'
  BY <1>1 DEF IInv, SentIsHeld, IsOpen, Contents, Told
<1>5. AboutToSend \subseteq AboutToSend'
  BY <1>1, AboutToSendIsTold
<1>6. \A s \in Sessions : IsOpen(s)' => IsOpen(s)
  BY <1>1 DEF IsOpen
<1>7. ReachesEveryone'
  BY <1>1, <1>5, <1>6, KeepsReaching
<1> QED BY <1>2, <1>3, <1>4, <1>7 DEF IInv

LEMMA NextIsGood ==
  ASSUME IInv, [Next]_vars
  PROVE  IInv'
<1>1. ASSUME NEW c \in Clients, Edit(c) PROVE IInv'
  BY <1>1, EditIsGood
<1>2. ASSUME NEW s \in Sessions, Connect(s) PROVE IInv'
  BY <1>2, ConnectIsGood
<1>3. ASSUME NEW s \in Sessions, Receive(s) PROVE IInv'
  BY <1>3, ReceiveIsGood
<1>4. ASSUME NEW s \in Sessions, LoseConnection(s) PROVE IInv'
  BY <1>4, LoseConnectionIsGood
<1>5. ASSUME NEW s \in Sessions, CloseTab(s) PROVE IInv'
  BY <1>5, CloseTabIsGood
<1>6. ASSUME NEW s \in Sessions, Handler(s) PROVE IInv'
  BY <1>6, OnOpenIsGood, OnBinaryIsGood, OnCloseIsGood DEF Handler
<1>7. CASE Crash
  BY <1>7, CrashIsGood
<1>8. CASE UNCHANGED vars
  BY <1>8, StutterIsGood
<1> QED BY <1>1, <1>2, <1>3, <1>4, <1>5, <1>6, <1>7, <1>8 DEF Next

LEMMA IInvHolds == Spec => []IInv
<1>1. Init => IInv
  BY InitIsGood
<1>2. IInv /\ [Next]_vars => IInv'
  BY NextIsGood
<1> QED BY <1>1, <1>2, PTL DEF Spec

\* The variables have their types; the log never outgrows its limit.
THEOREM TypeIsOK == Spec => []TypeOK
<1>1. IInv => TypeOK
  BY DEF IInv
<1> QED BY <1>1, IInvHolds, PTL

\* Whatever breaks and however the handlers of the sessions interleave: a
\* browser whose onOpen has returned has every recorded update, or it is on its
\* way to it.
THEOREM NobodyMissesAnUpdate == Spec => []ReachesEveryone
<1>1. IInv => ReachesEveryone
  BY DEF IInv
<1> QED BY <1>1, IInvHolds, PTL

-----------------------------------------------------------------------------
(* What is asked in a queue.                                               *)

LEMMA AskInIsAsked ==
  ASSUME NEW q \in Seq(Message), NEW t
  PROVE  AskIn(q, t) <=> \E n \in 1..Len(q) : Asks(q[n], t)
<1>1. DOMAIN q = 1..Len(q)
  BY LenProperties
<1> QED BY <1>1 DEF AskIn

LEMMA NobodyAsks ==
  ASSUME NEW t
  PROVE  ~AskIn(<< >>, t) /\ ~Asks(NoMessage, t)
BY DEF AskIn, Asks, NoMessage

LEMMA AskInConcat ==
  ASSUME NEW q \in Seq(Message), NEW r \in Seq(Message), NEW t
  PROVE  AskIn(q \o r, t) <=> AskIn(q, t) \/ AskIn(r, t)
<1>1. /\ q \o r \in Seq(Message) /\ Len(q \o r) = Len(q) + Len(r)
      /\ \A i \in 1..(Len(q) + Len(r)) :
           (q \o r)[i] = IF i <= Len(q) THEN q[i] ELSE r[i - Len(q)]
  BY ConcatProperties
<1>2. Len(q) \in Nat /\ Len(r) \in Nat
  BY LenProperties
<1>3. ASSUME AskIn(q \o r, t)
      PROVE  AskIn(q, t) \/ AskIn(r, t)
  <2>1. PICK i \in 1..(Len(q) + Len(r)) : Asks((q \o r)[i], t)
    BY <1>1, <1>3, AskInIsAsked
  <2>2. CASE i <= Len(q)
    BY <1>1, <1>2, <2>1, <2>2, AskInIsAsked
  <2>3. CASE ~(i <= Len(q))
    <3>1. i - Len(q) \in 1..Len(r) /\ (q \o r)[i] = r[i - Len(q)]
      BY <1>1, <1>2, <2>3
    <3> QED BY <2>1, <3>1, AskInIsAsked
  <2> QED BY <2>2, <2>3
<1>4. ASSUME AskIn(q, t)
      PROVE  AskIn(q \o r, t)
  <2>1. PICK i \in 1..Len(q) : Asks(q[i], t)
    BY <1>4, AskInIsAsked
  <2>2. i \in 1..(Len(q) + Len(r)) /\ (q \o r)[i] = q[i]
    BY <1>1, <1>2
  <2> QED BY <1>1, <2>1, <2>2, AskInIsAsked
<1>5. ASSUME AskIn(r, t)
      PROVE  AskIn(q \o r, t)
  <2>1. PICK i \in 1..Len(r) : Asks(r[i], t)
    BY <1>5, AskInIsAsked
  <2>2. Len(q) + i \in 1..(Len(q) + Len(r)) /\ (q \o r)[Len(q) + i] = r[i]
    BY <1>1, <1>2
  <2> QED BY <1>1, <2>1, <2>2, AskInIsAsked
<1> QED BY <1>3, <1>4, <1>5

LEMMA AskInAppend ==
  ASSUME NEW q \in Seq(Message), NEW m \in Message, NEW t
  PROVE  AskIn(Append(q, m), t) <=> AskIn(q, t) \/ Asks(m, t)
<1>1. /\ Append(q, m) \in Seq(Message) /\ Len(Append(q, m)) = Len(q) + 1
      /\ \A i \in 1..Len(q) : Append(q, m)[i] = q[i]
      /\ Append(q, m)[Len(q) + 1] = m
  BY AppendProperties
<1>2. Len(q) \in Nat
  BY LenProperties
<1>3. \A i \in 1..(Len(q) + 1) : i \in 1..Len(q) \/ i = Len(q) + 1
  BY <1>2
<1>4. Len(q) + 1 \in 1..(Len(q) + 1) /\ \A i \in 1..Len(q) : i \in 1..(Len(q) + 1)
  BY <1>2
<1>5. AskIn(Append(q, m), t) <=> \E i \in 1..(Len(q) + 1) : Asks(Append(q, m)[i], t)
  BY <1>1, AskInIsAsked
<1>6. AskIn(q, t) <=> \E i \in 1..Len(q) : Asks(q[i], t)
  BY AskInIsAsked
<1> QED BY <1>1, <1>3, <1>4, <1>5, <1>6, Zenon

LEMMA AskInTail ==
  ASSUME NEW q \in Seq(Message), q # << >>, NEW t
  PROVE  AskIn(q, t) <=> Asks(Head(q), t) \/ AskIn(Tail(q), t)
<1>1. /\ Head(q) \in Message /\ Tail(q) \in Seq(Message) /\ Len(Tail(q)) = Len(q) - 1
      /\ \A i \in 1..Len(Tail(q)) : Tail(q)[i] = q[i + 1]
      /\ Head(q) = q[1] /\ Len(q) \in Nat \ {0}
  BY HeadTailProperties, EmptySeq
<1>2. ASSUME NEW i \in 1..Len(q), i # 1
      PROVE  i - 1 \in 1..Len(Tail(q)) /\ q[i] = Tail(q)[i - 1]
  <2>1. i - 1 \in 1..Len(Tail(q)) /\ (i - 1) + 1 = i
    BY <1>1, <1>2
  <2>2. Tail(q)[i - 1] = q[(i - 1) + 1]
    BY <1>1, <2>1
  <2> QED BY <2>1, <2>2
<1>3. 1 \in 1..Len(q) /\ \A i \in 1..Len(Tail(q)) : i + 1 \in 1..Len(q)
  BY <1>1
<1>4. ASSUME AskIn(q, t)
      PROVE  Asks(Head(q), t) \/ AskIn(Tail(q), t)
  <2>1. PICK i \in 1..Len(q) : Asks(q[i], t)
    BY <1>4, AskInIsAsked
  <2>2. CASE i = 1
    BY <1>1, <2>1, <2>2
  <2>3. CASE i # 1
    BY <1>1, <1>2, <2>1, <2>3, AskInIsAsked
  <2> QED BY <2>2, <2>3
<1>5. ASSUME AskIn(Tail(q), t)
      PROVE  AskIn(q, t)
  <2>1. PICK i \in 1..Len(Tail(q)) : Asks(Tail(q)[i], t)
    BY <1>1, <1>5, AskInIsAsked
  <2> QED BY <1>1, <1>3, <2>1, AskInIsAsked
<1>6. Asks(Head(q), t) => AskIn(q, t)
  BY <1>1, <1>3, AskInIsAsked
<1> QED BY <1>4, <1>5, <1>6

\* The oldest messages go; what stays was there.
LEMMA RetainedIsPart ==
  ASSUME NEW S \in SUBSET Message, NEW log \in Seq(S)
  PROVE  /\ Retained(log) \in Seq(S)
         /\ \A t : AskIn(Retained(log), t) => AskIn(log, t)
<1> DEFINE a == Len(log) - MaxStoredUpdates + 1
<1>1. /\ Len(log) \in Nat /\ MaxStoredUpdates \in Nat /\ DOMAIN log = 1..Len(log)
      /\ \A i \in 1..Len(log) : log[i] \in S
  BY LenProperties, ElementOfSeq, BoundsAssumption
<1>2. CASE Len(log) <= MaxStoredUpdates
  BY <1>2 DEF Retained
<1>3. CASE ~(Len(log) <= MaxStoredUpdates)
  <2>1. a \in Int /\ a \in 1..(Len(log) + 1) /\ \A i \in a..Len(log) : log[i] \in S
    BY <1>1, <1>3
  <2>2. Retained(log) = SubSeq(log, a, Len(log))
    BY <1>3 DEF Retained
  <2> HIDE DEF a
  <2>3. /\ SubSeq(log, a, Len(log)) \in Seq(S)
        /\ Len(SubSeq(log, a, Len(log))) = IF a <= Len(log) THEN Len(log) - a + 1 ELSE 0
        /\ \A i \in 1..(Len(log) - a + 1) : SubSeq(log, a, Len(log))[i] = log[a + i - 1]
    BY <1>1, <2>1, SubSeqProperties
  <2>4. Len(SubSeq(log, a, Len(log))) = Len(log) - a + 1
    BY <1>1, <2>1, <2>3
  <2>5. DOMAIN SubSeq(log, a, Len(log)) = 1..(Len(log) - a + 1)
    BY <2>3, <2>4, LenProperties
  <2>6. \A i \in 1..(Len(log) - a + 1) : a + i - 1 \in 1..Len(log)
    BY <1>1, <2>1
  <2>7. \A t : AskIn(SubSeq(log, a, Len(log)), t) => AskIn(log, t)
    BY <1>1, <2>3, <2>5, <2>6, Zenon DEF AskIn
  <2> QED BY <2>2, <2>3, <2>7
<1> QED BY <1>2, <1>3

-----------------------------------------------------------------------------
(* What is on its way, and the questions after it.                         *)

LEMMA CoveredIsTold ==
  ASSUME NEW q \in Seq(Message), NEW t, NEW known
  PROVE  Covered(q, t, known) <=>
           \A n \in 1..Len(q) :
             \/ Told(q[n]) \subseteq known
             \/ \E k \in 1..Len(q) : k > n /\ Asks(q[k], t)
<1>1. DOMAIN q = 1..Len(q)
  BY LenProperties
<1> QED BY <1>1 DEF Covered

LEMMA NothingIsCovered ==
  ASSUME NEW t, NEW known
  PROVE  Covered(<< >>, t, known)
BY DEF Covered

LEMMA CoveredByMore ==
  ASSUME NEW q, NEW t, NEW known, NEW more, known \subseteq more, Covered(q, t, known)
  PROVE  Covered(q, t, more)
BY DEF Covered

LEMMA CoveredConcat ==
  ASSUME NEW q \in Seq(Message), NEW r \in Seq(Message), NEW t, NEW known,
         Covered(q, t, known), Contents(r) \subseteq known
  PROVE  Covered(q \o r, t, known)
<1>1. /\ q \o r \in Seq(Message) /\ Len(q \o r) = Len(q) + Len(r)
      /\ \A i \in 1..(Len(q) + Len(r)) :
           (q \o r)[i] = IF i <= Len(q) THEN q[i] ELSE r[i - Len(q)]
  BY ConcatProperties
<1>2. Len(q) \in Nat /\ Len(r) \in Nat
  BY LenProperties
<1> SUFFICES ASSUME NEW n \in 1..(Len(q) + Len(r))
             PROVE  \/ Told((q \o r)[n]) \subseteq known
                    \/ \E k \in 1..(Len(q) + Len(r)) : k > n /\ Asks((q \o r)[k], t)
  BY <1>1, CoveredIsTold
<1>3. CASE n <= Len(q)
  <2>1. n \in 1..Len(q) /\ (q \o r)[n] = q[n]
    BY <1>1, <1>2, <1>3
  <2>2. CASE Told(q[n]) \subseteq known
    BY <2>1, <2>2
  <2>3. CASE ~(Told(q[n]) \subseteq known)
    <3>1. PICK k \in 1..Len(q) : k > n /\ Asks(q[k], t)
      BY <2>1, <2>3, CoveredIsTold
    <3>2. k \in 1..(Len(q) + Len(r)) /\ (q \o r)[k] = q[k]
      BY <1>1, <1>2
    <3> QED BY <3>1, <3>2
  <2> QED BY <2>2, <2>3
<1>4. CASE ~(n <= Len(q))
  <2>1. n - Len(q) \in 1..Len(r) /\ (q \o r)[n] = r[n - Len(q)]
    BY <1>1, <1>2, <1>4
  <2>2. Told(r[n - Len(q)]) \subseteq Contents(r)
    BY <2>1, ContentsIsTold
  <2> QED BY <2>1, <2>2
<1> QED BY <1>3, <1>4

LEMMA CoveredAppend ==
  ASSUME NEW q \in Seq(Message), NEW m \in Message, NEW t, NEW known,
         Covered(q, t, known), Told(m) \subseteq known
  PROVE  Covered(Append(q, m), t, known)
<1>1. Append(q, m) = q \o << m >>
  BY AppendIsConcat
<1>2. << m >> \in Seq(Message) /\ Contents(<< m >>) \subseteq known
  BY ContentsOfOne
<1>3. Covered(q \o << m >>, t, known)
  BY <1>2, CoveredConcat
<1> QED BY <1>1, <1>3

LEMMA CoveredByAsk ==
  ASSUME NEW q \in Seq(Message), NEW m \in Message, NEW t, NEW known, Asks(m, t)
  PROVE  Covered(Append(q, m), t, known)
<1>1. /\ Append(q, m) \in Seq(Message) /\ Len(Append(q, m)) = Len(q) + 1
      /\ Append(q, m)[Len(q) + 1] = m /\ Len(q) \in Nat
  BY AppendProperties, LenProperties
<1>2. Told(m) = {}
  BY DEF Asks, Told
<1> SUFFICES ASSUME NEW n \in 1..(Len(q) + 1)
             PROVE  \/ Told(Append(q, m)[n]) \subseteq known
                    \/ \E k \in 1..(Len(q) + 1) : k > n /\ Asks(Append(q, m)[k], t)
  BY <1>1, CoveredIsTold
<1>3. CASE n = Len(q) + 1
  BY <1>1, <1>2, <1>3
<1>4. CASE n # Len(q) + 1
  <2>1. Len(q) + 1 \in 1..(Len(q) + 1) /\ Len(q) + 1 > n
    BY <1>1, <1>4
  <2> QED BY <1>1, <2>1
<1> QED BY <1>3, <1>4

LEMMA CoveredTail ==
  ASSUME NEW q \in Seq(Message), q # << >>, NEW t, NEW known, Covered(q, t, known)
  PROVE  /\ Covered(Tail(q), t, known)
         /\ Told(Head(q)) \subseteq known \/ AskIn(Tail(q), t)
<1>1. /\ Head(q) \in Message /\ Tail(q) \in Seq(Message) /\ Len(Tail(q)) = Len(q) - 1
      /\ \A i \in 1..Len(Tail(q)) : Tail(q)[i] = q[i + 1]
      /\ Head(q) = q[1] /\ Len(q) \in Nat \ {0}
  BY HeadTailProperties, EmptySeq
<1>2. ASSUME NEW n \in 1..Len(q), ~(Told(q[n]) \subseteq known)
      PROVE  \E k \in 1..Len(Tail(q)) : k > n - 1 /\ Asks(Tail(q)[k], t)
  <2>1. PICK k \in 1..Len(q) : k > n /\ Asks(q[k], t)
    BY <1>2, CoveredIsTold
  <2>2. k - 1 \in 1..Len(Tail(q)) /\ k - 1 > n - 1 /\ Tail(q)[k - 1] = q[k]
    BY <1>1, <2>1
  <2> QED BY <2>1, <2>2
<1>3. Told(Head(q)) \subseteq known \/ AskIn(Tail(q), t)
  <2>1. 1 \in 1..Len(q)
    BY <1>1
  <2> QED BY <1>1, <1>2, <2>1, AskInIsAsked
<1>4. ASSUME NEW n \in 1..Len(Tail(q)), ~(Told(Tail(q)[n]) \subseteq known)
      PROVE  \E k \in 1..Len(Tail(q)) : k > n /\ Asks(Tail(q)[k], t)
  <2>1. n + 1 \in 1..Len(q) /\ Tail(q)[n] = q[n + 1] /\ n + 1 - 1 = n
    BY <1>1
  <2> QED BY <1>2, <1>4, <2>1
<1>5. Covered(Tail(q), t, known)
  BY <1>1, <1>4, CoveredIsTold
<1> QED BY <1>3, <1>5

-----------------------------------------------------------------------------
(* What steps leave alone.                                                 *)

Inv == IInv /\ Convergent

LEMMA HonestIsMessage == Honest \subseteq Message /\ Honest' \subseteq Message
BY DEF Honest

LEMMA HonestTyped ==
  ASSUME Inv, NEW s \in Sessions
  PROVE  /\ toServer[s] \in Seq(Honest) /\ toClient[s] \in Seq(Honest)
         /\ handling[s] \in Honest \cup {NoMessage} /\ updates \in Seq(Honest)
BY DEF Inv, Convergent, Honesty

\* Browsers forget nothing while their sessions are open.
LEMMA HonestStays ==
  ASSUME \A u \in Sessions : pc[u] # "unused" =>
           pc'[u] # "unused" /\ (IsOpen(u)' => IsOpen(u) /\ doc[Owner[u]] \subseteq doc'[Owner[u]])
  PROVE  Honest \subseteq Honest' /\ Seq(Honest) \subseteq Seq(Honest')
<1>1. \A m \in Message : m.from \in Sessions
  BY DEF Message
<1>2. Honest \subseteq Honest'
  BY <1>1 DEF Honest
<1>3. \A q \in Seq(Honest) : q \in Seq(Honest')
  BY <1>2, SeqMonotonic
<1> QED BY <1>2, <1>3

LEMMA DifferentOwners ==
  ASSUME NEW s \in Sessions, NEW t \in Sessions, s # t, IsOpen(s), IsOpen(t)
  PROVE  Owner[s] # Owner[t]
BY DEF IsOpen

LEMMA AskStays ==
  ASSUME NEW t, toServer'[t] = toServer[t], handling'[t] = handling[t]
  PROVE  (AskAtServer(t)' <=> AskAtServer(t)) /\ Tells(t)' = Tells(t)
BY DEF AskAtServer, Tells, Contents

LEMMA RememberedBefore ==
  ASSUME NEW t, toServer'[t] = toServer[t], handling'[t] = handling[t],
         AskIn(updates', t) => AskIn(updates, t),
         pc'[t] = "saving" /\ t \in holding' => pc[t] = "saving" /\ t \in holding
  PROVE  Remembered(t)' => Remembered(t)
BY DEF Remembered

LEMMA GetsStays ==
  ASSUME NEW t,
         doc[Owner[t]] \subseteq Gets(t)',
         Contents(toClient[t]) \subseteq Gets(t)',
         t \in sessions => AboutToSend \subseteq Gets(t)'
  PROVE  Gets(t) \subseteq Gets(t)'
BY DEF Gets

LEMMA GetsParts ==
  ASSUME NEW t
  PROVE  /\ doc'[Owner[t]] \subseteq Gets(t)' /\ Contents(toClient'[t]) \subseteq Gets(t)'
         /\ t \in sessions' => AboutToSend' \subseteq Gets(t)'
         /\ doc[Owner[t]] \subseteq Gets(t) /\ Contents(toClient[t]) \subseteq Gets(t)
         /\ t \in sessions => AboutToSend \subseteq Gets(t)
BY DEF Gets

LEMMA GetsMore ==
  ASSUME NEW t,
         doc[Owner[t]] \subseteq doc'[Owner[t]],
         Contents(toClient[t]) \subseteq doc'[Owner[t]] \cup Contents(toClient'[t]),
         t \in sessions => t \in sessions' /\ AboutToSend \subseteq AboutToSend'
  PROVE  Gets(t) \subseteq Gets(t)'
BY GetsStays, GetsParts

\* s receives nothing, and nothing of what t is owed or asks is lost.
LEMMA PairStays ==
  ASSUME NEW s \in Sessions, NEW t \in Sessions,
         HeldIsPassedOn(s, t), SentIsPassedOn(s, t),
         pc[s] \in {"opening", "replaying"} => pc'[s] \in {"opening", "replaying"},
         Remembered(t)' => Remembered(t),
         AskAtServer(t) => AskAtServer(t)',
         toClient'[s] = toClient[s],
         doc'[Owner[s]] \subseteq doc[Owner[s]] \cup Tells(s)',
         Gets(t) \subseteq Gets(t)', Tells(s) \subseteq Tells(s)'
  PROVE  HeldIsPassedOn(s, t)' /\ SentIsPassedOn(s, t)'
<1>1. HeldIsPassedOn(s, t)'
  <2> SUFFICES ASSUME pc'[s] \notin {"opening", "replaying"}, Remembered(t)', ~AskAtServer(t)',
                      ~AskIn(toClient'[s], t)
               PROVE  doc'[Owner[s]] \subseteq Gets(t)' \cup Tells(s)'
    BY DEF HeldIsPassedOn
  <2>1. doc[Owner[s]] \subseteq Gets(t) \cup Tells(s)
    BY DEF HeldIsPassedOn
  <2> QED BY <2>1
<1>2. SentIsPassedOn(s, t)'
  <2>1. CASE AskAtServer(t)
    BY <2>1 DEF SentIsPassedOn
  <2>2. CASE Covered(toClient[s], t, Gets(t))
    <3>1. Covered(toClient[s], t, Gets(t)')
      BY <2>2, CoveredByMore
    <3> QED BY <3>1 DEF SentIsPassedOn
  <2> QED BY <2>1, <2>2 DEF SentIsPassedOn
<1> QED BY <1>1, <1>2

\* Steps of a session that is not open now, or of nobody.
LEMMA PassedOnStays ==
  ASSUME Inv,
         \A t \in Sessions : IsOpen(t)' =>
           /\ IsOpen(t) /\ toClient'[t] = toClient[t]
           /\ pc[t] \in {"opening", "replaying"} => pc'[t] \in {"opening", "replaying"}
           /\ Remembered(t)' => Remembered(t)
           /\ AskAtServer(t) => AskAtServer(t)'
           /\ doc[Owner[t]] \subseteq doc'[Owner[t]]
           /\ doc'[Owner[t]] \subseteq doc[Owner[t]] \cup Tells(t)'
           /\ t \in sessions => t \in sessions'
           /\ Tells(t) \subseteq Tells(t)',
         AboutToSend \subseteq AboutToSend'
  PROVE  PassedOn'
<1> SUFFICES ASSUME NEW s \in Sessions, NEW t \in Sessions, IsOpen(s)', IsOpen(t)', s # t
             PROVE  HeldIsPassedOn(s, t)' /\ SentIsPassedOn(s, t)'
  BY DEF PassedOn
<1>1. HeldIsPassedOn(s, t) /\ SentIsPassedOn(s, t)
  BY DEF Inv, Convergent, PassedOn
<1>2. Gets(t) \subseteq Gets(t)'
  BY GetsMore
<1> QED BY <1>1, <1>2, PairStays

LEMMA OneMessage ==
  ASSUME NEW S, NEW m \in S
  PROVE  << m >> \in Seq(S)
OBVIOUS

LEMMA AskIsFrom ==
  ASSUME NEW s \in Sessions, NEW content \in SUBSET Update
  PROVE  /\ Ask(s, content) \in From(s) /\ Tell(s, content) \in From(s)
         /\ Asks(Ask(s, content), s) /\ \A t : ~Asks(Tell(s, content), t)
BY DEF Ask, Tell, From, Message, Asks

LEMMA TellIsHonest ==
  ASSUME NEW s \in Sessions, NEW content \in SUBSET Update
  PROVE  Tell(s, content) \in Honest'
BY DEF Tell, Message, Honest

-----------------------------------------------------------------------------
(* The browser.                                                            *)

LEMMA ConnectConverges ==
  ASSUME Inv, NEW u \in Sessions, Connect(u)
  PROVE  Convergent'
<1> DEFINE c == Owner[u]
           m == Ask(u, doc[c])
<1>1. /\ pc[u] = "unused" /\ connection[c] = NoSession
      /\ connection' = [connection EXCEPT ![c] = u]
      /\ pc' = [pc EXCEPT ![u] = "opening"]
      /\ toServer' = [toServer EXCEPT ![u] = << m >>]
      /\ UNCHANGED <<doc, edits, toClient, handling, holding, sessions, updates, faults>>
  BY DEF Connect, maps
<1>2. /\ IInv /\ Honesty /\ SentBySelf /\ NothingBeforeOnOpen /\ AsksAfterOnOpen /\ PassedOn
      /\ TypeOK
  BY DEF Inv, Convergent, IInv
<1>3. /\ c \in Clients /\ doc[c] \in SUBSET Update /\ pc \in [Sessions -> Steps]
      /\ connection \in [Clients -> Sessions \cup {NoSession}]
  BY <1>2, Typed DEF TypeOK
<1>4. /\ pc'[u] = "opening" /\ toServer'[u] = << m >>
      /\ \A t \in Sessions \ {u} : pc'[t] = pc[t] /\ toServer'[t] = toServer[t]
      /\ \A t \in Sessions \ {u} : IsOpen(t)' => IsOpen(t)
  BY <1>1, <1>2, <1>3, OwnerAssumption DEF TypeOK, IsOpen
<1>5. m \in From(u) /\ m \in Message /\ Asks(m, u)
  BY <1>3, AskIsFrom, Messages
<1>6. m \in Honest'
  BY <1>1, <1>4, <1>5 DEF Honest, Ask
<1> HIDE DEF m
<1>7. Honest \subseteq Honest' /\ Seq(Honest) \subseteq Seq(Honest')
  BY <1>1, <1>4, HonestStays
<1>8. Honesty'
  <2>1. << m >> \in Seq(Honest')
    BY <1>6, OneMessage
  <2> QED BY <1>1, <1>2, <1>7, <2>1 DEF Honesty
<1>9. SentBySelf'
  <2>1. << m >> \in Seq(From(u))
    BY <1>5, OneMessage
  <2>2. SUFFICES ASSUME NEW t \in Sessions
                 PROVE  toServer'[t] \in Seq(From(t)) /\ handling'[t] \in From(t) \cup {NoMessage}
    BY DEF SentBySelf, From
  <2> QED BY <1>1, <1>2, <1>4, <2>1 DEF SentBySelf
<1>10. NothingBeforeOnOpen'
  BY <1>1, <1>2, <1>4 DEF NothingBeforeOnOpen
<1>11. AskIn(toServer'[u], u)
  <2>1. << m >> = Append(<< >>, m) /\ << >> \in Seq(Message)
    OBVIOUS
  <2> QED BY <1>4, <1>5, <2>1, AskInAppend
<1>12. AsksAfterOnOpen'
  BY <1>2, <1>4, <1>11 DEF AsksAfterOnOpen
<1>13. AboutToSend \subseteq AboutToSend'
  BY <1>1, <1>4, AboutToSendIsTold
<1>14. PassedOn'
  <2> SUFFICES ASSUME NEW s \in Sessions, NEW t \in Sessions, IsOpen(s)', IsOpen(t)', s # t
               PROVE  HeldIsPassedOn(s, t)' /\ SentIsPassedOn(s, t)'
    BY DEF PassedOn
  <2>1. CASE t = u
    <3>1. AskAtServer(u)'
      BY <1>11 DEF AskAtServer
    <3> QED BY <2>1, <3>1 DEF HeldIsPassedOn, SentIsPassedOn
  <2>2. CASE s = u
    <3>1. pc'[u] \in {"opening", "replaying"} /\ toClient'[u] = << >>
      BY <1>1, <1>2, <1>4 DEF NothingBeforeOnOpen
    <3> QED BY <2>2, <3>1, NothingIsCovered DEF HeldIsPassedOn, SentIsPassedOn
  <2>3. CASE s # u /\ t # u
    <3>1. HeldIsPassedOn(s, t) /\ SentIsPassedOn(s, t)
      BY <1>2, <1>4, <2>3 DEF PassedOn
    <3>2. Gets(t) \subseteq Gets(t)'
      BY <1>1, <1>13, GetsMore
    <3>3. (AskAtServer(t)' <=> AskAtServer(t)) /\ (Remembered(t)' => Remembered(t))
      BY <1>1, <1>4, <2>3, AskStays, RememberedBefore
    <3>4. Tells(s)' = Tells(s)
      BY <1>1, <1>4, <2>3, AskStays
    <3> QED BY <1>1, <1>4, <2>3, <3>1, <3>2, <3>3, <3>4, PairStays
  <2> QED BY <2>1, <2>2, <2>3
<1> QED BY <1>8, <1>9, <1>10, <1>12, <1>14 DEF Convergent

LEMMA EditConverges ==
  ASSUME Inv, NEW c \in Clients, Edit(c)
  PROVE  Convergent'
<1> DEFINE new == {<<c, edits[c] + 1>>}
           u == connection[c]
           m == Tell(u, new)
<1>1. /\ edits[c] < MaxEdits[c]
      /\ doc' = [doc EXCEPT ![c] = @ \cup new]
      /\ toServer' = IF u = NoSession THEN toServer
                     ELSE [toServer EXCEPT ![u] = Append(@, m)]
      /\ UNCHANGED <<connection, toClient, pc, handling, holding, sessions, updates, faults>>
  BY DEF Edit, maps
<1>2. /\ IInv /\ Honesty /\ SentBySelf /\ NothingBeforeOnOpen /\ AsksAfterOnOpen /\ PassedOn
      /\ TypeOK
  BY DEF Inv, Convergent, IInv
<1>3. new \in SUBSET Update
  <2>1. edits[c] + 1 \in 1..MaxEdits[c]
    BY <1>1, <1>2, BoundsAssumption DEF TypeOK
  <2> QED BY <2>1, Updates
<1>4. u \in Sessions \cup {NoSession}
  BY <1>2 DEF TypeOK
<1> HIDE DEF new
<1>5. ASSUME u # NoSession
      PROVE  /\ u \in Sessions /\ m \in Message /\ m \in From(u) /\ m \in Honest'
             /\ Told(m) = new /\ \A t : ~Asks(m, t)
  BY <1>3, <1>4, <1>5, Messages, AskIsFrom, TellIsHonest
<1> HIDE DEF m
<1>6. /\ \A d \in Clients : doc[d] \subseteq doc'[d]
      /\ \A d \in Clients \ {c} : doc'[d] = doc[d]
      /\ doc'[c] = doc[c] \cup new
      /\ \A t \in Sessions : IsOpen(t)' <=> IsOpen(t)
  BY <1>1, <1>2 DEF TypeOK, IsOpen
<1>7. \A t \in Sessions : toServer'[t] = IF t = u THEN Append(toServer[t], m) ELSE toServer[t]
  BY <1>1, <1>2, <1>4, OwnerAssumption DEF TypeOK
<1>8. Honest \subseteq Honest' /\ Seq(Honest) \subseteq Seq(Honest')
  BY <1>1, <1>6, OwnerAssumption, HonestStays
<1>9. Honesty'
  <2>1. \A t \in Sessions : toServer'[t] \in Seq(Honest')
    <3> TAKE t \in Sessions
    <3>1. toServer[t] \in Seq(Honest')
      BY <1>2, <1>8 DEF Honesty
    <3>2. CASE t = u
      <4>1. m \in Honest'
        BY <1>5, <3>2, OwnerAssumption
      <4> QED BY <1>7, <3>1, <3>2, <4>1, AppendProperties
    <3> QED BY <1>7, <3>1, <3>2
  <2>2. DOMAIN toServer' = Sessions /\ toServer' = [t \in Sessions |-> toServer'[t]]
    BY <1>1, <1>2 DEF TypeOK
  <2>3. toServer' \in [Sessions -> Seq(Honest')]
    BY <2>1, <2>2
  <2> QED BY <1>1, <1>2, <1>8, <2>3 DEF Honesty
<1>10. SentBySelf'
  <2> SUFFICES ASSUME NEW t \in Sessions
               PROVE  toServer'[t] \in Seq(From(t)) /\ handling'[t] \in From(t) \cup {NoMessage}
    BY DEF SentBySelf, From
  <2>1. toServer[t] \in Seq(From(t)) /\ handling[t] \in From(t) \cup {NoMessage}
    BY <1>2 DEF SentBySelf
  <2>2. CASE t = u
    <3>1. m \in From(t)
      BY <1>5, <2>2, OwnerAssumption
    <3>2. Append(toServer[t], m) \in Seq(From(t))
      BY <2>1, <3>1, AppendProperties
    <3> QED BY <1>1, <1>7, <2>1, <2>2, <3>2
  <2> QED BY <1>1, <1>7, <2>1, <2>2
<1>11. \A t \in Sessions : /\ \A x \in Sessions : AskIn(toServer'[t], x) <=> AskIn(toServer[t], x)
                           /\ Contents(toServer'[t]) =
                                Contents(toServer[t]) \cup (IF t = u THEN new ELSE {})
  <2> TAKE t \in Sessions
  <2>1. CASE t = u
    <3>1. m \in Message /\ Told(m) = new /\ \A x : ~Asks(m, x)
      BY <1>5, <2>1, OwnerAssumption
    <3>2. toServer[t] \in Seq(Message) /\ toServer'[t] = Append(toServer[t], m)
      BY <1>2, <1>7, <2>1, Typed
    <3> QED BY <2>1, <3>1, <3>2, AskInAppend, ContentsOfAppend
  <2> QED BY <1>7, <2>1
<1>12. NothingBeforeOnOpen' /\ AsksAfterOnOpen'
  BY <1>1, <1>2, <1>6, <1>11 DEF NothingBeforeOnOpen, AsksAfterOnOpen
<1>13. AboutToSend \subseteq AboutToSend'
  BY <1>1, AboutToSendIsTold
<1>14. PassedOn'
  <2> SUFFICES ASSUME NEW t \in Sessions, IsOpen(t)'
               PROVE  /\ Remembered(t)' => Remembered(t)
                      /\ AskAtServer(t) => AskAtServer(t)'
                      /\ doc'[Owner[t]] \subseteq doc[Owner[t]] \cup Tells(t)'
                      /\ Tells(t) \subseteq Tells(t)'
    BY <1>1, <1>6, <1>13, OwnerAssumption, PassedOnStays
  <2>1. (Remembered(t)' => Remembered(t)) /\ (AskAtServer(t) => AskAtServer(t)')
    BY <1>1, <1>11 DEF Remembered, AskAtServer
  <2>2. /\ Tells(t) = Contents(toServer[t]) \cup Told(handling[t])
        /\ Tells(t)' = Contents(toServer'[t]) \cup Told(handling'[t])
    BY DEF Tells
  <2>3. Owner[t] = c => t = u
    BY <1>6 DEF IsOpen
  <2>4. Tells(t)' = Tells(t) \cup (IF t = u THEN new ELSE {})
    BY <1>1, <1>11, <2>2
  <2>5. doc'[Owner[t]] \subseteq doc[Owner[t]] \cup Tells(t)'
    BY <1>6, <2>3, <2>4, OwnerAssumption
  <2> QED BY <2>1, <2>4, <2>5
<1> QED BY <1>9, <1>10, <1>12, <1>14 DEF Convergent

LEMMA ReceiveConverges ==
  ASSUME Inv, NEW u \in Sessions, Receive(u)
  PROVE  Convergent'
<1> DEFINE c == Owner[u]
           m == Head(toClient[u])
           missing == doc[c] \ m.content
           answer == Tell(u, missing)
           answers == m.kind = "ask" /\ missing # {}
<1>1. /\ IsOpen(u) /\ toClient[u] # << >>
      /\ toClient' = [toClient EXCEPT ![u] = Tail(@)]
      /\ doc' = [doc EXCEPT ![c] = IF m.kind = "tell" THEN @ \cup m.content ELSE @]
      /\ toServer' = IF answers THEN [toServer EXCEPT ![u] = Append(@, answer)] ELSE toServer
      /\ UNCHANGED <<edits, connection, pc, handling, holding, sessions, updates, faults>>
  BY DEF Receive, maps
<1>2. /\ IInv /\ Honesty /\ SentBySelf /\ NothingBeforeOnOpen /\ AsksAfterOnOpen /\ PassedOn
      /\ TypeOK
  BY DEF Inv, Convergent, IInv
<1>3. c \in Clients /\ doc[c] \in SUBSET Update /\ missing \in SUBSET Update
  BY <1>2, Typed
<1>4. /\ m \in Message /\ m \in Honest /\ Tail(toClient[u]) \in Seq(Message)
      /\ Tail(toClient[u]) \in Seq(Honest)
      /\ Contents(toClient[u]) = Contents(Tail(toClient[u])) \cup Told(m)
  BY <1>1, <1>2, Typed, HonestTyped, HeadTailProperties, ContentsOfTail
<1>5. /\ answer \in Message /\ answer \in From(u) /\ answer \in Honest'
      /\ Told(answer) = missing /\ \A t : ~Asks(answer, t)
  BY <1>3, Messages, AskIsFrom, TellIsHonest
<1>6. doc[c] \subseteq m.content \cup missing
  OBVIOUS
<1> HIDE DEF m, missing, answer
<1>7. /\ doc'[c] = doc[c] \cup Told(m)
      /\ \A d \in Clients \ {c} : doc'[d] = doc[d]
      /\ \A d \in Clients : doc[d] \subseteq doc'[d]
  BY <1>1, <1>2, <1>3 DEF TypeOK, Told
<1>8. /\ toClient'[u] = Tail(toClient[u]) /\ \A t \in Sessions \ {u} : toClient'[t] = toClient[t]
      /\ toServer'[u] = IF answers THEN Append(toServer[u], answer) ELSE toServer[u]
      /\ \A t \in Sessions \ {u} : toServer'[t] = toServer[t]
      /\ \A t \in Sessions : IsOpen(t)' <=> IsOpen(t)
  BY <1>1, <1>2 DEF TypeOK, IsOpen
<1>9. Honest \subseteq Honest' /\ Seq(Honest) \subseteq Seq(Honest')
  BY <1>1, <1>7, <1>8, OwnerAssumption, HonestStays
<1>10. Honesty'
  <2>1. toClient' \in [Sessions -> Seq(Honest')]
    BY <1>1, <1>2, <1>4, <1>9 DEF Honesty
  <2>2. Append(toServer[u], answer) \in Seq(Honest')
    BY <1>2, <1>5, <1>9, AppendProperties DEF Honesty
  <2>3. toServer' \in [Sessions -> Seq(Honest')]
    BY <1>1, <1>2, <1>9, <2>2 DEF Honesty
  <2> QED BY <1>1, <1>2, <1>9, <2>1, <2>3 DEF Honesty
<1>11. SentBySelf'
  <2> SUFFICES ASSUME NEW t \in Sessions
               PROVE  toServer'[t] \in Seq(From(t)) /\ handling'[t] \in From(t) \cup {NoMessage}
    BY DEF SentBySelf, From
  <2>1. toServer[t] \in Seq(From(t)) /\ handling[t] \in From(t) \cup {NoMessage}
    BY <1>2 DEF SentBySelf
  <2>2. CASE t = u
    <3>1. Append(toServer[t], answer) \in Seq(From(t))
      BY <1>5, <2>1, <2>2, AppendProperties
    <3> QED BY <1>1, <1>8, <2>1, <2>2, <3>1
  <2> QED BY <1>1, <1>8, <2>1, <2>2
<1>12. /\ \A x : AskIn(toServer'[u], x) <=> AskIn(toServer[u], x)
       /\ Contents(toServer[u]) \subseteq Contents(toServer'[u])
       /\ m.kind = "ask" => missing \subseteq Contents(toServer'[u])
  <2>1. toServer[u] \in Seq(Message)
    BY <1>2, Typed
  <2>2. /\ \A x : AskIn(Append(toServer[u], answer), x) <=> AskIn(toServer[u], x)
        /\ Contents(Append(toServer[u], answer)) = Contents(toServer[u]) \cup missing
    BY <1>5, <2>1, AskInAppend, ContentsOfAppend
  <2> QED BY <1>8, <2>2
<1>13. NothingBeforeOnOpen' /\ AsksAfterOnOpen'
  <2>1. pc[u] \notin {"unused", "opening"}
    BY <1>1, <1>2 DEF NothingBeforeOnOpen
  <2>2. \A t \in Sessions : AskIn(toServer[t], t) => AskIn(toServer'[t], t)
    BY <1>8, <1>12
  <2> QED BY <1>1, <1>2, <1>8, <2>1, <2>2 DEF NothingBeforeOnOpen, AsksAfterOnOpen
<1>14. \A t \in Sessions : Gets(t) \subseteq Gets(t)'
  <2> TAKE t \in Sessions
  <2>1. AboutToSend \subseteq AboutToSend'
    BY <1>1, AboutToSendIsTold
  <2>2. Contents(toClient[t]) \subseteq doc'[Owner[t]] \cup Contents(toClient'[t])
    BY <1>4, <1>7, <1>8
  <2> QED BY <1>1, <1>7, <2>1, <2>2, OwnerAssumption, GetsMore
<1>15. \A t \in Sessions : (Remembered(t)' <=> Remembered(t)) /\ (AskAtServer(t)' <=> AskAtServer(t))
  BY <1>1, <1>8, <1>12 DEF Remembered, AskAtServer
<1>16. \A t \in Sessions : Tells(t) \subseteq Tells(t)'
  <2>1. \A t \in Sessions : Contents(toServer[t]) \subseteq Contents(toServer'[t])
    BY <1>8, <1>12
  <2> QED BY <1>1, <2>1 DEF Tells
<1>17. PassedOn'
  <2> SUFFICES ASSUME NEW s \in Sessions, NEW t \in Sessions, IsOpen(s)', IsOpen(t)', s # t
               PROVE  HeldIsPassedOn(s, t)' /\ SentIsPassedOn(s, t)'
    BY DEF PassedOn
  <2>1. HeldIsPassedOn(s, t) /\ SentIsPassedOn(s, t) /\ IsOpen(s) /\ IsOpen(t)
    BY <1>2, <1>8 DEF PassedOn
  <2>2. CASE s # u
    <3>1. Owner[s] \in Clients \ {c}
      BY <1>1, <2>1, <2>2, DifferentOwners, OwnerAssumption
    <3> QED BY <1>1, <1>7, <1>8, <1>14, <1>15, <1>16, <2>1, <2>2, <3>1, PairStays
  <2>3. CASE s = u
    <3>1. AskAtServer(t)' \/ Covered(toClient[u], t, Gets(t)')
      BY <1>14, <1>15, <2>1, <2>3, CoveredByMore DEF SentIsPassedOn
    <3>2. toClient[u] \in Seq(Message)
      BY <1>2, Typed
    <3>3. SentIsPassedOn(u, t)'
      BY <1>1, <1>8, <3>1, <3>2, CoveredTail DEF SentIsPassedOn
    <3>4. HeldIsPassedOn(u, t)'
      <4> SUFFICES ASSUME pc'[u] \notin {"opening", "replaying"}, Remembered(t)',
                          ~AskAtServer(t)', ~AskIn(toClient'[u], t)
                   PROVE  doc'[Owner[u]] \subseteq Gets(t)' \cup Tells(u)'
        BY DEF HeldIsPassedOn
      <4>1. Told(m) \subseteq Gets(t)'
        BY <1>1, <1>8, <3>1, <3>2, CoveredTail DEF m
      <4>2. CASE Asks(m, t)
        <5>1. m.content \subseteq doc[Owner[t]] /\ m.kind = "ask"
          BY <1>4, <2>1, <4>2 DEF Honest, Asks
        <5>2. missing \subseteq Tells(u)'
          BY <1>12, <5>1 DEF Tells
        <5>3. doc[Owner[t]] \subseteq Gets(t)'
          BY <1>14, GetsParts
        <5> QED BY <1>6, <1>7, <4>1, <5>1, <5>2, <5>3
      <4>3. CASE ~Asks(m, t)
        <5>1. ~AskIn(toClient[u], t)
          BY <1>1, <1>8, <3>2, <4>3, AskInTail DEF m
        <5>2. doc[Owner[u]] \subseteq Gets(t) \cup Tells(u)
          BY <1>1, <1>15, <2>1, <2>3, <5>1 DEF HeldIsPassedOn
        <5> QED BY <1>7, <1>14, <1>16, <4>1, <5>2
      <4> QED BY <4>2, <4>3
    <3> QED BY <2>3, <3>3, <3>4
  <2> QED BY <2>2, <2>3
<1> QED BY <1>10, <1>11, <1>13, <1>17 DEF Convergent

LEMMA DisconnectConverges ==
  ASSUME Inv, NEW u \in Sessions, Disconnect(u),
         doc' = doc \/ doc' = [doc EXCEPT ![Owner[u]] = {}],
         toServer' = toServer \/ toServer' = [toServer EXCEPT ![u] = << >>]
  PROVE  Convergent'
<1>1. /\ IsOpen(u)
      /\ connection' = [connection EXCEPT ![Owner[u]] = NoSession]
      /\ toClient' = [toClient EXCEPT ![u] = << >>]
      /\ UNCHANGED <<edits, pc, handling, holding, sessions, updates>>
  BY DEF Disconnect, maps
<1>2. /\ IInv /\ Honesty /\ SentBySelf /\ NothingBeforeOnOpen /\ AsksAfterOnOpen /\ PassedOn
      /\ TypeOK /\ Owner[u] \in Clients
  BY Typed DEF Inv, Convergent, IInv
<1>3. \A t \in Sessions : IsOpen(t)' =>
        /\ IsOpen(t) /\ t # u /\ doc'[Owner[t]] = doc[Owner[t]]
        /\ toServer'[t] = toServer[t] /\ toClient'[t] = toClient[t]
  <2> TAKE t \in Sessions
  <2> HAVE IsOpen(t)'
  <2>1. Owner[t] \in Clients /\ connection'[Owner[t]] = t /\ t # NoSession
    BY OwnerAssumption DEF IsOpen
  <2>2. Owner[t] # Owner[u] /\ IsOpen(t)
    BY <1>1, <1>2, <2>1 DEF TypeOK, IsOpen
  <2> QED BY <1>1, <1>2, <2>1, <2>2 DEF TypeOK
<1>4. Honest \subseteq Honest' /\ Seq(Honest) \subseteq Seq(Honest')
  BY <1>1, <1>3, HonestStays
<1>5. \A t \in Sessions : toServer'[t] = toServer[t] \/ toServer'[t] = << >>
  BY <1>2 DEF TypeOK
<1>6. Honesty'
  <2>1. << >> \in Seq(Honest')
    BY EmptySeq
  <2>2. toServer \in [Sessions -> Seq(Honest')] /\ toClient \in [Sessions -> Seq(Honest')]
    BY <1>2, <1>4 DEF Honesty
  <2>3. [toServer EXCEPT ![u] = << >>] \in [Sessions -> Seq(Honest')]
    BY <2>1, <2>2
  <2>4. [toClient EXCEPT ![u] = << >>] \in [Sessions -> Seq(Honest')]
    BY <2>1, <2>2
  <2>5. toServer' \in [Sessions -> Seq(Honest')] /\ toClient' \in [Sessions -> Seq(Honest')]
    BY <1>1, <2>2, <2>3, <2>4, Zenon
  <2> QED BY <1>1, <1>2, <1>4, <2>5 DEF Honesty
<1>7. SentBySelf'
  <2> SUFFICES ASSUME NEW t \in Sessions
               PROVE  toServer'[t] \in Seq(From(t)) /\ handling'[t] \in From(t) \cup {NoMessage}
    BY DEF SentBySelf, From
  <2>1. << >> \in Seq(From(t))
    BY EmptySeq
  <2> QED BY <1>1, <1>2, <1>5, <2>1, Zenon DEF SentBySelf
<1>8. NothingBeforeOnOpen' /\ AsksAfterOnOpen'
  <2>1. \A t \in Sessions : toClient'[t] = toClient[t] \/ toClient'[t] = << >>
    BY <1>1, <1>2 DEF TypeOK
  <2>2. NothingBeforeOnOpen'
    BY <1>1, <1>2, <2>1, Zenon DEF NothingBeforeOnOpen
  <2>3. AsksAfterOnOpen'
    BY <1>1, <1>2, <1>3 DEF AsksAfterOnOpen
  <2> QED BY <2>2, <2>3
<1>9. AboutToSend \subseteq AboutToSend'
  BY <1>1, AboutToSendIsTold
<1>10. PassedOn'
  <2>1. \A t \in Sessions : IsOpen(t)' =>
          /\ AskAtServer(t)' <=> AskAtServer(t)
          /\ Remembered(t)' => Remembered(t)
          /\ Tells(t)' = Tells(t)
    BY <1>1, <1>3, AskStays, RememberedBefore
  <2> QED BY <1>1, <1>3, <1>9, <2>1, PassedOnStays
<1> QED BY <1>6, <1>7, <1>8, <1>10 DEF Convergent

LEMMA CrashConverges ==
  ASSUME Inv, Crash
  PROVE  Convergent'
<1>1. /\ connection' = [c \in Clients |-> NoSession]
      /\ toServer' = [s \in Sessions |-> << >>] /\ toClient' = [s \in Sessions |-> << >>]
      /\ handling' = [s \in Sessions |-> NoMessage]
      /\ sessions' = {} /\ updates' = << >>
  BY DEF Crash
<1>2. \A s \in Sessions : ~IsOpen(s)'
  BY <1>1, OwnerAssumption DEF IsOpen
<1>3. \A S : << >> \in Seq(S)
  BY EmptySeq
<1>4. Honesty'
  BY <1>1, <1>3 DEF Honesty
<1>5. SentBySelf' /\ NothingBeforeOnOpen'
  BY <1>1, <1>3 DEF SentBySelf, NothingBeforeOnOpen
<1>6. AsksAfterOnOpen' /\ PassedOn'
  BY <1>2 DEF AsksAfterOnOpen, PassedOn
<1> QED BY <1>4, <1>5, <1>6 DEF Convergent

-----------------------------------------------------------------------------
(* The server.                                                             *)

\* What the steps of a handler keep of the messages.
LEMMA HandlerKeepsHonest ==
  ASSUME Inv, NEW u \in Sessions, NEW here \in Steps \ {"unused"}, NEW then \in Steps \ {"unused"},
         At(u, here, then)
  PROVE  /\ Honest \subseteq Honest' /\ Seq(Honest) \subseteq Seq(Honest')
         /\ Honesty /\ SentBySelf /\ NothingBeforeOnOpen /\ AsksAfterOnOpen /\ PassedOn
         /\ IInv /\ TypeOK /\ Joined /\ HandlesMessage /\ SentIsHeld
<1>1. IInv
  BY DEF Inv
<1>2. /\ pc'[u] = then /\ \A t \in Sessions \ {u} : pc'[t] = pc[t]
      /\ doc' = doc /\ \A t \in Sessions : IsOpen(t)' <=> IsOpen(t)
  BY <1>1, HandlerStep
<1> QED BY <1>1, <1>2, HonestStays DEF Inv, IInv, Convergent

LEMMA QuietConverges ==
  ASSUME Inv, NEW u \in Sessions, NEW here \in Steps \ {"unused", "saving", "sending"},
         NEW then \in Steps \ {"unused", "opening", "saving", "sending"},
         At(u, here, then),
         UNCHANGED <<toServer, toClient, handling>>,
         updates' = updates \/ updates' = << >>, holding' \subseteq holding,
         \A t \in Sessions \ {u} : t \in sessions' => t \in sessions,
         \A t \in Sessions : IsOpen(t) /\ t \in sessions => t \in sessions',
         IsOpen(u) => here = "opening" /\ then = "replaying"
  PROVE  Convergent'
<1>1. /\ Honest \subseteq Honest' /\ Seq(Honest) \subseteq Seq(Honest')
      /\ Honesty /\ SentBySelf /\ NothingBeforeOnOpen /\ AsksAfterOnOpen /\ PassedOn /\ IInv
  BY HandlerKeepsHonest
<1>2. /\ pc[u] = here /\ pc'[u] = then /\ \A t \in Sessions \ {u} : pc'[t] = pc[t]
      /\ doc' = doc /\ \A t \in Sessions : IsOpen(t)' <=> IsOpen(t)
  BY <1>1, HandlerStep
<1>3. Honesty'
  <2>1. updates' \in Seq(Honest')
    BY <1>1, EmptySeq DEF Honesty
  <2> QED BY <1>1, <2>1 DEF Honesty
<1>4. SentBySelf' /\ NothingBeforeOnOpen' /\ AsksAfterOnOpen'
  BY <1>1, <1>2 DEF SentBySelf, From, NothingBeforeOnOpen, AsksAfterOnOpen
<1>5. AboutToSend \subseteq AboutToSend'
  BY <1>2, AboutToSendIsTold
<1>6. PassedOn'
  <2>1. \A t : AskIn(updates', t) => AskIn(updates, t)
    BY NobodyAsks
  <2>2. \A t \in Sessions : pc'[t] = "saving" /\ t \in holding' => pc[t] = "saving" /\ t \in holding
    BY <1>2
  <2>3. \A t \in Sessions :
          /\ AskAtServer(t)' <=> AskAtServer(t)
          /\ Remembered(t)' => Remembered(t)
          /\ Tells(t)' = Tells(t)
    BY <2>1, <2>2, AskStays, RememberedBefore
  <2> QED BY <1>2, <1>5, <2>3, PassedOnStays
<1> QED BY <1>3, <1>4, <1>6 DEF Convergent

LEMMA OnOpenConverges ==
  ASSUME Inv, NEW u \in Sessions, OnOpen(u)
  PROVE  Convergent'
<1>1. "opening" \in Steps /\ "replaying" \in Steps /\ "idle" \in Steps
  BY DEF Steps
<1>2. CASE At(u, "opening", "replaying") /\ AddSession(u)
  <2>1. /\ sessions' = sessions \cup {u}
        /\ UNCHANGED <<updates, toServer, toClient, handling, holding>>
    BY <1>2 DEF AddSession
  <2> QED BY <1>1, <1>2, <2>1, QuietConverges
<1>3. CASE At(u, "replaying", "idle") /\ ReplayUpdatesTo(u)
  <2>1. /\ toClient' = [toClient EXCEPT ![u] = IF IsOpen(u) THEN @ \o updates ELSE @]
        /\ UNCHANGED <<sessions, updates, toServer, handling, holding>>
    BY <1>3 DEF ReplayUpdatesTo, maps
  <2>2. /\ Honest \subseteq Honest' /\ Seq(Honest) \subseteq Seq(Honest')
        /\ Honesty /\ SentBySelf /\ NothingBeforeOnOpen /\ AsksAfterOnOpen /\ PassedOn
        /\ IInv /\ TypeOK /\ Joined
    BY <1>1, <1>3, HandlerKeepsHonest
  <2>3. /\ pc[u] = "replaying" /\ pc'[u] = "idle" /\ \A t \in Sessions \ {u} : pc'[t] = pc[t]
        /\ doc' = doc /\ \A t \in Sessions : IsOpen(t)' <=> IsOpen(t)
    BY <1>1, <1>3, <2>2, HandlerStep
  <2>4. /\ toClient[u] \in Seq(Message) /\ updates \in Seq(Message)
        /\ toClient'[u] = IF IsOpen(u) THEN toClient[u] \o updates ELSE toClient[u]
        /\ \A t \in Sessions \ {u} : toClient'[t] = toClient[t]
    BY <2>1, <2>2 DEF TypeOK
  <2>5. Honesty'
    <3>1. /\ toClient \in [Sessions -> Seq(Honest')] /\ updates \in Seq(Honest')
          /\ toClient[u] \in Seq(Honest')
      BY <2>2 DEF Honesty
    <3>2. toClient[u] \o updates \in Seq(Honest')
      BY <3>1, ConcatProperties
    <3>3. toClient' \in [Sessions -> Seq(Honest')]
      BY <2>1, <3>1, <3>2
    <3> QED BY <2>1, <2>2, <3>3 DEF Honesty
  <2>6. SentBySelf' /\ NothingBeforeOnOpen' /\ AsksAfterOnOpen'
    BY <2>1, <2>2, <2>3, <2>4 DEF SentBySelf, From, NothingBeforeOnOpen, AsksAfterOnOpen
  <2>7. \A t \in Sessions : Gets(t) \subseteq Gets(t)'
    <3> TAKE t \in Sessions
    <3>1. AboutToSend \subseteq AboutToSend'
      BY <2>1, <2>3, AboutToSendIsTold
    <3>2. Contents(toClient[t]) \subseteq Contents(toClient'[t])
      BY <2>4, ContentsOfConcat
    <3> QED BY <2>1, <2>3, <3>1, <3>2, GetsMore
  <2>8. \A t \in Sessions :
          /\ AskAtServer(t)' <=> AskAtServer(t)
          /\ Remembered(t)' => Remembered(t)
          /\ Tells(t)' = Tells(t)
    BY <2>1, <2>3, AskStays, RememberedBefore
  <2>9. PassedOn'
    <3> SUFFICES ASSUME NEW s \in Sessions, NEW t \in Sessions, IsOpen(s)', IsOpen(t)', s # t
                 PROVE  HeldIsPassedOn(s, t)' /\ SentIsPassedOn(s, t)'
      BY DEF PassedOn
    <3>1. HeldIsPassedOn(s, t) /\ SentIsPassedOn(s, t) /\ IsOpen(s) /\ IsOpen(t)
      BY <2>2, <2>3 DEF PassedOn
    <3>2. CASE s # u
      BY <2>1, <2>3, <2>4, <2>7, <2>8, <3>1, <3>2, PairStays
    <3>3. CASE s = u
      <4>1. toClient'[u] = toClient[u] \o updates
        BY <2>4, <3>1, <3>3
      <4>2. HeldIsPassedOn(u, t)'
        <5>1. Remembered(t) => AskAtServer(t) \/ AskIn(updates, t)
          BY DEF Remembered, AskAtServer
        <5>2. AskIn(updates, t) => AskIn(toClient'[u], t)
          <6>1. AskIn(updates, t) => AskIn(toClient[u] \o updates, t)
            BY <2>4, AskInConcat
          <6> QED BY <4>1, <6>1
        <5> QED BY <2>8, <5>1, <5>2 DEF HeldIsPassedOn
      <4>3. CASE AskAtServer(t)
        BY <2>8, <3>3, <4>2, <4>3 DEF SentIsPassedOn
      <4>4. CASE ~AskAtServer(t)
        <5>1. pc[t] \notin {"opening", "replaying"} /\ t \in sessions
          BY <2>2, <3>1, <4>4 DEF AsksAfterOnOpen, AskAtServer, Joined
        <5>2. Contents(updates) \subseteq doc[Owner[t]] \cup Contents(toClient[t]) \cup AboutToSend
          BY <2>2, <3>1, <5>1 DEF IInv, ReachesEveryone
        <5>3. Contents(updates) \subseteq Gets(t)'
          BY <2>7, <5>1, <5>2, GetsParts
        <5>4. Covered(toClient[u], t, Gets(t)')
          BY <2>7, <3>1, <3>3, <4>4, CoveredByMore DEF SentIsPassedOn
        <5>5. Covered(toClient'[u], t, Gets(t)')
          BY <2>4, <4>1, <5>3, <5>4, CoveredConcat
        <5> QED BY <3>3, <4>2, <5>5 DEF SentIsPassedOn
      <4> QED BY <4>3, <4>4
    <3> QED BY <3>2, <3>3
  <2> QED BY <2>5, <2>6, <2>9 DEF Convergent
<1> QED BY <1>2, <1>3 DEF OnOpen

LEMMA TakeMessageConverges ==
  ASSUME Inv, NEW u \in Sessions, At(u, "idle", "saving"), TakeMessage(u)
  PROVE  Convergent'
<1> DEFINE m == Head(toServer[u])
<1>1. /\ toServer[u] # << >>
      /\ handling' = [handling EXCEPT ![u] = m]
      /\ toServer' = [toServer EXCEPT ![u] = Tail(toServer[u])]
      /\ holding' = holding \cup {u}
      /\ UNCHANGED <<sessions, updates, toClient>>
  BY DEF TakeMessage, maps
<1>2. /\ Honest \subseteq Honest' /\ Seq(Honest) \subseteq Seq(Honest')
      /\ Honesty /\ SentBySelf /\ NothingBeforeOnOpen /\ AsksAfterOnOpen
      /\ IInv /\ TypeOK /\ HandlesMessage
      /\ "idle" \in Steps /\ "saving" \in Steps
  BY HandlerKeepsHonest DEF Steps
<1>3. /\ pc[u] = "idle" /\ pc'[u] = "saving" /\ \A t \in Sessions \ {u} : pc'[t] = pc[t]
      /\ doc' = doc /\ \A t \in Sessions : IsOpen(t)' <=> IsOpen(t)
  BY <1>2, HandlerStep
<1>4. /\ m \in Message /\ m \in Honest /\ m \in From(u)
      /\ Tail(toServer[u]) \in Seq(Honest) /\ Tail(toServer[u]) \in Seq(From(u))
      /\ Contents(toServer[u]) = Contents(Tail(toServer[u])) \cup Told(m)
      /\ AskIn(toServer[u], u) <=> Asks(m, u) \/ AskIn(Tail(toServer[u]), u)
  <2>1. toServer[u] \in Seq(Message) /\ toServer[u] \in Seq(Honest) /\ toServer[u] \in Seq(From(u))
    BY <1>2, Typed DEF Honesty, SentBySelf
  <2> QED BY <1>1, <2>1, HeadTailProperties, ContentsOfTail, AskInTail
<1> HIDE DEF m
<1>5. /\ handling'[u] = m /\ toServer'[u] = Tail(toServer[u]) /\ handling[u] = NoMessage
      /\ \A t \in Sessions \ {u} : handling'[t] = handling[t] /\ toServer'[t] = toServer[t]
  BY <1>1, <1>2, <1>3 DEF TypeOK, HandlesMessage
<1>6. Honesty'
  BY <1>1, <1>2, <1>4 DEF Honesty
<1>7. SentBySelf'
  <2> SUFFICES ASSUME NEW t \in Sessions
               PROVE  toServer'[t] \in Seq(From(t)) /\ handling'[t] \in From(t) \cup {NoMessage}
    BY DEF SentBySelf, From
  <2>1. CASE t = u
    BY <1>4, <1>5, <2>1
  <2>2. CASE t # u
    BY <1>2, <1>5, <2>2 DEF SentBySelf
  <2> QED BY <2>1, <2>2
<1>8. NothingBeforeOnOpen' /\ AsksAfterOnOpen'
  BY <1>1, <1>2, <1>3, <1>5 DEF NothingBeforeOnOpen, AsksAfterOnOpen
<1>9. AboutToSend \subseteq AboutToSend'
  BY <1>3, <1>5, AboutToSendIsTold
<1>10. \A t \in Sessions :
         /\ AskAtServer(t)' <=> AskAtServer(t)
         /\ Remembered(t)' => Remembered(t)
         /\ Tells(t) \subseteq Tells(t)'
  <2> TAKE t \in Sessions
  <2>1. CASE t = u
    <3>1. ~Asks(handling[u], u) /\ Told(handling[u]) = {}
      BY <1>5, NobodyAsks, NothingTold
    <3>2. AskAtServer(u)' <=> AskAtServer(u)
      BY <1>4, <1>5, <3>1 DEF AskAtServer
    <3>3. Remembered(u)' => Remembered(u)
      BY <1>1, <1>4, <1>5 DEF Remembered
    <3>4. Tells(u) \subseteq Tells(u)'
      BY <1>4, <1>5, <3>1 DEF Tells
    <3> QED BY <2>1, <3>2, <3>3, <3>4
  <2>2. CASE t # u
    BY <1>1, <1>3, <1>5, <2>2, AskStays, RememberedBefore
  <2> QED BY <2>1, <2>2
<1>11. PassedOn'
  BY <1>1, <1>3, <1>9, <1>10, PassedOnStays
<1> QED BY <1>6, <1>7, <1>8, <1>11 DEF Convergent

LEMMA SaveMessageConverges ==
  ASSUME Inv, NEW u \in Sessions, At(u, "saving", "sending"), SaveMessage(u)
  PROVE  Convergent'
<1> DEFINE m == handling[u]
<1>1. /\ updates' = IF u \in holding THEN Retained(Append(updates, m)) ELSE updates
      /\ holding' = holding \ {u}
      /\ UNCHANGED <<sessions, toServer, toClient, handling>>
  BY DEF SaveMessage
<1>2. /\ Honest \subseteq Honest' /\ Seq(Honest) \subseteq Seq(Honest')
      /\ Honesty /\ SentBySelf /\ NothingBeforeOnOpen /\ AsksAfterOnOpen
      /\ IInv /\ HandlesMessage
      /\ "sending" \in Steps /\ "saving" \in Steps
  BY HandlerKeepsHonest DEF Steps
<1>3. /\ pc[u] = "saving" /\ pc'[u] = "sending" /\ \A t \in Sessions \ {u} : pc'[t] = pc[t]
      /\ doc' = doc /\ \A t \in Sessions : IsOpen(t)' <=> IsOpen(t)
  BY <1>2, HandlerStep
<1>4. m \in Message /\ m \in Honest /\ m.from = u /\ updates \in Seq(Message)
  <2>1. m \in Message
    BY <1>2, <1>3 DEF HandlesMessage
  <2>2. m # NoMessage
    <3>1. m.kind \in {"ask", "tell"}
      BY <2>1 DEF Message
    <3>2. NoMessage.kind = "none"
      BY DEF NoMessage
    <3> QED BY <3>1, <3>2
  <2>3. m \in Honest /\ m \in From(u)
    BY <1>2, <2>2 DEF Honesty, SentBySelf
  <2> QED BY <1>2, <2>1, <2>3, Typed DEF From
<1> HIDE DEF m
<1>5. /\ updates' \in Seq(Honest')
      /\ \A t : AskIn(updates', t) => AskIn(updates, t) \/ (u \in holding /\ Asks(m, t))
  <2>1. Append(updates, m) \in Seq(Honest)
    BY <1>2, <1>4, AppendProperties DEF Honesty
  <2>2. /\ Retained(Append(updates, m)) \in Seq(Honest)
        /\ \A t : AskIn(Retained(Append(updates, m)), t) => AskIn(Append(updates, m), t)
    BY <2>1, HonestIsMessage, RetainedIsPart
  <2>3. \A t : AskIn(Append(updates, m), t) => AskIn(updates, t) \/ Asks(m, t)
    BY <1>4, AskInAppend
  <2>4. updates \in Seq(Honest)
    BY <1>2 DEF Honesty
  <2> QED BY <1>1, <1>2, <2>2, <2>3, <2>4
<1>6. Honesty'
  BY <1>1, <1>2, <1>5 DEF Honesty
<1>7. SentBySelf' /\ NothingBeforeOnOpen' /\ AsksAfterOnOpen'
  BY <1>1, <1>2, <1>3 DEF SentBySelf, From, NothingBeforeOnOpen, AsksAfterOnOpen
<1>8. AboutToSend \subseteq AboutToSend'
  BY <1>1, <1>3, AboutToSendIsTold
<1>9. \A t \in Sessions :
        /\ AskAtServer(t)' <=> AskAtServer(t)
        /\ Remembered(t)' => Remembered(t)
        /\ Tells(t)' = Tells(t)
  <2> TAKE t \in Sessions
  <2>1. CASE t = u
    <3>1. Remembered(u)' => Remembered(u)
      BY <1>1, <1>3, <1>5 DEF Remembered, m
    <3> QED BY <1>1, <2>1, <3>1, AskStays
  <2>2. CASE t # u
    <3>1. ~Asks(m, t)
      BY <1>4, <2>2 DEF Asks
    <3> QED BY <1>1, <1>3, <1>5, <2>2, <3>1, AskStays, RememberedBefore
  <2> QED BY <2>1, <2>2
<1>10. PassedOn'
  BY <1>1, <1>3, <1>8, <1>9, PassedOnStays
<1> QED BY <1>6, <1>7, <1>10 DEF Convergent

LEMMA BroadcastConverges ==
  ASSUME Inv, NEW u \in Sessions, At(u, "sending", "idle"), BroadcastToOthers(u)
  PROVE  Convergent'
<1> DEFINE m == handling[u]
<1>1. /\ toClient' = [t \in Sessions |->
                        IF t \in sessions \ {u} /\ IsOpen(t)
                        THEN Append(toClient[t], m) ELSE toClient[t]]
      /\ handling' = [handling EXCEPT ![u] = NoMessage]
      /\ UNCHANGED <<sessions, updates, toServer, holding>>
  BY DEF BroadcastToOthers, maps
<1>2. /\ Honest \subseteq Honest' /\ Seq(Honest) \subseteq Seq(Honest')
      /\ Honesty /\ SentBySelf /\ NothingBeforeOnOpen /\ AsksAfterOnOpen /\ PassedOn
      /\ IInv /\ TypeOK /\ HandlesMessage /\ SentIsHeld /\ Joined
      /\ "sending" \in Steps /\ "idle" \in Steps
  BY HandlerKeepsHonest DEF Steps
<1>3. /\ pc[u] = "sending" /\ pc'[u] = "idle" /\ \A t \in Sessions \ {u} : pc'[t] = pc[t]
      /\ doc' = doc /\ \A t \in Sessions : IsOpen(t)' <=> IsOpen(t)
  BY <1>2, HandlerStep
<1>4. m \in Message /\ m \in Honest /\ m.from = u
  <2>1. m \in Message
    BY <1>2, <1>3 DEF HandlesMessage
  <2>2. m # NoMessage
    <3>1. m.kind \in {"ask", "tell"}
      BY <2>1 DEF Message
    <3>2. NoMessage.kind = "none"
      BY DEF NoMessage
    <3> QED BY <3>1, <3>2
  <2>3. m \in Honest /\ m \in From(u)
    BY <1>2, <2>2 DEF Honesty, SentBySelf
  <2> QED BY <2>1, <2>3 DEF From
<1>5. \A t : Asks(m, t) => t = u
  BY <1>4 DEF Asks
<1> HIDE DEF m
<1>6. /\ handling'[u] = NoMessage /\ \A t \in Sessions \ {u} : handling'[t] = handling[t]
      /\ \A t \in Sessions : toClient'[t] = IF t \in sessions \ {u} /\ IsOpen(t)
                                            THEN Append(toClient[t], m) ELSE toClient[t]
      /\ \A t \in Sessions : toClient[t] \in Seq(Message)
  BY <1>1, <1>2 DEF TypeOK
<1>7. Honesty'
  <2>1. \A t \in Sessions : toClient'[t] \in Seq(Honest')
    <3> TAKE t \in Sessions
    <3>1. toClient[t] \in Seq(Honest') /\ m \in Honest'
      BY <1>2, <1>4 DEF Honesty
    <3>2. Append(toClient[t], m) \in Seq(Honest')
      BY <3>1, AppendProperties
    <3> QED BY <1>6, <3>1, <3>2
  <2>2. DOMAIN toClient' = Sessions /\ toClient' = [t \in Sessions |-> toClient'[t]]
    BY <1>1
  <2>3. toClient' \in [Sessions -> Seq(Honest')]
    BY <2>1, <2>2
  <2> QED BY <1>1, <1>2, <2>3 DEF Honesty
<1>8. SentBySelf'
  <2> SUFFICES ASSUME NEW t \in Sessions
               PROVE  toServer'[t] \in Seq(From(t)) /\ handling'[t] \in From(t) \cup {NoMessage}
    BY DEF SentBySelf, From
  <2> QED BY <1>1, <1>2, <1>6 DEF SentBySelf
<1>9. NothingBeforeOnOpen' /\ AsksAfterOnOpen'
  BY <1>1, <1>2, <1>3, <1>6 DEF NothingBeforeOnOpen, AsksAfterOnOpen
<1>10. \A t \in Sessions : /\ Contents(toClient[t]) \subseteq Contents(toClient'[t])
                           /\ t \in sessions \ {u} /\ IsOpen(t) =>
                                Told(m) \subseteq Contents(toClient'[t])
                           /\ \A x : AskIn(toClient[t], x) => AskIn(toClient'[t], x)
                           /\ \A x : t \in sessions \ {u} /\ IsOpen(t) /\ Asks(m, x) =>
                                AskIn(toClient'[t], x)
  <2> TAKE t \in Sessions
  <2>1. /\ Contents(Append(toClient[t], m)) = Contents(toClient[t]) \cup Told(m)
        /\ \A x : AskIn(Append(toClient[t], m), x) <=> AskIn(toClient[t], x) \/ Asks(m, x)
    BY <1>4, <1>6, ContentsOfAppend, AskInAppend
  <2>2. CASE t \in sessions \ {u} /\ IsOpen(t)
    <3>1. toClient'[t] = Append(toClient[t], m)
      BY <1>6, <2>2
    <3> QED BY <2>1, <3>1
  <2>3. CASE ~(t \in sessions \ {u} /\ IsOpen(t))
    <3>1. toClient'[t] = toClient[t]
      BY <1>6, <2>3
    <3> QED BY <2>3, <3>1
  <2> QED BY <2>2, <2>3
\* Whoever is open has the message, or asks later.
<1>11. \A t \in Sessions : IsOpen(t) => AskAtServer(t)' \/ Told(m) \subseteq Gets(t)'
  <2> SUFFICES ASSUME NEW t \in Sessions, IsOpen(t)
               PROVE  AskAtServer(t)' \/ Told(m) \subseteq Gets(t)'
    OBVIOUS
  <2>1. CASE t = u
    <3>1. Told(m) \subseteq doc'[Owner[t]]
      BY <1>2, <1>3, <2>1 DEF SentIsHeld, m
    <3> QED BY <3>1, GetsParts
  <2>2. CASE t # u /\ t \in sessions
    BY <1>10, <2>2, GetsParts
  <2>3. CASE t # u /\ t \notin sessions
    <3>1. AskIn(toServer'[t], t)
      BY <1>1, <1>2, <2>3 DEF Joined, AsksAfterOnOpen
    <3> QED BY <3>1 DEF AskAtServer
  <2> QED BY <2>1, <2>2, <2>3
<1>12. \A t \in Sessions : IsOpen(t) => Gets(t) \subseteq Gets(t)'
  <2> SUFFICES ASSUME NEW t \in Sessions, IsOpen(t)
               PROVE  Gets(t) \subseteq Gets(t)'
    OBVIOUS
  <2>1. t \in sessions => Told(m) \subseteq Gets(t)'
    <3>1. CASE t = u
      <4>1. Told(m) \subseteq doc'[Owner[t]]
        BY <1>2, <1>3, <3>1 DEF SentIsHeld, m
      <4> QED BY <4>1, GetsParts
    <3>2. CASE t # u
      BY <1>10, <3>2, GetsParts
    <3> QED BY <3>1, <3>2
  <2>2. AboutToSend \subseteq AboutToSend' \cup Told(m)
    BY <1>3, <1>6, AboutToSendIsTold DEF m
  <2>3. /\ doc[Owner[t]] \subseteq Gets(t)' /\ Contents(toClient[t]) \subseteq Gets(t)'
        /\ t \in sessions => AboutToSend \subseteq Gets(t)'
    BY <1>1, <1>3, <1>10, <2>1, <2>2, GetsParts
  <2> QED BY <2>3, GetsStays
<1>13. \A t \in Sessions :
         /\ Remembered(t)' => Remembered(t)
         /\ AskAtServer(t) => AskAtServer(t)' \/ Asks(m, t)
         /\ Tells(t) \subseteq Tells(t)' \cup (IF t = u THEN Told(m) ELSE {})
  <2> TAKE t \in Sessions
  <2>1. CASE t = u
    <3>1. Remembered(u)' => Remembered(u)
      BY <1>1, <1>3 DEF Remembered
    <3>2. AskAtServer(u) => AskAtServer(u)' \/ Asks(m, u)
      BY <1>1 DEF AskAtServer, m
    <3>3. Tells(u) \subseteq Tells(u)' \cup Told(m)
      BY <1>1 DEF Tells, m
    <3> QED BY <2>1, <3>1, <3>2, <3>3
  <2>2. CASE t # u
    BY <1>1, <1>3, <1>6, <2>2, AskStays, RememberedBefore
  <2> QED BY <2>1, <2>2
<1>14. PassedOn'
  <2> SUFFICES ASSUME NEW s \in Sessions, NEW t \in Sessions, IsOpen(s)', IsOpen(t)', s # t
               PROVE  HeldIsPassedOn(s, t)' /\ SentIsPassedOn(s, t)'
    BY DEF PassedOn
  <2>1. HeldIsPassedOn(s, t) /\ SentIsPassedOn(s, t) /\ IsOpen(s) /\ IsOpen(t)
    BY <1>2, <1>3 DEF PassedOn
  <2>2. HeldIsPassedOn(s, t)'
    <3> SUFFICES ASSUME pc'[s] \notin {"opening", "replaying"}, Remembered(t)', ~AskAtServer(t)',
                        ~AskIn(toClient'[s], t)
                 PROVE  doc'[Owner[s]] \subseteq Gets(t)' \cup Tells(s)'
      BY DEF HeldIsPassedOn
    <3>1. pc[s] \notin {"opening", "replaying"}
      BY <1>3
    <3>2. ~Asks(m, t)
      <4>1. s \in sessions
        BY <1>2, <2>1, <3>1 DEF Joined
      <4> QED BY <1>5, <1>10, <2>1, <4>1
    <3>3. doc[Owner[s]] \subseteq Gets(t) \cup Tells(s)
      BY <1>10, <1>13, <2>1, <3>1, <3>2 DEF HeldIsPassedOn
    <3>4. Told(m) \subseteq Gets(t)'
      BY <1>11, <2>1
    <3> QED BY <1>3, <1>12, <1>13, <2>1, <3>3, <3>4
  <2>3. SentIsPassedOn(s, t)'
    <3> SUFFICES ASSUME ~AskAtServer(t)'
                 PROVE  Covered(toClient'[s], t, Gets(t)')
      BY DEF SentIsPassedOn
    <3>1. CASE Asks(m, t)
      <4>1. s # u
        BY <1>5, <3>1
      <4>2. CASE s \in sessions
        <5>1. toClient'[s] = Append(toClient[s], m)
          BY <1>6, <2>1, <4>1, <4>2
        <5>2. Covered(Append(toClient[s], m), t, Gets(t)')
          BY <1>4, <1>6, <3>1, CoveredByAsk
        <5> QED BY <5>1, <5>2
      <4>3. CASE s \notin sessions
        <5>1. toClient'[s] = << >>
          BY <1>2, <1>6, <2>1, <4>3 DEF Joined, NothingBeforeOnOpen
        <5>2. Covered(<< >>, t, Gets(t)')
          BY NothingIsCovered
        <5> QED BY <5>1, <5>2
      <4> QED BY <4>2, <4>3
    <3>2. CASE ~Asks(m, t)
      <4>1. Covered(toClient[s], t, Gets(t))
        BY <1>13, <2>1, <3>2 DEF SentIsPassedOn
      <4>2. Covered(toClient[s], t, Gets(t)')
        BY <1>12, <2>1, <4>1, CoveredByMore
      <4>3. Told(m) \subseteq Gets(t)'
        BY <1>11, <2>1
      <4>4. Covered(Append(toClient[s], m), t, Gets(t)')
        BY <1>4, <1>6, <4>2, <4>3, CoveredAppend
      <4> QED BY <1>6, <4>2, <4>4
    <3> QED BY <3>1, <3>2
  <2> QED BY <2>2, <2>3
<1> QED BY <1>7, <1>8, <1>9, <1>14 DEF Convergent

LEMMA OnCloseConverges ==
  ASSUME Inv, NEW u \in Sessions, OnClose(u)
  PROVE  Convergent'
<1>1. /\ "idle" \in Steps /\ "checking" \in Steps /\ "dropping" \in Steps /\ "closed" \in Steps
      /\ Joined /\ TypeOK
  BY DEF Steps, Inv, IInv
<1>2. CASE At(u, "idle", "checking") /\ RemoveSession(u)
  <2>1. /\ ~IsOpen(u) /\ sessions' = sessions \ {u}
        /\ UNCHANGED <<updates, toServer, toClient, handling, holding>>
    BY <1>2 DEF RemoveSession
  <2> QED BY <1>1, <1>2, <2>1, QuietConverges
<1>3. ASSUME NEW then \in {"dropping", "closed"}, At(u, "checking", then),
             UNCHANGED <<maps, toServer, toClient, handling, holding>>
      PROVE  Convergent'
  <2>1. ~IsOpen(u)
    BY <1>1, <1>3 DEF At, Joined
  <2>2. UNCHANGED <<sessions, updates, toServer, toClient, handling, holding>>
    BY <1>3 DEF maps
  <2> QED BY <1>1, <1>3, <2>1, <2>2, QuietConverges
<1>4. CASE At(u, "dropping", "closed") /\ DropUpdates(u)
  <2>1. ~IsOpen(u)
    BY <1>1, <1>4 DEF At, Joined
  <2>2. /\ updates' = << >> /\ holding' = {}
        /\ UNCHANGED <<sessions, toServer, toClient, handling>>
    BY <1>4 DEF DropUpdates
  <2> QED BY <1>1, <1>4, <2>1, <2>2, QuietConverges
<1> QED BY <1>2, <1>3, <1>4 DEF OnClose

-----------------------------------------------------------------------------
(* The theorems.                                                           *)

LEMMA InitConverges == Init => Convergent
<1> SUFFICES ASSUME Init PROVE Convergent
  OBVIOUS
<1>1. \A S : << >> \in Seq(S)
  BY EmptySeq
<1>2. \A s \in Sessions : ~IsOpen(s)
  BY OwnerAssumption DEF Init, IsOpen
<1>3. Honesty
  BY <1>1 DEF Init, Honesty
<1>4. SentBySelf /\ NothingBeforeOnOpen
  BY <1>1 DEF Init, SentBySelf, NothingBeforeOnOpen
<1>5. AsksAfterOnOpen /\ PassedOn
  BY <1>2 DEF AsksAfterOnOpen, PassedOn
<1> QED BY <1>3, <1>4, <1>5 DEF Convergent

LEMMA StutterConverges ==
  ASSUME Inv, UNCHANGED vars
  PROVE  Convergent'
<1>1. UNCHANGED <<doc, edits, connection, toServer, toClient, pc, handling, holding,
                  sessions, updates, faults>>
  BY DEF vars, browsers, maps
<1>2. Honesty /\ SentBySelf /\ NothingBeforeOnOpen /\ AsksAfterOnOpen
  BY DEF Inv, Convergent
<1>3. \A t \in Sessions : IsOpen(t)' <=> IsOpen(t)
  BY <1>1 DEF IsOpen
<1>4. Honest \subseteq Honest' /\ Seq(Honest) \subseteq Seq(Honest')
  BY <1>1, <1>3, HonestStays
<1>5. Honesty'
  BY <1>1, <1>2, <1>4 DEF Honesty
<1>6. SentBySelf' /\ NothingBeforeOnOpen' /\ AsksAfterOnOpen'
  BY <1>1, <1>2, <1>3 DEF SentBySelf, From, NothingBeforeOnOpen, AsksAfterOnOpen
<1>7. AboutToSend \subseteq AboutToSend'
  BY <1>1, AboutToSendIsTold
<1>8. PassedOn'
  <2>1. \A t \in Sessions :
          /\ AskAtServer(t)' <=> AskAtServer(t)
          /\ Remembered(t)' => Remembered(t)
          /\ Tells(t)' = Tells(t)
    BY <1>1, AskStays, RememberedBefore
  <2> QED BY <1>1, <1>3, <1>7, <2>1, PassedOnStays
<1> QED BY <1>5, <1>6, <1>8 DEF Convergent

LEMMA NextConverges ==
  ASSUME Inv, [Next]_vars
  PROVE  Inv'
<1>1. SUFFICES Convergent'
  BY NextIsGood DEF Inv
<1>2. ASSUME NEW c \in Clients, Edit(c) PROVE Convergent'
  BY <1>2, EditConverges
<1>3. ASSUME NEW s \in Sessions, Connect(s) PROVE Convergent'
  BY <1>3, ConnectConverges
<1>4. ASSUME NEW s \in Sessions, Receive(s) PROVE Convergent'
  BY <1>4, ReceiveConverges
<1>5. ASSUME NEW s \in Sessions, LoseConnection(s) PROVE Convergent'
  BY <1>5, DisconnectConverges DEF LoseConnection
<1>6. ASSUME NEW s \in Sessions, CloseTab(s) PROVE Convergent'
  BY <1>6, DisconnectConverges DEF CloseTab
<1>7. ASSUME NEW s \in Sessions, OnBinary(s) PROVE Convergent'
  BY <1>7, TakeMessageConverges, SaveMessageConverges, BroadcastConverges DEF OnBinary
<1>8. ASSUME NEW s \in Sessions, Handler(s) PROVE Convergent'
  BY <1>7, <1>8, OnOpenConverges, OnCloseConverges DEF Handler
<1>9. CASE Crash
  BY <1>9, CrashConverges
<1>10. CASE UNCHANGED vars
  BY <1>10, StutterConverges
<1> QED BY <1>2, <1>3, <1>4, <1>5, <1>6, <1>8, <1>9, <1>10 DEF Next

\* Whatever breaks and however the handlers interleave: what a connected browser
\* holds, every other one whose question is remembered holds or gets.
THEOREM NotesConverge == Spec => []Convergent
<1>1. Init => Inv
  BY InitIsGood, InitConverges DEF Inv
<1>2. Inv /\ [Next]_vars => Inv'
  BY NextConverges
<1>3. Inv => Convergent
  BY DEF Inv
<1> QED BY <1>1, <1>2, <1>3, PTL DEF Spec

\* At rest nothing is on its way and nothing is left to answer: what remains of
\* Convergent is that each holds what the other does.
LEMMA ConvergentAgrees ==
  ASSUME Inv
  PROVE  AnnouncedAgree
<1> SUFFICES ASSUME AtRest, \A s \in Sessions : IsOpen(s) => Announced(s)
             PROVE  Agree
  BY DEF AnnouncedAgree
<1>1. IInv /\ PassedOn /\ HandlesMessage
  BY DEF Inv, IInv, Convergent
<1>2. ASSUME NEW s \in Sessions, NEW t \in Sessions, IsOpen(s), IsOpen(t), s # t
      PROVE  doc[Owner[s]] \subseteq doc[Owner[t]]
  <2>1. \A u \in Sessions : /\ toServer[u] = << >> /\ toClient[u] = << >>
                            /\ pc[u] \notin {"opening", "replaying", "saving", "sending"}
                            /\ handling[u] = NoMessage
    BY <1>1 DEF AtRest, HandlesMessage
  <2>2. AboutToSend = {}
    BY <2>1, AboutToSendIsTold
  <2>3. Gets(t) \subseteq doc[Owner[t]]
    BY <2>1, <2>2, ContentsOfNothing DEF Gets
  <2>4. Tells(s) = {}
    BY <2>1, ContentsOfNothing, NothingTold DEF Tells
  <2>5. ~AskAtServer(t) /\ ~AskIn(toClient[s], t)
    BY <2>1, NobodyAsks DEF AskAtServer
  <2>6. Remembered(t)
    BY <1>2 DEF Announced, Remembered, AskIn, Asks
  <2>7. HeldIsPassedOn(s, t)
    BY <1>1, <1>2 DEF PassedOn
  <2> QED BY <2>1, <2>3, <2>4, <2>5, <2>6, <2>7 DEF HeldIsPassedOn
<1> QED BY <1>2 DEF Agree

\* Connected browsers whose questions the server remembers hold the same
\* document whenever the note is at rest, for every number of them.
THEOREM BrowsersAgree == Spec => []AnnouncedAgree
<1>1. Init => Inv
  BY InitIsGood, InitConverges DEF Inv
<1>2. Inv /\ [Next]_vars => Inv'
  BY NextConverges
<1>3. Inv => AnnouncedAgree
  BY ConvergentAgrees
<1> QED BY <1>1, <1>2, <1>3, PTL DEF Spec

=============================================================================
