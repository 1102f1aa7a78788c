-------------------------- MODULE NotePresenceProofs --------------------------
(***************************************************************************)
(* What holds of the presence at a note for any number of tabs, renewals   *)
(* and faults: nobody is ahead of a tab about itself, a tab follows the    *)
(* smallest client it sees, a removed state comes back only with a newer   *)
(* clock, and without a fault nobody is lost from sight.                   *)
(***************************************************************************)
EXTENDS NotePresence, SequenceTheorems, WellFoundedInduction, TLAPS

\* What each client says of itself, and the clients that will say nothing more.
Own  == [c \in Clients |-> clocks[c][c]]
Gone == {c \in Clients : tab[c] = "closed"}

\* A message says one thing of a client, and nothing the client has not said.
Believable(own) ==
  {m \in Message : /\ \A e, f \in m.entries : e.client = f.client => e = f
                   /\ \A e \in m.entries : e.clock <= own[e.client]}

\* A message that removes nobody and brings nobody back who has left.
Harmless(gone) ==
  {m \in Message : \A e \in m.entries : e.present /\ e.client \notin gone}

Carries(S) ==
  /\ toServer \in [Clients -> Seq(S)]
  /\ toClient \in [Clients -> Seq(S)]
  /\ channel \in [Clients -> Seq(S)]

TabsOK ==
  /\ DOMAIN browser = Clients
  /\ tab \in [Clients -> TabStates]
  /\ wsconnected \subseteq OpenTabs
  /\ faults \in 0..MaxFaults

AwarenessOK ==
  /\ states \in [Clients -> SUBSET Clients]
  /\ clocks \in [Clients -> [Clients -> Nat]]
  /\ \A c \in Clients : \A d \in states[c] : clocks[c][d] # 0
  /\ \A c, d \in Clients : clocks[d][c] <= clocks[c][c]

LeadershipOK ==
  /\ leaderClientId \in [Clients -> Clients \cup {NoClient}]
  /\ snapshotTimer \in [Clients -> BOOLEAN]

\* A tab that has not been opened knows nobody.
UnopenedKnowNobody ==
  \A c \in Clients : tab[c] = "unopened" =>
    states[c] = {} /\ clocks[c][c] = 0 /\ leaderClientId[c] = NoClient

\* Without a fault nobody is gone, or said to be.
Peaceful ==
  faults = 0 => Carries(Harmless(Gone)) /\ \A c \in Clients : states[c] \cap Gone = {}

IInv ==
  /\ TabsOK /\ AwarenessOK /\ LeadershipOK
  /\ FollowsSmallestSeen
  /\ UnopenedKnowNobody
  /\ Carries(Believable(Own))
  /\ Peaceful

-----------------------------------------------------------------------------
(* Clients and messages.                                                   *)

LEMMA SmallestIsMember ==
  ASSUME NEW S \in SUBSET Clients, S # {}
  PROVE  /\ Smallest(S) \in S
         /\ Smallest(S) # NoClient
<1>1. PICK x \in S : \A y \in S : <<y, x>> \notin OpToRel(<, Nat)
  BY WFMin, NatLessThanWellFounded, ClientAssumption
<1>2. \A y \in S : ~(y < x)
  BY <1>1, ClientAssumption DEF OpToRel
<1>3. \A y \in S : x <= y
  BY <1>2, ClientAssumption
<1>4. Smallest(S) \in S
  BY <1>3 DEF Smallest
<1> QED BY <1>4, ClientAssumption

LEMMA EntryIsEntry ==
  ASSUME NEW d \in Clients, NEW n \in Nat, NEW b \in BOOLEAN
  PROVE  [client |-> d, clock |-> n, present |-> b] \in Entry
BY DEF Entry

LEMMA UpdateIsBelievable ==
  ASSUME NEW told \in SUBSET Clients, NEW known \in SUBSET Clients,
         NEW clock \in [Clients -> Nat], NEW own \in [Clients -> Nat],
         \A d \in told : clock[d] <= own[d]
  PROVE  AwarenessUpdate(told, known, clock) \in Seq(Believable(own))
<1> DEFINE m == [kind |-> "awareness",
                 entries |-> {[client |-> d, clock |-> clock[d], present |-> d \in known] : d \in told}]
<1>1. \A d \in told : [client |-> d, clock |-> clock[d], present |-> d \in known] \in Entry
  <2> TAKE d \in told
  <2>1. d \in Clients /\ clock[d] \in Nat
    OBVIOUS
  <2>2. (d \in known) \in BOOLEAN
    OBVIOUS
  <2> QED BY <2>1, <2>2, EntryIsEntry, Zenon
<1>2. m.entries \in SUBSET Entry /\ m.kind \in {"awareness", "query"}
  BY <1>1
<1>3. m \in Message
  BY <1>2 DEF Message
<1>4. \A e \in m.entries : \E d \in told :
        e = [client |-> d, clock |-> clock[d], present |-> d \in known]
  OBVIOUS
<1>5. \A e, f \in m.entries : e.client = f.client => e = f
  <2> TAKE e \in m.entries, f \in m.entries
  <2> HAVE e.client = f.client
  <2>1. PICK d \in told : e = [client |-> d, clock |-> clock[d], present |-> d \in known]
    BY <1>4
  <2>2. PICK g \in told : f = [client |-> g, clock |-> clock[g], present |-> g \in known]
    BY <1>4
  <2>3. e.client = d /\ f.client = g
    BY <2>1, <2>2, Zenon
  <2> QED BY <2>1, <2>2, <2>3, Zenon
<1>6. \A e \in m.entries : e.clock <= own[e.client]
  BY <1>4
<1>7. m \in Believable(own)
  BY <1>3, <1>5, <1>6 DEF Believable
<1>8. << m >> \in Seq(Believable(own)) /\ << >> \in Seq(Believable(own))
  BY <1>7
<1> QED BY <1>8, Zenon DEF AwarenessUpdate

LEMMA UpdateIsHarmless ==
  ASSUME NEW told \in SUBSET Clients, NEW known \in SUBSET Clients,
         NEW clock \in [Clients -> Nat], NEW gone,
         told \subseteq known, told \cap gone = {}
  PROVE  AwarenessUpdate(told, known, clock) \in Seq(Harmless(gone))
<1> DEFINE m == [kind |-> "awareness",
                 entries |-> {[client |-> d, clock |-> clock[d], present |-> d \in known] : d \in told}]
<1>1. \A d \in told : [client |-> d, clock |-> clock[d], present |-> d \in known] \in Entry
  <2> TAKE d \in told
  <2>1. d \in Clients /\ clock[d] \in Nat
    OBVIOUS
  <2>2. (d \in known) \in BOOLEAN
    OBVIOUS
  <2> QED BY <2>1, <2>2, EntryIsEntry, Zenon
<1>2. m.entries \in SUBSET Entry /\ m.kind \in {"awareness", "query"}
  BY <1>1
<1>3. m \in Message
  BY <1>2 DEF Message
<1>4. \A e \in m.entries : e.present /\ e.client \notin gone
  <2> TAKE e \in m.entries
  <2>1. PICK d \in told : e = [client |-> d, clock |-> clock[d], present |-> d \in known]
    OBVIOUS
  <2>2. e.client = d /\ (e.present <=> d \in known)
    BY <2>1, Zenon
  <2> QED BY <2>2, Zenon
<1>5. m \in Harmless(gone)
  BY <1>3, <1>4, Zenon DEF Harmless
<1>6. << m >> \in Seq(Harmless(gone)) /\ << >> \in Seq(Harmless(gone))
  BY <1>5
<1> QED BY <1>6, Zenon DEF AwarenessUpdate

LEMMA QueryFits ==
  ASSUME NEW own, NEW gone
  PROVE  <<Query>> \in Seq(Believable(own)) /\ <<Query>> \in Seq(Harmless(gone))
<1>1. Query \in Message /\ Query.entries = {}
  BY DEF Query, Message
<1>2. Query \in Believable(own) /\ Query \in Harmless(gone)
  BY <1>1 DEF Believable, Harmless
<1> QED BY <1>2

LEMMA BelievableGrows ==
  ASSUME NEW own \in [Clients -> Nat], NEW later \in [Clients -> Nat],
         \A c \in Clients : own[c] <= later[c]
  PROVE  Believable(own) \subseteq Believable(later)
<1> SUFFICES ASSUME NEW m \in Believable(own)
             PROVE  \A e \in m.entries : e.clock <= later[e.client]
  BY DEF Believable
<1> TAKE e \in m.entries
<1>1. e.client \in Clients /\ e.clock \in Nat /\ e.clock <= own[e.client]
  BY DEF Believable, Message, Entry
<1> QED BY <1>1

LEMMA QueuesGrow ==
  ASSUME NEW S, NEW T, S \subseteq T, NEW queue \in [Clients -> Seq(S)]
  PROVE  queue \in [Clients -> Seq(T)]
<1>1. \A c \in Clients : queue[c] \in Seq(T)
  BY SeqMonotonic
<1> QED BY <1>1

-----------------------------------------------------------------------------
(* Sending.                                                                *)

LEMMA PublishCarries ==
  ASSUME NEW S, channel \in [Clients -> Seq(S)],
         NEW c \in Clients, NEW unread \in Seq(S), NEW question \in Seq(S), NEW update \in Seq(S),
         Publish(c, unread, question, update)
  PROVE  channel' \in [Clients -> Seq(S)]
<1>1. \A d \in Clients : channel[d] \o question \o Heard(d, update) \in Seq(S)
  <2> TAKE d \in Clients
  <2>1. Heard(d, update) \in Seq(S)
    BY EmptySeq DEF Heard
  <2>2. channel[d] \in Seq(S)
    OBVIOUS
  <2>3. channel[d] \o question \in Seq(S)
    BY <2>2, ConcatProperties
  <2> QED BY <2>1, <2>3, ConcatProperties
<1> QED BY <1>1, Zenon DEF Publish

LEMMA BroadcastCarries ==
  ASSUME NEW S, channel \in [Clients -> Seq(S)], toServer \in [Clients -> Seq(S)],
         NEW c \in Clients, NEW unread \in Seq(S), NEW update \in Seq(S),
         BroadcastMessage(c, unread, update)
  PROVE  channel' \in [Clients -> Seq(S)] /\ toServer' \in [Clients -> Seq(S)]
<1>1. channel' \in [Clients -> Seq(S)]
  BY PublishCarries, EmptySeq DEF BroadcastMessage
<1>2. toServer[c] \o update \in Seq(S)
  BY ConcatProperties
<1> QED BY <1>1, <1>2 DEF BroadcastMessage

-----------------------------------------------------------------------------
(* One tab comes to know other clients, or other clocks.                   *)

\* What a tab may come to: it sees itself, and believes nobody more than he said.
Legal(c, known, clock) ==
  /\ c \in known
  /\ \A d \in known : clock[d] # 0
  /\ clocks[c][c] <= clock[c]
  /\ \A d \in Clients \ {c} : clock[d] <= clocks[d][d]

\* Nothing gets older, and who comes back is newer.
Newer(c, known, clock) ==
  \A d \in Clients :
    /\ clocks[c][d] <= clock[d]
    /\ d \in known \ states[c] => clocks[c][d] < clock[d]

\* Who leads is evaluated unless the tab knows whom it knew.
Led(c, known) ==
  \/ tab[c] = "open" /\ known = states[c] /\ UNCHANGED leadership
  \/ EvaluateLeadership(c, known)

\* The two action properties, for one step.
ComesBackNewerStep ==
  \A c \in OpenTabs : \A d \in Clients :
    /\ clocks[c][d] <= clocks'[c][d]
    /\ d \in states'[c] \ states[c] => clocks[c][d] < clocks'[c][d]

StaysInSightStep ==
  faults' = 0 => \A c \in Clients : states[c] \subseteq states'[c]

LEMMA LeadershipFollows ==
  ASSUME TabsOK, AwarenessOK, LeadershipOK, UnopenedKnowNobody, FollowsSmallestSeen,
         NEW c \in Clients, NEW known \in SUBSET Clients, c \in known,
         tab[c] \in {"open", "unopened"}, Led(c, known)
  PROVE  /\ leaderClientId' \in [Clients -> Clients \cup {NoClient}]
         /\ snapshotTimer' \in [Clients -> BOOLEAN]
         /\ leaderClientId'[c] = Smallest(known)
         /\ snapshotTimer'[c] <=> leaderClientId'[c] = c
         /\ \A d \in Clients \ {c} :
              leaderClientId'[d] = leaderClientId[d] /\ snapshotTimer'[d] = snapshotTimer[d]
<1>1. Smallest(known) \in known /\ Smallest(known) # NoClient
  BY SmallestIsMember
<1>2. CASE tab[c] = "open" /\ known = states[c] /\ UNCHANGED leadership
  BY <1>2 DEF leadership, LeadershipOK, FollowsSmallestSeen, OpenTabs
<1>3. CASE EvaluateLeadership(c, known)
  <2> DEFINE runs == IF leaderClientId[c] = Smallest(known) THEN snapshotTimer[c]
                     ELSE Smallest(known) = c
  <2>1. leaderClientId' = [leaderClientId EXCEPT ![c] = Smallest(known)]
    BY <1>3 DEF EvaluateLeadership
  <2>2. snapshotTimer' = [snapshotTimer EXCEPT ![c] = runs]
    BY <1>3, Zenon DEF EvaluateLeadership
  <2>3. leaderClientId'[c] = Smallest(known)
    BY <2>1 DEF LeadershipOK
  <2>4. runs \in BOOLEAN
    BY DEF LeadershipOK
  <2>5. runs <=> Smallest(known) = c
    <3>1. CASE leaderClientId[c] = Smallest(known)
      <4>1. tab[c] = "open"
        BY <1>1, <3>1 DEF UnopenedKnowNobody
      <4>2. snapshotTimer[c] <=> leaderClientId[c] = c
        BY <4>1 DEF FollowsSmallestSeen, OpenTabs
      <4> QED BY <3>1, <4>2, Zenon
    <3>2. CASE leaderClientId[c] # Smallest(known)
      BY <3>2, Zenon
    <3> QED BY <3>1, <3>2, Zenon
  <2> HIDE DEF runs
  <2>6. snapshotTimer'[c] = runs /\ snapshotTimer' \in [Clients -> BOOLEAN]
    BY <2>2, <2>4 DEF LeadershipOK
  <2>7. snapshotTimer'[c] <=> leaderClientId'[c] = c
    BY <2>3, <2>5, <2>6, Zenon
  <2>8. \A d \in Clients \ {c} :
          leaderClientId'[d] = leaderClientId[d] /\ snapshotTimer'[d] = snapshotTimer[d]
    BY <2>1, <2>2 DEF LeadershipOK
  <2>9. leaderClientId' \in [Clients -> Clients \cup {NoClient}]
    BY <1>1, <2>1 DEF LeadershipOK
  <2> QED BY <2>3, <2>6, <2>7, <2>8, <2>9, Zenon
<1> QED BY <1>2, <1>3, Zenon DEF Led

LEMMA OwnIsNat ==
  ASSUME AwarenessOK
  PROVE  Own \in [Clients -> Nat] /\ \A c \in Clients : Own[c] = clocks[c][c]
BY DEF Own, AwarenessOK

\* What the tab knows then fits with what the others know.
LEMMA TabKnows ==
  ASSUME AwarenessOK, NEW c \in Clients, NEW known \in SUBSET Clients,
         NEW clock \in [Clients -> Nat],
         Legal(c, known, clock), SetAwareness(c, known, clock)
  PROVE  /\ AwarenessOK'
         /\ states'[c] = known
         /\ clocks'[c] = clock
         /\ \A d \in Clients \ {c} : states'[d] = states[d] /\ clocks'[d] = clocks[d]
         /\ \A d \in Clients : clocks[d][d] <= clocks'[d][d]
<1>1. /\ states' \in [Clients -> SUBSET Clients] /\ clocks' \in [Clients -> [Clients -> Nat]]
      /\ states'[c] = known /\ clocks'[c] = clock
      /\ \A d \in Clients \ {c} : states'[d] = states[d] /\ clocks'[d] = clocks[d]
  BY DEF AwarenessOK, SetAwareness
<1>2. \A d \in Clients : clocks[d][d] <= clocks'[d][d]
  BY <1>1 DEF AwarenessOK, Legal
<1>3. \A d \in Clients : \A e \in states'[d] : clocks'[d][e] # 0
  BY <1>1 DEF AwarenessOK, Legal
<1>4. \A e, d \in Clients : clocks'[d][e] <= clocks'[e][e]
  <2> TAKE e \in Clients, d \in Clients
  <2>1. CASE d = c /\ e = c
    BY <1>1, <2>1
  <2>2. CASE d = c /\ e # c
    BY <1>1, <2>2 DEF Legal
  <2>3. CASE d # c
    <3>1. clocks'[d][e] = clocks[d][e] /\ clocks[d][e] <= clocks[e][e]
      BY <1>1, <2>3 DEF AwarenessOK
    <3>2. clocks'[d][e] \in Nat /\ clocks[e][e] \in Nat /\ clocks'[e][e] \in Nat
      BY <1>1 DEF AwarenessOK
    <3> QED BY <1>2, <3>1, <3>2
  <2> QED BY <2>1, <2>2, <2>3
<1> QED BY <1>1, <1>2, <1>3, <1>4 DEF AwarenessOK

\* Everything but the messages.
LEMMA TabStep ==
  ASSUME IInv, NEW c \in Clients, NEW known \in SUBSET Clients,
         NEW clock \in [Clients -> Nat],
         Legal(c, known, clock), SetAwareness(c, known, clock), Led(c, known),
         \/ tab[c] = "open" /\ tab' = tab /\ Newer(c, known, clock)
         \/ tab[c] = "unopened" /\ tab' = [tab EXCEPT ![c] = "open"],
         faults' = 0 => states[c] \subseteq known
  PROVE  /\ AwarenessOK' /\ LeadershipOK' /\ FollowsSmallestSeen' /\ UnopenedKnowNobody'
         /\ ComesBackNewerStep /\ StaysInSightStep
<1> USE DEF IInv
<1>1. /\ AwarenessOK'
      /\ states'[c] = known /\ clocks'[c] = clock
      /\ \A d \in Clients \ {c} : states'[d] = states[d] /\ clocks'[d] = clocks[d]
  BY TabKnows
<1>2. tab[c] \in {"open", "unopened"}
  OBVIOUS
<1>3. /\ leaderClientId' \in [Clients -> Clients \cup {NoClient}]
      /\ snapshotTimer' \in [Clients -> BOOLEAN]
      /\ leaderClientId'[c] = Smallest(known)
      /\ snapshotTimer'[c] <=> leaderClientId'[c] = c
      /\ \A d \in Clients \ {c} :
           leaderClientId'[d] = leaderClientId[d] /\ snapshotTimer'[d] = snapshotTimer[d]
  BY <1>2, LeadershipFollows DEF Legal
<1>4. /\ tab'[c] = "open"
      /\ \A d \in Clients \ {c} : tab'[d] = tab[d]
  BY DEF TabsOK
<1>5. LeadershipOK'
  BY <1>3 DEF LeadershipOK
<1>6. FollowsSmallestSeen'
  <2> SUFFICES ASSUME NEW d \in Clients, tab'[d] = "open"
               PROVE  /\ d \in states'[d]
                      /\ leaderClientId'[d] = Smallest(states'[d])
                      /\ snapshotTimer'[d] <=> leaderClientId'[d] = d
    BY DEF FollowsSmallestSeen, OpenTabs, Smallest
  <2>1. CASE d = c
    BY <1>1, <1>3, <2>1 DEF Legal
  <2>2. CASE d # c
    <3>1. d \in OpenTabs
      BY <1>4, <2>2 DEF OpenTabs
    <3>2. /\ d \in states[d]
          /\ leaderClientId[d] = Smallest(states[d])
          /\ snapshotTimer[d] <=> leaderClientId[d] = d
      BY <3>1 DEF FollowsSmallestSeen
    <3>3. states'[d] = states[d] /\ leaderClientId'[d] = leaderClientId[d]
            /\ snapshotTimer'[d] = snapshotTimer[d]
      BY <1>1, <1>3, <2>2
    <3> QED BY <3>2, <3>3, Zenon
  <2> QED BY <2>1, <2>2
<1>7. UnopenedKnowNobody'
  BY <1>1, <1>3, <1>4 DEF UnopenedKnowNobody
<1>8. ComesBackNewerStep
  <2> SUFFICES ASSUME NEW e \in OpenTabs, NEW d \in Clients
               PROVE  /\ clocks[e][d] <= clocks'[e][d]
                      /\ d \in states'[e] \ states[e] => clocks[e][d] < clocks'[e][d]
    BY DEF ComesBackNewerStep
  <2>1. e \in Clients /\ clocks[e][d] \in Nat
    BY DEF OpenTabs, AwarenessOK
  <2>2. CASE e = c
    BY <1>1, <2>2 DEF Newer, OpenTabs
  <2>3. CASE e # c
    BY <1>1, <2>1, <2>3
  <2> QED BY <2>2, <2>3
<1>9. StaysInSightStep
  BY <1>1 DEF StaysInSightStep
<1> QED BY <1>1, <1>5, <1>6, <1>7, <1>8, <1>9

-----------------------------------------------------------------------------
(* Reading an update.                                                      *)

LEMMA UpdateApplied ==
  ASSUME IInv, NEW c \in OpenTabs, NEW m \in Believable(Own), NEW unread,
         ApplyAwarenessUpdate(c, m.entries, unread)
  PROVE  \E known \in SUBSET Clients, clock \in [Clients -> Nat], told \in SUBSET Clients :
           /\ Legal(c, known, clock) /\ Newer(c, known, clock)
           /\ SetAwareness(c, known, clock) /\ Led(c, known)
           /\ BroadcastMessage(c, unread, AwarenessUpdate(told, known, clock))
           /\ m \in Harmless(Gone) =>
                /\ states[c] \subseteq known /\ known \subseteq states[c] \cup told
                /\ told \subseteq known /\ told \cap Gone = {}
<1> DEFINE entries  == m.entries
           accepted == {e \in entries : Accepts(c, e)}
           noticed  == {e \in accepted : e.present \/ clocks[c][e.client] > 0}
           added    == {e.client : e \in {f \in accepted : f.present}}
           removed  == {e.client : e \in {f \in accepted : ~f.present /\ ~Denies(c, f)}}
           known    == (states[c] \ removed) \cup added
           says(d)  == CHOOSE f \in accepted : f.client = d
           bid(e)   == IF Denies(c, e) THEN e.clock + 1 ELSE e.clock
           clock    == [d \in Clients |->
                          IF \E e \in accepted : e.client = d THEN bid(says(d)) ELSE clocks[c][d]]
           told     == {e.client : e \in noticed}
           changed  == {e \in noticed : Changes(c, e)}
<1>1. /\ SetAwareness(c, known, clock)
      /\ OnChange(c, changed, known)
      /\ BroadcastMessage(c, unread, AwarenessUpdate(told, known, clock))
  BY Zenon DEF ApplyAwarenessUpdate
<1>2. /\ c \in Clients /\ tab[c] = "open" /\ c \in states[c]
      /\ states[c] \subseteq Clients /\ clocks[c] \in [Clients -> Nat]
      /\ \A d \in states[c] : clocks[c][d] # 0
      /\ \A d \in Clients : clocks[d][d] \in Nat /\ clocks[c][d] <= clocks[d][d]
  BY DEF IInv, OpenTabs, AwarenessOK, FollowsSmallestSeen
<1>3. \A e \in accepted :
        /\ e \in entries
        /\ e.client \in Clients /\ e.clock \in Nat /\ e.present \in BOOLEAN
        /\ e.clock <= clocks[e.client][e.client]
        /\ Accepts(c, e)
  <2>1. \A e \in accepted : e \in Entry /\ e.clock <= Own[e.client] /\ e \in entries /\ Accepts(c, e)
    BY DEF Believable, Message
  <2> QED BY <2>1 DEF Own, Entry
<1>4. \A e, f \in accepted : e.client = f.client => e = f
  BY DEF Believable
<1>5. \A e \in accepted :
        /\ clocks[c][e.client] <= e.clock
        /\ e.present => clocks[c][e.client] < e.clock
        /\ e.client = c => Denies(c, e)
        /\ Denies(c, e) => e.client = c /\ ~e.present
  BY <1>2, <1>3 DEF Accepts, Denies
<1>6. \A e \in accepted : says(e.client) = e
  <2> TAKE e \in accepted
  <2>1. says(e.client) \in accepted /\ says(e.client).client = e.client
    OBVIOUS
  <2> QED BY <1>4, <2>1, Zenon
<1>7. \A e \in accepted : clock[e.client] = bid(e)
  BY <1>3, <1>6
<1>8. \A d \in Clients : (\A e \in accepted : e.client # d) => clock[d] = clocks[c][d]
  OBVIOUS
<1>9. added \subseteq Clients /\ told \subseteq Clients /\ known \subseteq Clients
  BY <1>2, <1>3
<1>10. \A d \in Clients : clock[d] \in Nat /\ clocks[c][d] <= clock[d]
  <2> TAKE d \in Clients
  <2> HIDE DEF clock, accepted
  <2>1. CASE \E e \in accepted : e.client = d
    BY <1>2, <1>3, <1>5, <1>7, <2>1
  <2>2. CASE \A e \in accepted : e.client # d
    BY <1>2, <1>8, <2>2
  <2> QED BY <2>1, <2>2
<1>11. clock \in [Clients -> Nat]
  BY <1>10
<1>12. \A e \in accepted : e.present => clock[e.client] = e.clock /\ clocks[c][e.client] < clock[e.client]
  BY <1>5, <1>7
<1>13. \A d \in added : \E e \in accepted : e.present /\ e.client = d
  OBVIOUS
<1>14. \A d \in removed : \E e \in accepted : ~e.present /\ e.client = d /\ ~Denies(c, e)
  OBVIOUS
<1>15. \A e \in accepted : ~e.present /\ ~Denies(c, e) => e.client \in removed
  OBVIOUS
<1>16. \A e \in accepted : e.present => e.client \in added
  OBVIOUS
<1>17. c \in known
  BY <1>2, <1>5, <1>14
<1>18. Legal(c, known, clock)
  <2>1. \A d \in known : clock[d] # 0
    <3> TAKE d \in known
    <3> d \in Clients
      BY <1>9
    <3> HIDE DEF clock, accepted, added, removed
    <3>1. CASE \E e \in accepted : e.client = d
      <4>1. PICK e \in accepted : e.client = d
        BY <3>1
      <4>2. CASE e.present
        BY <1>2, <1>3, <1>10, <1>12, <4>1, <4>2
      <4>3. CASE Denies(c, e)
        BY <1>3, <1>7, <4>1, <4>3
      <4>4. CASE ~e.present /\ ~Denies(c, e)
        <5>1. d \in removed
          BY <1>15, <4>1, <4>4
        <5>2. d \notin added
          BY <1>4, <1>13, <4>1, <4>4
        <5> QED BY <5>1, <5>2
      <4> QED BY <4>2, <4>3, <4>4
    <3>2. CASE \A e \in accepted : e.client # d
      BY <1>2, <1>8, <1>13, <3>2
    <3> QED BY <3>1, <3>2
  <2>2. \A d \in Clients \ {c} : clock[d] <= clocks[d][d]
    <3> TAKE d \in Clients \ {c}
    <3> HIDE DEF clock, accepted
    <3>1. CASE \E e \in accepted : e.client = d
      BY <1>3, <1>5, <1>7, <3>1
    <3>2. CASE \A e \in accepted : e.client # d
      BY <1>2, <1>8, <3>2
    <3> QED BY <3>1, <3>2
  <2> HIDE DEF clock, known
  <2> QED BY <1>2, <1>10, <1>17, <2>1, <2>2 DEF Legal
<1>19. Newer(c, known, clock)
  <2>1. \A d \in known \ states[c] : clocks[c][d] < clock[d]
    <3> TAKE d \in known \ states[c]
    <3>1. d \in added
      OBVIOUS
    <3> HIDE DEF clock, accepted, added, removed
    <3> QED BY <1>12, <1>13, <3>1
  <2> HIDE DEF clock, known
  <2> QED BY <1>10, <2>1 DEF Newer
<1>20. Led(c, known)
  <2>1. CASE changed = {}
    <3>1. UNCHANGED leadership
      BY <1>1, <2>1, Zenon DEF OnChange
    <3>2. added \subseteq states[c]
      BY <1>3, <2>1 DEF Changes
    <3>3. removed \cap states[c] = {}
      <4> SUFFICES ASSUME NEW e \in accepted, ~e.present, ~Denies(c, e), e.client \in states[c]
                   PROVE  FALSE
        BY <1>14
      <4>1. clocks[c][e.client] > 0
        BY <1>2, <1>3
      <4>2. e \in changed
        BY <4>1 DEF Changes
      <4> QED BY <2>1, <4>2
    <3>4. known = states[c]
      BY <3>2, <3>3
    <3> QED BY <1>2, <3>1, <3>4, Zenon DEF Led
  <2>2. CASE changed # {}
    BY <1>1, <2>2, Zenon DEF OnChange, Led
  <2> QED BY <2>1, <2>2, Zenon
<1>21. ASSUME m \in Harmless(Gone)
       PROVE  /\ states[c] \subseteq known /\ known \subseteq states[c] \cup told
              /\ told \subseteq known /\ told \cap Gone = {}
  <2>1. \A e \in accepted : e.present /\ e.client \notin Gone
    BY <1>21 DEF Harmless
  <2>2. removed = {}
    BY <1>14, <2>1
  <2>3. told = added /\ told \cap Gone = {}
    BY <2>1
  <2> QED BY <2>2, <2>3
<1> HIDE DEF known, clock, told, changed
<1>22. known \in SUBSET Clients /\ clock \in [Clients -> Nat] /\ told \in SUBSET Clients
  BY <1>9, <1>11, Zenon
<1> USE <1>22
<1> WITNESS known \in SUBSET Clients, clock \in [Clients -> Nat], told \in SUBSET Clients
<1> QED BY <1>1, <1>9, <1>11, <1>18, <1>19, <1>20, <1>21, Zenon

-----------------------------------------------------------------------------
(* The messages after a step of a tab.                                     *)

LEMMA MoreIsBelievable ==
  ASSUME AwarenessOK, AwarenessOK', Carries(Believable(Own)),
         \A d \in Clients : clocks[d][d] <= clocks'[d][d]
  PROVE  Carries(Believable(Own')) /\ Believable(Own) \subseteq Believable(Own')
<1>1. Own \in [Clients -> Nat] /\ Own' \in [Clients -> Nat]
  BY DEF Own, AwarenessOK
<1>2. \A d \in Clients : Own[d] <= Own'[d]
  BY DEF Own
<1>3. Believable(Own) \subseteq Believable(Own')
  BY <1>1, <1>2, BelievableGrows
<1> QED BY <1>3, QueuesGrow DEF Carries

LEMMA ToldIsBelievable ==
  ASSUME AwarenessOK', NEW c \in Clients, NEW told \in SUBSET Clients,
         NEW known \in SUBSET Clients
  PROVE  AwarenessUpdate(told, known, clocks'[c]) \in Seq(Believable(Own'))
<1>1. Own' \in [Clients -> Nat] /\ clocks'[c] \in [Clients -> Nat]
  BY DEF Own, AwarenessOK
<1>2. \A d \in told : clocks'[c][d] <= Own'[d]
  BY DEF Own, AwarenessOK
<1> QED BY <1>1, <1>2, UpdateIsBelievable

\* A tab that stays open learns or forgets something and broadcasts it.
LEMMA BroadcastStep ==
  ASSUME IInv, NEW c \in OpenTabs, NEW known \in SUBSET Clients,
         NEW clock \in [Clients -> Nat], NEW told \in SUBSET Clients,
         NEW unread \in Seq(Believable(Own)),
         Legal(c, known, clock), Newer(c, known, clock),
         SetAwareness(c, known, clock), Led(c, known),
         BroadcastMessage(c, unread, AwarenessUpdate(told, known, clock)),
         UNCHANGED <<browser, tab, wsconnected>>,
         faults' \in 0..MaxFaults, faults' = 0 => faults = 0,
         toClient' \in [Clients -> Seq(Believable(Own))],
         faults' = 0 =>
           /\ states[c] \subseteq known /\ known \subseteq states[c] \cup told
           /\ told \subseteq known /\ told \cap Gone = {}
           /\ unread \in Seq(Harmless(Gone)) /\ toClient' \in [Clients -> Seq(Harmless(Gone))]
  PROVE  IInv' /\ ComesBackNewerStep /\ StaysInSightStep
<1>1. c \in Clients /\ tab[c] = "open"
  BY DEF OpenTabs
<1>2. /\ AwarenessOK' /\ LeadershipOK' /\ FollowsSmallestSeen' /\ UnopenedKnowNobody'
      /\ ComesBackNewerStep /\ StaysInSightStep
  BY <1>1, TabStep, Zenon
<1>3. /\ clocks'[c] = clock /\ states'[c] = known
      /\ \A d \in Clients \ {c} : states'[d] = states[d]
      /\ \A d \in Clients : clocks[d][d] <= clocks'[d][d]
  BY <1>1, TabKnows, Zenon DEF IInv
<1>4. TabsOK'
  BY DEF IInv, TabsOK, OpenTabs
<1>5. Carries(Believable(Own))'
  <2>1. Carries(Believable(Own')) /\ Believable(Own) \subseteq Believable(Own')
    BY <1>2, <1>3, MoreIsBelievable, Zenon DEF IInv
  <2>2. AwarenessUpdate(told, known, clock) \in Seq(Believable(Own'))
    BY <1>1, <1>2, <1>3, ToldIsBelievable
  <2>3. unread \in Seq(Believable(Own'))
    BY <2>1, SeqMonotonic
  <2>4. channel' \in [Clients -> Seq(Believable(Own'))] /\ toServer' \in [Clients -> Seq(Believable(Own'))]
    BY <1>1, <2>1, <2>2, <2>3, BroadcastCarries DEF Carries
  <2>5. toClient' \in [Clients -> Seq(Believable(Own'))]
    BY <2>1, QueuesGrow
  <2> QED BY <2>4, <2>5 DEF Carries
<1>6. Peaceful'
  <2> SUFFICES ASSUME faults' = 0
               PROVE  Carries(Harmless(Gone))' /\ \A d \in Clients : states'[d] \cap Gone' = {}
    BY DEF Peaceful
  <2>1. Gone' = Gone
    BY DEF Gone
  <2>2. Carries(Harmless(Gone)) /\ \A d \in Clients : states[d] \cap Gone = {}
    BY DEF IInv, Peaceful
  <2>3. AwarenessUpdate(told, known, clock) \in Seq(Harmless(Gone))
    BY UpdateIsHarmless
  <2>4. channel' \in [Clients -> Seq(Harmless(Gone))] /\ toServer' \in [Clients -> Seq(Harmless(Gone))]
    BY <1>1, <2>2, <2>3, BroadcastCarries DEF Carries
  <2>5. \A d \in Clients : states'[d] \cap Gone = {}
    BY <1>1, <1>3, <2>2
  <2> QED BY <2>1, <2>4, <2>5 DEF Carries
<1> QED BY <1>2, <1>4, <1>5, <1>6 DEF IInv

\* A tab reads an update.
LEMMA ReadStep ==
  ASSUME IInv, NEW c \in OpenTabs, NEW m \in Believable(Own), NEW unread \in Seq(Believable(Own)),
         ApplyAwarenessUpdate(c, m.entries, unread),
         UNCHANGED <<browser, tab, wsconnected, faults>>,
         toClient' \in [Clients -> Seq(Believable(Own))],
         faults = 0 =>
           /\ m \in Harmless(Gone)
           /\ unread \in Seq(Harmless(Gone)) /\ toClient' \in [Clients -> Seq(Harmless(Gone))]
  PROVE  IInv' /\ ComesBackNewerStep /\ StaysInSightStep
<1>1. PICK known \in SUBSET Clients, clock \in [Clients -> Nat], told \in SUBSET Clients :
        /\ Legal(c, known, clock) /\ Newer(c, known, clock)
        /\ SetAwareness(c, known, clock) /\ Led(c, known)
        /\ BroadcastMessage(c, unread, AwarenessUpdate(told, known, clock))
        /\ m \in Harmless(Gone) =>
             /\ states[c] \subseteq known /\ known \subseteq states[c] \cup told
             /\ told \subseteq known /\ told \cap Gone = {}
  BY UpdateApplied
<1>2. faults' \in 0..MaxFaults /\ (faults' = 0 => faults = 0)
  BY DEF IInv, TabsOK
<1>3. UNCHANGED <<browser, tab, wsconnected>>
  OBVIOUS
<1>4. faults' = 0 =>
        /\ states[c] \subseteq known /\ known \subseteq states[c] \cup told
        /\ told \subseteq known /\ told \cap Gone = {}
        /\ unread \in Seq(Harmless(Gone)) /\ toClient' \in [Clients -> Seq(Harmless(Gone))]
  BY <1>1
<1> QED BY <1>1, <1>2, <1>3, <1>4, BroadcastStep

-----------------------------------------------------------------------------
(* Each action.                                                            *)

LEMMA InitIsGood == Init => IInv
<1> SUFFICES ASSUME Init PROVE IInv
  OBVIOUS
<1>1. PICK start \in Starts : browser = start.browser /\ tab = start.tab
  BY DEF Init
<1>2. DOMAIN browser = Clients /\ tab \in [Clients -> TabStates]
  BY <1>1, StartAssumption
<1>3. OpenTabs \subseteq Clients /\ Gone \cap OpenTabs = {}
  BY DEF OpenTabs, Gone
<1>4. TabsOK
  BY <1>2, BoundsAssumption DEF Init, TabsOK
<1>5. AwarenessOK
  <2>1. /\ states = [c \in Clients |-> IF c \in OpenTabs THEN OpenTabs ELSE {}]
        /\ clocks = [c \in Clients |-> [d \in Clients |->
                       IF {c, d} \subseteq OpenTabs THEN 2 ELSE 0]]
    BY Zenon DEF Init
  <2>2. \A c, d \in Clients :
          clocks[c][d] = IF c \in OpenTabs /\ d \in OpenTabs THEN 2 ELSE 0
    BY <2>1
  <2>3. clocks \in [Clients -> [Clients -> Nat]]
    BY <2>1
  <2>4. states \in [Clients -> SUBSET Clients]
    BY <1>3, <2>1
  <2>5. \A c \in Clients : \A d \in states[c] : d \in Clients /\ c \in OpenTabs /\ d \in OpenTabs
    BY <1>3, <2>1
  <2>6. \A c \in Clients : \A d \in states[c] : clocks[c][d] # 0
    BY <2>2, <2>5
  <2>7. \A c, d \in Clients : clocks[d][c] <= clocks[c][c]
    BY <2>2
  <2> QED BY <2>3, <2>4, <2>6, <2>7 DEF AwarenessOK
<1>6. \A c \in OpenTabs : Smallest(OpenTabs) \in OpenTabs
  BY <1>3, SmallestIsMember
<1>7. LeadershipOK
  <2>1. leaderClientId \in [Clients -> Clients \cup {NoClient}]
    BY <1>3, <1>6 DEF Init
  <2>2. \A c \in Clients : (leaderClientId[c] = c) \in BOOLEAN
    OBVIOUS
  <2>3. snapshotTimer \in [Clients -> BOOLEAN]
    BY <2>2, Zenon DEF Init
  <2> QED BY <2>1, <2>3 DEF LeadershipOK
<1>8. FollowsSmallestSeen
  <2> SUFFICES ASSUME NEW c \in OpenTabs
               PROVE  /\ c \in states[c]
                      /\ leaderClientId[c] = Smallest(states[c])
                      /\ snapshotTimer[c] <=> leaderClientId[c] = c
    BY DEF FollowsSmallestSeen
  <2>1. c \in Clients /\ states[c] = OpenTabs /\ leaderClientId[c] = Smallest(OpenTabs)
    BY <1>3 DEF Init
  <2>2. snapshotTimer[c] = (leaderClientId[c] = c)
    BY <2>1 DEF Init
  <2> QED BY <2>1, <2>2, Zenon
<1>9. UnopenedKnowNobody
  BY DEF Init, UnopenedKnowNobody, OpenTabs
<1>10. \A S : Carries(S)
  BY EmptySeq DEF Init, Carries
<1>11. Peaceful
  BY <1>3, <1>10 DEF Init, Peaceful
<1> QED BY <1>4, <1>5, <1>7, <1>8, <1>9, <1>10, <1>11 DEF IInv

\* What the proofs take from the invariant about the tab that acts.
LEMMA ATab ==
  ASSUME IInv, NEW c \in OpenTabs
  PROVE  /\ c \in Clients /\ tab[c] = "open" /\ c \in states[c] /\ c \notin Gone
         /\ states[c] \in SUBSET Clients /\ clocks[c] \in [Clients -> Nat]
         /\ \A d \in states[c] : clocks[c][d] # 0
         /\ \A d \in Clients : clocks[d][d] \in Nat /\ clocks[c][d] <= clocks[d][d]
         /\ channel[c] \in Seq(Believable(Own))
         /\ faults = 0 => channel[c] \in Seq(Harmless(Gone))
         /\ toClient \in [Clients -> Seq(Believable(Own))]
         /\ faults = 0 => toClient \in [Clients -> Seq(Harmless(Gone))]
<1>1. c \in Clients /\ tab[c] = "open"
  BY DEF OpenTabs
<1>2. c \in states[c] /\ c \notin Gone
  BY <1>1 DEF IInv, FollowsSmallestSeen, Gone
<1> QED BY <1>1, <1>2 DEF IInv, AwarenessOK, Carries, Peaceful

LEMMA ConnectedIsOpen ==
  ASSUME IInv, NEW c \in wsconnected
  PROVE  c \in OpenTabs
BY DEF IInv, TabsOK

\* Steps that leave the tabs and what they know alone.
LEMMA OnlyMessages ==
  ASSUME IInv, UNCHANGED <<browser, tab, states, clocks, leaderClientId, snapshotTimer>>,
         wsconnected' \subseteq OpenTabs, faults' \in 0..MaxFaults,
         Carries(Believable(Own))',
         faults' = 0 => faults = 0 /\ Carries(Harmless(Gone))'
  PROVE  IInv' /\ ComesBackNewerStep /\ StaysInSightStep
<1>1. OpenTabs' = OpenTabs /\ Gone' = Gone
  BY DEF OpenTabs, Gone
<1>2. TabsOK' /\ AwarenessOK' /\ LeadershipOK' /\ UnopenedKnowNobody'
  BY <1>1 DEF IInv, TabsOK, AwarenessOK, LeadershipOK, UnopenedKnowNobody
<1>3. FollowsSmallestSeen'
  BY <1>1 DEF IInv, FollowsSmallestSeen, Smallest
<1>4. Peaceful'
  BY <1>1 DEF IInv, Peaceful
<1>5. ComesBackNewerStep /\ StaysInSightStep
  BY DEF IInv, ComesBackNewerStep, StaysInSightStep, AwarenessOK, OpenTabs
<1> QED BY <1>2, <1>3, <1>4, <1>5 DEF IInv

LEMMA StutterIsGood ==
  ASSUME IInv, UNCHANGED vars
  PROVE  IInv' /\ ComesBackNewerStep /\ StaysInSightStep
<1>1. UNCHANGED <<browser, tab, states, clocks, leaderClientId, snapshotTimer, wsconnected,
                  toServer, toClient, channel, faults>>
  BY DEF vars, awareness, leadership, network
<1>2. Own' = Own /\ Gone' = Gone
  BY <1>1 DEF Own, Gone
<1>3. Carries(Believable(Own))' /\ (faults = 0 => Carries(Harmless(Gone))')
  BY <1>1, <1>2 DEF IInv, Carries, Peaceful
<1>4. wsconnected' \subseteq OpenTabs /\ faults' \in 0..MaxFaults
  BY <1>1 DEF IInv, TabsOK
<1> QED BY <1>1, <1>3, <1>4, OnlyMessages

LEMMA OpenTabIsGood ==
  ASSUME IInv, NEW c \in Clients, OpenTab(c)
  PROVE  IInv' /\ ComesBackNewerStep /\ StaysInSightStep
<1> DEFINE clock == [d \in Clients |-> IF d = c THEN 1 ELSE 0]
           update == AwarenessUpdate({c}, {c}, clock)
<1>1. /\ tab[c] = "unopened" /\ tab' = [tab EXCEPT ![c] = "open"]
      /\ SetAwareness(c, {c}, clock)
      /\ Publish(c, channel[c], <<Query>>, update)
      /\ EvaluateLeadership(c, {c})
      /\ UNCHANGED <<browser, wsconnected, toServer, toClient, faults>>
  BY Zenon DEF OpenTab
<1>2. clock \in [Clients -> Nat] /\ clock[c] = 1 /\ \A d \in Clients \ {c} : clock[d] = 0
  OBVIOUS
<1> HIDE DEF clock
<1>3. /\ states[c] = {} /\ clocks[c][c] = 0
      /\ \A d \in Clients : clocks[d][d] \in Nat
  BY <1>1 DEF IInv, UnopenedKnowNobody, AwarenessOK
<1>4. Legal(c, {c}, clock)
  BY <1>2, <1>3 DEF Legal
<1>5. Led(c, {c}) /\ {c} \in SUBSET Clients
  BY <1>1 DEF Led
<1>6. /\ AwarenessOK' /\ LeadershipOK' /\ FollowsSmallestSeen' /\ UnopenedKnowNobody'
      /\ ComesBackNewerStep /\ StaysInSightStep
  BY <1>1, <1>2, <1>3, <1>4, <1>5, TabStep
<1>7. /\ clocks'[c] = clock /\ states'[c] = {c}
      /\ \A d \in Clients \ {c} : states'[d] = states[d]
      /\ \A d \in Clients : clocks[d][d] <= clocks'[d][d]
  BY <1>1, <1>2, <1>4, TabKnows DEF IInv
<1>8. TabsOK'
  BY <1>1 DEF IInv, TabsOK, OpenTabs, TabStates
<1>9. Carries(Believable(Own))'
  <2>1. Carries(Believable(Own'))
    BY <1>6, <1>7, MoreIsBelievable, Zenon DEF IInv
  <2>2. update \in Seq(Believable(Own'))
    BY <1>6, <1>7, ToldIsBelievable
  <2>3. channel[c] \in Seq(Believable(Own')) /\ <<Query>> \in Seq(Believable(Own'))
    BY <2>1, QueryFits DEF Carries
  <2>4. channel' \in [Clients -> Seq(Believable(Own'))]
    BY <1>1, <2>1, <2>2, <2>3, PublishCarries DEF Carries
  <2> QED BY <1>1, <2>1, <2>4 DEF Carries
<1>10. Peaceful'
  <2> SUFFICES ASSUME faults' = 0
               PROVE  Carries(Harmless(Gone))' /\ \A d \in Clients : states'[d] \cap Gone' = {}
    BY DEF Peaceful
  <2>1. Gone' = Gone /\ c \notin Gone
    BY <1>1 DEF IInv, TabsOK, Gone
  <2>2. Carries(Harmless(Gone)) /\ \A d \in Clients : states[d] \cap Gone = {}
    BY <1>1 DEF IInv, Peaceful
  <2>3. update \in Seq(Harmless(Gone)) /\ <<Query>> \in Seq(Harmless(Gone))
    BY <1>2, <2>1, UpdateIsHarmless, QueryFits
  <2>4. channel' \in [Clients -> Seq(Harmless(Gone))]
    BY <1>1, <2>2, <2>3, PublishCarries DEF Carries
  <2>5. \A d \in Clients : states'[d] \cap Gone = {}
    BY <1>7, <2>1, <2>2
  <2> QED BY <1>1, <2>1, <2>2, <2>4, <2>5 DEF Carries
<1> QED BY <1>6, <1>8, <1>9, <1>10 DEF IInv

LEMMA ConnectIsGood ==
  ASSUME IInv, NEW c \in Clients, Connect(c)
  PROVE  IInv' /\ ComesBackNewerStep /\ StaysInSightStep
<1> DEFINE update == AwarenessUpdate({c}, states[c], clocks[c])
<1>1. /\ tab[c] = "open" /\ wsconnected' = wsconnected \cup {c}
      /\ toServer' = [toServer EXCEPT ![c] = update]
      /\ UNCHANGED <<browser, tab, states, clocks, leaderClientId, snapshotTimer, toClient, channel, faults>>
  BY DEF Connect, awareness, leadership
<1>2. c \in OpenTabs
  BY <1>1 DEF OpenTabs
<1>3. /\ c \in states[c] /\ c \notin Gone /\ states[c] \in SUBSET Clients
      /\ clocks[c] \in [Clients -> Nat]
  BY <1>2, ATab
<1>4. Own' = Own /\ Gone' = Gone
  BY <1>1 DEF Own, Gone
<1>5. update \in Seq(Believable(Own))
  BY <1>3, OwnIsNat, UpdateIsBelievable DEF IInv
<1>6. update \in Seq(Harmless(Gone))
  BY <1>3, UpdateIsHarmless
<1> HIDE DEF update
<1>7. Carries(Believable(Own))'
  BY <1>1, <1>4, <1>5 DEF IInv, Carries
<1>8. faults' = 0 => faults = 0 /\ Carries(Harmless(Gone))'
  BY <1>1, <1>4, <1>6 DEF IInv, Peaceful, Carries
<1>9. wsconnected' \subseteq OpenTabs /\ faults' \in 0..MaxFaults
  BY <1>1, <1>2 DEF IInv, TabsOK
<1> QED BY <1>1, <1>7, <1>8, <1>9, OnlyMessages

LEMMA BroadcastToOthersIsGood ==
  ASSUME IInv, NEW c \in Clients, BroadcastToOthers(c)
  PROVE  IInv' /\ ComesBackNewerStep /\ StaysInSightStep
<1>1. /\ toServer[c] # << >>
      /\ toClient' = [d \in Clients |->
                        IF d \in wsconnected \ {c} /\ Matters(d, Head(toServer[c]))
                        THEN Append(toClient[d], Head(toServer[c])) ELSE toClient[d]]
      /\ toServer' = [toServer EXCEPT ![c] = Tail(@)]
      /\ UNCHANGED <<browser, tab, states, clocks, leaderClientId, snapshotTimer,
                     wsconnected, channel, faults>>
  BY DEF BroadcastToOthers, awareness, leadership
<1>2. ASSUME NEW S, Carries(S)
      PROVE  toClient' \in [Clients -> Seq(S)] /\ toServer' \in [Clients -> Seq(S)]
  <2>1. toServer[c] \in Seq(S) /\ Head(toServer[c]) \in S /\ Tail(toServer[c]) \in Seq(S)
    BY <1>1, <1>2, HeadTailProperties DEF Carries
  <2>2. \A d \in Clients : toClient[d] \in Seq(S) /\ Append(toClient[d], Head(toServer[c])) \in Seq(S)
    BY <1>2, <2>1, AppendProperties DEF Carries
  <2>3. toClient' \in [Clients -> Seq(S)]
    BY <1>1, <2>2, Zenon
  <2> QED BY <1>1, <1>2, <2>1, <2>3 DEF Carries
<1>3. Own' = Own /\ Gone' = Gone
  BY <1>1 DEF Own, Gone
<1>4. Carries(Believable(Own))'
  BY <1>1, <1>2, <1>3 DEF IInv, Carries
<1>5. faults' = 0 => faults = 0 /\ Carries(Harmless(Gone))'
  BY <1>1, <1>2, <1>3 DEF IInv, Peaceful, Carries
<1>6. wsconnected' \subseteq OpenTabs /\ faults' \in 0..MaxFaults
  BY <1>1 DEF IInv, TabsOK
<1> QED BY <1>1, <1>4, <1>5, <1>6, OnlyMessages

LEMMA ReceiveFromServerIsGood ==
  ASSUME IInv, NEW c \in Clients, ReceiveFromServer(c)
  PROVE  IInv' /\ ComesBackNewerStep /\ StaysInSightStep
<1> DEFINE m == Head(toClient[c])
<1>1. /\ c \in wsconnected /\ toClient[c] # << >>
      /\ ApplyAwarenessUpdate(c, m.entries, channel[c])
      /\ toClient' = [toClient EXCEPT ![c] = Tail(@)]
      /\ UNCHANGED <<browser, tab, wsconnected, faults>>
  BY DEF ReceiveFromServer
<1>2. c \in OpenTabs
  BY <1>1, ConnectedIsOpen
<1>3. ASSUME NEW S, toClient \in [Clients -> Seq(S)]
      PROVE  m \in S /\ toClient' \in [Clients -> Seq(S)]
  <2>1. toClient[c] \in Seq(S)
    BY <1>3
  <2>2. m \in S /\ Tail(toClient[c]) \in Seq(S)
    BY <1>1, <2>1, HeadTailProperties
  <2> QED BY <1>1, <1>3, <2>2
<1> HIDE DEF m
<1>4. m \in Believable(Own) /\ toClient' \in [Clients -> Seq(Believable(Own))]
  BY <1>2, <1>3, ATab
<1>5. faults = 0 => /\ m \in Harmless(Gone) /\ toClient' \in [Clients -> Seq(Harmless(Gone))]
                    /\ channel[c] \in Seq(Harmless(Gone))
  BY <1>2, <1>3, ATab
<1>6. channel[c] \in Seq(Believable(Own))
  BY <1>2, ATab
<1> QED BY <1>1, <1>2, <1>4, <1>5, <1>6, ReadStep

\* A tab answers the question of a sibling.
LEMMA AnswerIsGood ==
  ASSUME IInv, NEW c \in OpenTabs, NEW unread \in Seq(Believable(Own)),
         faults = 0 => unread \in Seq(Harmless(Gone)),
         Publish(c, unread, << >>, AwarenessUpdate(states[c], states[c], clocks[c])),
         UNCHANGED <<awareness, leadership, toServer, browser, tab, wsconnected, toClient, faults>>
  PROVE  IInv' /\ ComesBackNewerStep /\ StaysInSightStep
<1> DEFINE update == AwarenessUpdate(states[c], states[c], clocks[c])
<1>1. UNCHANGED <<browser, tab, states, clocks, leaderClientId, snapshotTimer, wsconnected,
                  toServer, toClient, faults>>
  BY DEF awareness, leadership
<1>2. /\ c \in Clients /\ states[c] \in SUBSET Clients /\ clocks[c] \in [Clients -> Nat]
      /\ \A d \in Clients : clocks[c][d] <= clocks[d][d]
  BY ATab
<1>3. Own' = Own /\ Gone' = Gone
  BY <1>1 DEF Own, Gone
<1>4. update \in Seq(Believable(Own))
  BY <1>2, OwnIsNat, UpdateIsBelievable DEF IInv
<1>5. faults = 0 => update \in Seq(Harmless(Gone))
  BY <1>2, UpdateIsHarmless DEF IInv, Peaceful
<1> HIDE DEF update
<1>6. Carries(Believable(Own))'
  <2>1. Carries(Believable(Own))
    BY DEF IInv
  <2>2. channel' \in [Clients -> Seq(Believable(Own))]
    BY <1>2, <1>4, <2>1, EmptySeq, PublishCarries DEF Carries, update
  <2> QED BY <1>1, <1>3, <2>1, <2>2 DEF Carries
<1>7. faults' = 0 => faults = 0 /\ Carries(Harmless(Gone))'
  <2> SUFFICES ASSUME faults = 0 PROVE Carries(Harmless(Gone))'
    BY <1>1
  <2>1. Carries(Harmless(Gone))
    BY DEF IInv, Peaceful
  <2>2. channel' \in [Clients -> Seq(Harmless(Gone))]
    BY <1>2, <1>5, <2>1, EmptySeq, PublishCarries DEF Carries, update
  <2> QED BY <1>1, <1>3, <2>1, <2>2 DEF Carries
<1>8. wsconnected' \subseteq OpenTabs /\ faults' \in 0..MaxFaults
  BY <1>1 DEF IInv, TabsOK
<1> QED BY <1>1, <1>6, <1>7, <1>8, OnlyMessages

LEMMA ReceiveFromTabIsGood ==
  ASSUME IInv, NEW c \in Clients, ReceiveFromTab(c)
  PROVE  IInv' /\ ComesBackNewerStep /\ StaysInSightStep
<1>1. /\ tab[c] = "open" /\ channel[c] # << >>
      /\ UNCHANGED <<browser, tab, wsconnected, toClient, faults>>
  BY DEF ReceiveFromTab
<1>2. c \in OpenTabs
  BY <1>1 DEF OpenTabs
<1>3. ASSUME NEW S, channel[c] \in Seq(S)
      PROVE  Head(channel[c]) \in S /\ Tail(channel[c]) \in Seq(S)
  BY <1>1, <1>3, HeadTailProperties
<1>4. Head(channel[c]) \in Believable(Own) /\ Tail(channel[c]) \in Seq(Believable(Own))
  BY <1>2, <1>3, ATab
<1>5. faults = 0 =>
        Head(channel[c]) \in Harmless(Gone) /\ Tail(channel[c]) \in Seq(Harmless(Gone))
  BY <1>2, <1>3, ATab
<1>6. CASE Head(channel[c]) = Query
  <2>1. /\ Publish(c, Tail(channel[c]), << >>, AwarenessUpdate(states[c], states[c], clocks[c]))
        /\ UNCHANGED <<awareness, leadership, toServer>>
    BY <1>6 DEF ReceiveFromTab
  <2> QED BY <1>1, <1>2, <1>4, <1>5, <2>1, AnswerIsGood
<1>7. CASE Head(channel[c]) # Query
  <2>1. ApplyAwarenessUpdate(c, Head(channel[c]).entries, Tail(channel[c]))
    BY <1>7 DEF ReceiveFromTab
  <2>2. toClient' \in [Clients -> Seq(Believable(Own))]
    BY <1>1, <1>2, ATab
  <2>3. faults = 0 => toClient' \in [Clients -> Seq(Harmless(Gone))]
    BY <1>1, <1>2, ATab
  <2> QED BY <1>1, <1>2, <1>4, <1>5, <2>1, <2>2, <2>3, ReadStep
<1> QED BY <1>6, <1>7

LEMMA RenewIsGood ==
  ASSUME IInv, NEW c \in Clients, Renew(c)
  PROVE  IInv' /\ ComesBackNewerStep /\ StaysInSightStep
<1> DEFINE clock == [clocks[c] EXCEPT ![c] = @ + 1]
<1>1. /\ tab[c] = "open"
      /\ SetAwareness(c, states[c], clock)
      /\ BroadcastMessage(c, channel[c], AwarenessUpdate({c}, states[c], clock))
      /\ UNCHANGED <<browser, tab, leadership, wsconnected, toClient, faults>>
  BY Zenon DEF Renew
<1>2. c \in OpenTabs
  BY <1>1 DEF OpenTabs
<1>3. /\ c \in states[c] /\ c \notin Gone
      /\ states[c] \in SUBSET Clients /\ clocks[c] \in [Clients -> Nat]
      /\ \A d \in states[c] : clocks[c][d] # 0
      /\ \A d \in Clients : clocks[d][d] \in Nat /\ clocks[c][d] <= clocks[d][d]
  BY <1>2, ATab
<1>4. /\ clock \in [Clients -> Nat] /\ clock[c] = clocks[c][c] + 1
      /\ \A d \in Clients \ {c} : clock[d] = clocks[c][d]
  BY <1>3
<1> HIDE DEF clock
<1>5. Legal(c, states[c], clock)
  BY <1>3, <1>4 DEF Legal
<1>6. Newer(c, states[c], clock)
  <2>1. \A d \in Clients : clocks[c][d] <= clock[d]
    <3> TAKE d \in Clients
    <3>1. clocks[c][d] \in Nat
      BY <1>3
    <3> QED BY <1>4, <3>1
  <2> QED BY <2>1, Zenon DEF Newer
<1>7. Led(c, states[c])
  BY <1>1 DEF Led, leadership
<1>8. /\ channel[c] \in Seq(Believable(Own)) /\ toClient' \in [Clients -> Seq(Believable(Own))]
      /\ faults = 0 => /\ channel[c] \in Seq(Harmless(Gone))
                       /\ toClient' \in [Clients -> Seq(Harmless(Gone))]
  BY <1>1, <1>2, ATab
<1>9. faults' \in 0..MaxFaults /\ (faults' = 0 => faults = 0)
  BY <1>1 DEF IInv, TabsOK
<1>10. {c} \in SUBSET Clients /\ {c} \subseteq states[c] /\ {c} \cap Gone = {}
  BY <1>3
<1>11. UNCHANGED <<browser, tab, wsconnected>>
  BY <1>1
<1> QED BY <1>1, <1>2, <1>3, <1>4, <1>5, <1>6, <1>7, <1>8, <1>9, <1>10, <1>11, BroadcastStep

\* Forgetting others is legal, and follows from a fault.
LEMMA ForgettingIsLegal ==
  ASSUME IInv, NEW c \in OpenTabs, NEW removed \in SUBSET (states[c] \ {c}),
         RemoveAwarenessStates(c, removed)
  PROVE  LET known == states[c] \ removed
         IN  /\ known \in SUBSET Clients /\ clocks[c] \in [Clients -> Nat]
             /\ Legal(c, known, clocks[c]) /\ Newer(c, known, clocks[c])
             /\ SetAwareness(c, known, clocks[c]) /\ Led(c, known)
<1> DEFINE known == states[c] \ removed
<1>1. /\ c \in Clients /\ tab[c] = "open" /\ c \in states[c]
      /\ states[c] \in SUBSET Clients /\ clocks[c] \in [Clients -> Nat]
      /\ \A d \in states[c] : clocks[c][d] # 0
      /\ \A d \in Clients : clocks[d][d] \in Nat /\ clocks[c][d] <= clocks[d][d]
  BY ATab
<1>2. SetAwareness(c, known, clocks[c]) /\ OnChange(c, removed, known)
  BY DEF RemoveAwarenessStates
<1>3. Legal(c, known, clocks[c])
  BY <1>1 DEF Legal
<1>4. Newer(c, known, clocks[c])
  <2>1. \A d \in Clients : clocks[c][d] <= clocks[c][d]
    <3> TAKE d \in Clients
    <3>1. clocks[c][d] \in Nat
      BY <1>1
    <3> QED BY <3>1
  <2>2. known \subseteq states[c]
    OBVIOUS
  <2> HIDE DEF known
  <2> QED BY <2>1, <2>2, Zenon DEF Newer
<1>5. Led(c, known)
  <2>1. CASE removed = {}
    <3>1. known = states[c]
      BY <2>1
    <3>2. UNCHANGED leadership
      BY <1>2, <2>1 DEF OnChange
    <3> QED BY <1>1, <3>1, <3>2, Zenon DEF Led
  <2>2. CASE removed # {}
    BY <1>2, <2>2, Zenon DEF OnChange, Led
  <2> QED BY <2>1, <2>2
<1> QED BY <1>1, <1>2, <1>3, <1>4, <1>5

LEMMA TimeOutIsGood ==
  ASSUME IInv, NEW c \in Clients, NEW silent \in SUBSET Clients, TimeOut(c, silent)
  PROVE  IInv' /\ ComesBackNewerStep /\ StaysInSightStep
<1> DEFINE known == states[c] \ silent
<1>1. /\ tab[c] = "open" /\ silent # {} /\ silent \subseteq states[c] \ {c}
      /\ IF \A d \in silent : tab[d] = "closed" THEN UNCHANGED faults ELSE Fault("slow")
      /\ RemoveAwarenessStates(c, silent)
      /\ BroadcastMessage(c, channel[c], AwarenessUpdate(silent, known, clocks[c]))
      /\ UNCHANGED <<browser, tab, wsconnected, toClient>>
  BY DEF TimeOut
<1>2. c \in OpenTabs /\ silent \in SUBSET (states[c] \ {c})
  BY <1>1 DEF OpenTabs
<1>3. /\ known \in SUBSET Clients /\ clocks[c] \in [Clients -> Nat]
      /\ Legal(c, known, clocks[c]) /\ Newer(c, known, clocks[c])
      /\ SetAwareness(c, known, clocks[c]) /\ Led(c, known)
  BY <1>1, <1>2, ForgettingIsLegal
<1>4. faults \in Nat /\ faults' \in 0..MaxFaults
  BY <1>1, BoundsAssumption DEF IInv, TabsOK, Fault
<1>5. faults' # 0
  <2>1. CASE \A d \in silent : tab[d] = "closed"
    <3>1. PICK d \in silent : d \in states[c] /\ d \in Gone
      BY <1>1, <2>1 DEF Gone
    <3>2. faults # 0
      BY <3>1 DEF IInv, Peaceful
    <3> QED BY <1>1, <2>1, <3>2
  <2>2. CASE ~(\A d \in silent : tab[d] = "closed")
    BY <1>1, <1>4, <2>2 DEF Fault
  <2> QED BY <2>1, <2>2
<1>6. channel[c] \in Seq(Believable(Own)) /\ toClient' \in [Clients -> Seq(Believable(Own))]
  BY <1>1, <1>2, ATab
<1> HIDE DEF known
<1> QED BY <1>1, <1>2, <1>3, <1>4, <1>5, <1>6, BroadcastStep

LEMMA LoseConnectionIsGood ==
  ASSUME IInv, NEW c \in Clients, LoseConnection(c)
  PROVE  IInv' /\ ComesBackNewerStep /\ StaysInSightStep
<1> DEFINE others == states[c] \ {c}
           update == AwarenessUpdate(others, {c}, clocks[c])
<1>1. /\ c \in wsconnected
      /\ Fault("connectionLost")
      /\ wsconnected' = wsconnected \ {c}
      /\ toServer' = [toServer EXCEPT ![c] = << >>]
      /\ toClient' = [toClient EXCEPT ![c] = << >>]
      /\ RemoveAwarenessStates(c, others)
      /\ Publish(c, channel[c], << >>, update)
      /\ UNCHANGED <<browser, tab>>
  BY DEF LoseConnection
<1>2. c \in OpenTabs
  BY <1>1, ConnectedIsOpen
<1>3. /\ tab[c] = "open" /\ c \in states[c] /\ states[c] \in SUBSET Clients
      /\ channel[c] \in Seq(Believable(Own))
  BY <1>2, ATab
<1>4. states[c] \ others = {c} /\ others \in SUBSET (states[c] \ {c})
  BY <1>3
<1>5. /\ {c} \in SUBSET Clients /\ clocks[c] \in [Clients -> Nat]
      /\ Legal(c, {c}, clocks[c]) /\ Newer(c, {c}, clocks[c])
      /\ SetAwareness(c, {c}, clocks[c]) /\ Led(c, {c})
  BY <1>1, <1>2, <1>4, ForgettingIsLegal
<1>6. faults' \in 0..MaxFaults /\ faults' # 0
  BY <1>1, BoundsAssumption DEF IInv, TabsOK, Fault
<1>7. /\ AwarenessOK' /\ LeadershipOK' /\ FollowsSmallestSeen' /\ UnopenedKnowNobody'
      /\ ComesBackNewerStep /\ StaysInSightStep
  BY <1>1, <1>3, <1>5, <1>6, TabStep
<1>8. clocks'[c] = clocks[c] /\ \A d \in Clients : clocks[d][d] <= clocks'[d][d]
  BY <1>5, TabKnows DEF IInv
<1>9. TabsOK'
  BY <1>1, <1>6 DEF IInv, TabsOK, OpenTabs
<1>10. Carries(Believable(Own))'
  <2>1. Carries(Believable(Own')) /\ Believable(Own) \subseteq Believable(Own')
    BY <1>7, <1>8, MoreIsBelievable, Zenon DEF IInv
  <2>2. update \in Seq(Believable(Own'))
    <3>1. others \in SUBSET Clients
      BY <1>3
    <3> QED BY <1>5, <1>7, <1>8, <3>1, ToldIsBelievable
  <2>3. channel[c] \in Seq(Believable(Own'))
    BY <1>3, <2>1, SeqMonotonic
  <2>4. channel' \in [Clients -> Seq(Believable(Own'))]
    BY <1>1, <2>1, <2>2, <2>3, EmptySeq, PublishCarries DEF Carries
  <2>5. toServer' \in [Clients -> Seq(Believable(Own'))] /\ toClient' \in [Clients -> Seq(Believable(Own'))]
    BY <1>1, <2>1, EmptySeq DEF Carries
  <2> QED BY <2>4, <2>5 DEF Carries
<1>11. Peaceful'
  BY <1>6 DEF Peaceful
<1> QED BY <1>7, <1>9, <1>10, <1>11 DEF IInv

LEMMA CloseTabIsGood ==
  ASSUME IInv, NEW c \in Clients, CloseTab(c)
  PROVE  IInv' /\ ComesBackNewerStep /\ StaysInSightStep
<1>1. /\ tab[c] = "open"
      /\ Fault("tabClosed")
      /\ tab' = [tab EXCEPT ![c] = "closed"]
      /\ wsconnected' = wsconnected \ {c}
      /\ toServer' = [toServer EXCEPT ![c] = << >>]
      /\ toClient' = [toClient EXCEPT ![c] = << >>]
      /\ channel' = [channel EXCEPT ![c] = << >>]
      /\ snapshotTimer' = [snapshotTimer EXCEPT ![c] = FALSE]
      /\ UNCHANGED <<browser, states, clocks, leaderClientId>>
  BY DEF CloseTab, awareness
<1>2. faults' \in 0..MaxFaults /\ faults' # 0
  BY <1>1, BoundsAssumption DEF IInv, TabsOK, Fault
<1>3. OpenTabs' = OpenTabs \ {c} /\ tab' \in [Clients -> TabStates]
  BY <1>1 DEF IInv, TabsOK, OpenTabs, TabStates
<1>4. TabsOK'
  BY <1>1, <1>2, <1>3 DEF IInv, TabsOK
<1>5. AwarenessOK' /\ LeadershipOK'
  BY <1>1 DEF IInv, AwarenessOK, LeadershipOK
<1>6. FollowsSmallestSeen'
  <2> SUFFICES ASSUME NEW d \in OpenTabs'
               PROVE  /\ d \in states'[d]
                      /\ leaderClientId'[d] = Smallest(states'[d])
                      /\ snapshotTimer'[d] <=> leaderClientId'[d] = d
    BY DEF FollowsSmallestSeen, Smallest
  <2>1. d \in OpenTabs /\ d # c
    BY <1>3
  <2>2. states'[d] = states[d] /\ leaderClientId'[d] = leaderClientId[d]
          /\ snapshotTimer'[d] = snapshotTimer[d]
    BY <1>1, <2>1 DEF IInv, LeadershipOK, OpenTabs
  <2>3. /\ d \in states[d]
        /\ leaderClientId[d] = Smallest(states[d])
        /\ snapshotTimer[d] <=> leaderClientId[d] = d
    BY <2>1 DEF IInv, FollowsSmallestSeen
  <2> QED BY <2>2, <2>3, Zenon
<1>7. UnopenedKnowNobody'
  BY <1>1 DEF IInv, UnopenedKnowNobody, TabsOK
<1>8. Carries(Believable(Own))'
  <2>1. Own' = Own
    BY <1>1 DEF Own
  <2> QED BY <1>1, <2>1, EmptySeq DEF IInv, Carries
<1>9. Peaceful'
  BY <1>2 DEF Peaceful
<1>10. ComesBackNewerStep /\ StaysInSightStep
  BY <1>1 DEF IInv, ComesBackNewerStep, StaysInSightStep, AwarenessOK, OpenTabs
<1> QED BY <1>4, <1>5, <1>6, <1>7, <1>8, <1>9, <1>10 DEF IInv

-----------------------------------------------------------------------------
(* The theorems.                                                           *)

LEMMA NextIsGood ==
  ASSUME IInv, [Next]_vars
  PROVE  IInv' /\ ComesBackNewerStep /\ StaysInSightStep
<1>1. ASSUME NEW c \in Clients, OpenTab(c)
      PROVE  IInv' /\ ComesBackNewerStep /\ StaysInSightStep
  BY <1>1, OpenTabIsGood
<1>2. ASSUME NEW c \in Clients, CloseTab(c)
      PROVE  IInv' /\ ComesBackNewerStep /\ StaysInSightStep
  BY <1>2, CloseTabIsGood
<1>3. ASSUME NEW c \in Clients, Connect(c)
      PROVE  IInv' /\ ComesBackNewerStep /\ StaysInSightStep
  BY <1>3, ConnectIsGood
<1>4. ASSUME NEW c \in Clients, LoseConnection(c)
      PROVE  IInv' /\ ComesBackNewerStep /\ StaysInSightStep
  BY <1>4, LoseConnectionIsGood
<1>5. ASSUME NEW c \in Clients, BroadcastToOthers(c)
      PROVE  IInv' /\ ComesBackNewerStep /\ StaysInSightStep
  BY <1>5, BroadcastToOthersIsGood
<1>6. ASSUME NEW c \in Clients, ReceiveFromServer(c)
      PROVE  IInv' /\ ComesBackNewerStep /\ StaysInSightStep
  BY <1>6, ReceiveFromServerIsGood
<1>7. ASSUME NEW c \in Clients, ReceiveFromTab(c)
      PROVE  IInv' /\ ComesBackNewerStep /\ StaysInSightStep
  BY <1>7, ReceiveFromTabIsGood
<1>8. ASSUME NEW c \in Clients, Renew(c)
      PROVE  IInv' /\ ComesBackNewerStep /\ StaysInSightStep
  BY <1>8, RenewIsGood
<1>9. ASSUME NEW c \in Clients, NEW silent \in SUBSET Clients, TimeOut(c, silent)
      PROVE  IInv' /\ ComesBackNewerStep /\ StaysInSightStep
  BY <1>9, TimeOutIsGood
<1>10. CASE UNCHANGED vars
  BY <1>10, StutterIsGood
<1> QED BY <1>1, <1>2, <1>3, <1>4, <1>5, <1>6, <1>7, <1>8, <1>9, <1>10 DEF Next

LEMMA IInvHolds == Spec => []IInv
<1>1. Init => IInv
  BY InitIsGood
<1>2. IInv /\ [Next]_vars => IInv'
  BY NextIsGood
<1> QED BY <1>1, <1>2, PTL DEF Spec

\* The variables have their types.
THEOREM TypeIsOK == Spec => []TypeOK
<1>1. IInv => TypeOK
  <2> SUFFICES ASSUME IInv PROVE TypeOK
    OBVIOUS
  <2>1. Believable(Own) \subseteq Message
    BY DEF Believable
  <2>2. /\ toServer \in [Clients -> Seq(Message)]
        /\ toClient \in [Clients -> Seq(Message)]
        /\ channel \in [Clients -> Seq(Message)]
    BY <2>1, QueuesGrow DEF IInv, Carries
  <2>3. wsconnected \subseteq Clients
    BY DEF IInv, TabsOK, OpenTabs
  <2> QED BY <2>2, <2>3 DEF IInv, TabsOK, AwarenessOK, LeadershipOK, TypeOK
<1> QED BY <1>1, IInvHolds, PTL

\* Whatever is lost, repeated or overtaken between any number of tabs, none of
\* them and no message is ahead of what a client itself has said: its next
\* renewal is believed.
THEOREM NobodyIsAhead == Spec => []NobodyAheadOfOwner
<1>1. IInv => NobodyAheadOfOwner
  <2> SUFFICES ASSUME IInv, NEW c \in Clients
               PROVE  /\ \A d \in Clients : clocks[d][c] <= clocks[c][c]
                      /\ \A e \in EntriesAbout(c) : e.clock <= clocks[c][c]
    BY DEF NobodyAheadOfOwner
  <2>1. \A d \in Clients : clocks[d][c] <= clocks[c][c]
    BY DEF IInv, AwarenessOK
  <2>2. ASSUME NEW queue \in Seq(Believable(Own)), NEW e \in Waiting(queue), e.client = c
        PROVE  e.clock <= clocks[c][c]
    <3>1. PICK n \in DOMAIN queue : e \in queue[n].entries
      BY DEF Waiting
    <3>2. queue[n] \in Believable(Own)
      BY ElementOfSeq, LenProperties
    <3>3. e.clock <= Own[e.client]
      BY <3>1, <3>2 DEF Believable
    <3> QED BY <2>2, <3>3 DEF Own
  <2>3. ASSUME NEW e \in EntriesAbout(c)
        PROVE  e.clock <= clocks[c][c]
    <3>1. PICK d \in Clients :
            /\ e \in Waiting(toServer[d]) \cup Waiting(toClient[d]) \cup Waiting(channel[d])
            /\ e.client = c
      BY DEF EntriesAbout
    <3>2. /\ toServer[d] \in Seq(Believable(Own)) /\ toClient[d] \in Seq(Believable(Own))
          /\ channel[d] \in Seq(Believable(Own))
      BY DEF IInv, Carries
    <3> QED BY <2>2, <3>1, <3>2
  <2> QED BY <2>1, <2>3
<1> QED BY <1>1, IInvHolds, PTL

\* Every open tab sees itself, takes the smallest client it sees for the leader
\* and sends snapshots just when that is itself, for any number of tabs.
THEOREM SmallestIsFollowed == Spec => []FollowsSmallestSeen
<1>1. IInv => FollowsSmallestSeen
  BY DEF IInv
<1> QED BY <1>1, IInvHolds, PTL

\* Clocks never go back in an open tab, and who was removed comes back only with
\* a newer clock: an overtaken renewal cannot undo a removal.
THEOREM OnlyNewerComesBack == Spec => ComesBackNewer
<1>1. IInv /\ [Next]_vars =>
        [\A c \in OpenTabs : \A d \in Clients :
           /\ clocks[c][d] <= clocks'[c][d]
           /\ d \in states'[c] \ states[c] => clocks[c][d] < clocks'[c][d]]_vars
  BY NextIsGood DEF ComesBackNewerStep
<1> QED BY <1>1, IInvHolds, PTL DEF Spec, ComesBackNewer

\* Without a fault nobody loses sight of a client, however many tabs repeat and
\* overtake each other's messages.
THEOREM NobodyIsLostFromSight == Spec => StaysInSight
<1>1. IInv /\ [Next]_vars =>
        [faults' = 0 => \A c \in Clients : states[c] \subseteq states'[c]]_vars
  BY NextIsGood DEF StaysInSightStep
<1> QED BY <1>1, IInvHolds, PTL DEF Spec, StaysInSight

=============================================================================
