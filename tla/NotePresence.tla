----------------------------- MODULE NotePresence -----------------------------
(***************************************************************************)
(* Who is present at a note of realtime-collaboration, and which browser   *)
(* tab leads: the awareness of script.js, the provider that carries it,    *)
(* and evaluateLeadership on top.                                          *)
(*                                                                         *)
(* A tab is its clientID, a number drawn when it is opened; the smallest   *)
(* one present leads and sends snapshots.  Nobody stores presence: a tab   *)
(* announces itself when it connects and renews its state every fifteen    *)
(* seconds, the server passes each message on to the sessions open at that *)
(* moment, tabs of one browser also talk over a BroadcastChannel, and a    *)
(* state not renewed for thirty seconds is removed.  Whatever changes a    *)
(* tab's awareness is sent on, whoever it came from.                       *)
(*                                                                         *)
(* What a state says (name, colour, cursor) is left out: only whether      *)
(* there is one, and the clock it was set at.                              *)
(***************************************************************************)
EXTENDS Integers, Sequences

CONSTANTS
  Clients,       \* the clientIDs of the tabs there may be
  Starts,        \* what to start from: the browser of each tab, and which tabs are
                 \* open and see each other
  MaxClock,      \* bound on the renewals of each that nobody needs
  MaxFaults,     \* bound on the faults
  Faults         \* which of FaultKinds may happen

FaultKinds == {"connectionLost", "tabClosed", "slow"}
TabStates  == {"unopened", "open", "closed"}
NoClient   == 0

ASSUME ClientAssumption == Clients \subseteq Nat \ {NoClient}
ASSUME StartAssumption  ==
  \A start \in Starts : DOMAIN start.browser = Clients /\ start.tab \in [Clients -> TabStates]
ASSUME BoundsAssumption == MaxClock \in [Clients -> Nat] /\ MaxFaults \in Nat
ASSUME FaultAssumption  == Faults \subseteq FaultKinds

VARIABLES
  browser,         \* tab: the browser it is opened in
  tab,             \* tab: unopened, open or closed
  states,          \* tab: the clients awareness.states has a state of
  clocks,          \* tab: the clock in awareness.meta of each, 0 without meta
  leaderClientId,  \* tab: leaderClientId of script.js
  snapshotTimer,   \* tab: whether its snapshotTimer runs
  wsconnected,     \* tabs whose provider is connected, and their sessions open
  toServer,        \* tab: messages on their way to the server
  toClient,        \* tab: messages on their way from the server
  channel,         \* tab: messages of the BroadcastChannel not yet read
  faults           \* how many there have been

awareness  == <<states, clocks>>
leadership == <<leaderClientId, snapshotTimer>>
network    == <<toServer, toClient, channel>>
vars == <<browser, tab, awareness, leadership, wsconnected, network, faults>>

Entry   == [client : Clients, clock : Nat, present : BOOLEAN]
Query   == [kind |-> "query", entries |-> {}]
Message == [kind : {"awareness", "query"}, entries : SUBSET Entry]

TypeOK ==
  /\ DOMAIN browser = Clients
  /\ tab \in [Clients -> TabStates]
  /\ states \in [Clients -> SUBSET Clients]
  /\ clocks \in [Clients -> [Clients -> Nat]]
  /\ \A c \in Clients : \A d \in states[c] : clocks[c][d] # 0
  /\ leaderClientId \in [Clients -> Clients \cup {NoClient}]
  /\ snapshotTimer \in [Clients -> BOOLEAN]
  /\ wsconnected \subseteq Clients
  /\ toServer \in [Clients -> Seq(Message)]
  /\ toClient \in [Clients -> Seq(Message)]
  /\ channel \in [Clients -> Seq(Message)]
  /\ faults \in 0..MaxFaults

OpenTabs == {c \in Clients : tab[c] = "open"}
Smallest(S) == CHOOSE c \in S : \A d \in S : c <= d

\* The tabs that are open have renewed their state once and heard of each other.
Init ==
  /\ \E start \in Starts : browser = start.browser /\ tab = start.tab
  /\ states = [c \in Clients |-> IF c \in OpenTabs THEN OpenTabs ELSE {}]
  /\ clocks = [c \in Clients |-> [d \in Clients |-> IF {c, d} \subseteq OpenTabs THEN 2 ELSE 0]]
  /\ leaderClientId = [c \in Clients |-> IF c \in OpenTabs THEN Smallest(OpenTabs) ELSE NoClient]
  /\ snapshotTimer = [c \in Clients |-> leaderClientId[c] = c]
  /\ wsconnected = OpenTabs
  /\ toServer = [c \in Clients |-> << >>] /\ toClient = [c \in Clients |-> << >>]
  /\ channel = [c \in Clients |-> << >>]
  /\ faults = 0

\* The other open tabs of the browser.
Siblings(c) == {d \in OpenTabs \ {c} : browser[d] = browser[c]}

Fault(kind) ==
  /\ kind \in Faults /\ faults < MaxFaults
  /\ faults' = faults + 1

-----------------------------------------------------------------------------
(* Which of the entries of a message a tab takes.                          *)

\* Mutant: takes whatever is not older.
AcceptsRepeated(c, e) == clocks[c][e.client] <= e.clock

\* Newer than what the tab has, or the removal of just that.
Accepts(c, e) ==
  \/ clocks[c][e.client] < e.clock
  \/ clocks[c][e.client] = e.clock /\ ~e.present /\ e.client \in states[c]

\* An update of which the tab would take nothing when it is sent is left out:
\* what is stale stays stale, as ComesBackNewer says.
Matters(c, m) == \E e \in m.entries : Accepts(c, e)

-----------------------------------------------------------------------------
(* Sending: _awarenessUpdateHandler.                                       *)

\* The message that tells of these clients; none when there is nothing to tell.
AwarenessUpdate(told, known, clock) ==
  IF told = {} THEN << >>
  ELSE << [kind    |-> "awareness",
           entries |-> {[client |-> d, clock |-> clock[d], present |-> d \in known] :
                          d \in told}] >>

Heard(c, update) == IF update # << >> /\ Matters(c, update[1]) THEN update ELSE << >>

\* On the channel a tab writes for its siblings, a question first if it has one;
\* unread is what it has itself still to read.
Publish(c, unread, question, update) ==
  channel' = [d \in Clients |-> IF d = c THEN unread
                                ELSE IF d \notin Siblings(c) THEN channel[d]
                                ELSE channel[d] \o question \o Heard(d, update)]

BroadcastMessage(c, unread, update) ==
  /\ toServer' = IF c \in wsconnected THEN [toServer EXCEPT ![c] = @ \o update] ELSE toServer
  /\ Publish(c, unread, << >>, update)

\* Mutant: only the states are set, not the meta data.
SetAwarenessWithoutMeta(c, known, clock) ==
  /\ states' = [states EXCEPT ![c] = known]
  /\ UNCHANGED clocks

SetAwareness(c, known, clock) ==
  /\ states' = [states EXCEPT ![c] = known]
  /\ clocks' = [clocks EXCEPT ![c] = clock]

-----------------------------------------------------------------------------
(* Leading: script.js.                                                     *)

\* A tab always knows itself, so there is always somebody to lead.
EvaluateLeadership(c, known) ==
  LET nextLeader == Smallest(known)
  IN  /\ leaderClientId' = [leaderClientId EXCEPT ![c] = nextLeader]
      /\ snapshotTimer' = [snapshotTimer EXCEPT
           ![c] = IF leaderClientId[c] = nextLeader THEN @ ELSE nextLeader = c]

\* The "change" listener.
OnChange(c, changed, known) ==
  IF changed = {} THEN UNCHANGED leadership ELSE EvaluateLeadership(c, known)

-----------------------------------------------------------------------------
(* The tab.                                                                *)

\* script.js runs to its end: the provider asks the siblings what they know,
\* the tab's state is set, and a tab that knows only itself leads.  (The state
\* the constructor has sent before, of clock 0, nobody takes.)
OpenTab(c) ==
  LET clock == [d \in Clients |-> IF d = c THEN 1 ELSE 0]
  IN  /\ tab[c] = "unopened"
      /\ tab' = [tab EXCEPT ![c] = "open"]
      /\ SetAwareness(c, {c}, clock)
      /\ Publish(c, channel[c], <<Query>>, AwarenessUpdate({c}, {c}, clock))
      /\ EvaluateLeadership(c, {c})
      /\ UNCHANGED <<browser, wsconnected, toServer, toClient, faults>>

\* Mutant: announces the tab without its state.
ConnectWithoutState(c) ==
  /\ tab[c] = "open" /\ c \notin wsconnected
  /\ wsconnected' = wsconnected \cup {c}
  /\ toServer' = [toServer EXCEPT ![c] = AwarenessUpdate({c}, {}, clocks[c])]
  /\ UNCHANGED <<browser, tab, awareness, leadership, toClient, channel, faults>>

\* onOpen of the server, and websocket.onopen, where the tab announces itself
\* with the clock it has.  What is broadcast between the two reaches the tab or
\* is lost to it, as it would be after or before this step.
Connect(c) ==
  /\ tab[c] = "open" /\ c \notin wsconnected
  /\ wsconnected' = wsconnected \cup {c}
  /\ toServer' = [toServer EXCEPT ![c] = AwarenessUpdate({c}, states[c], clocks[c])]
  /\ UNCHANGED <<browser, tab, awareness, leadership, toClient, channel, faults>>

\* Somebody removed the tab that reads this: it keeps its state and outbids
\* the clock.
Denies(c, e) == e.client = c /\ ~e.present

\* Mutant: a state that comes back is taken for a renewal.
ChangesWhenNew(c, e) == ~e.present \/ clocks[c][e.client] = 0

\* Added, removed, or back after a removal.
Changes(c, e) == ~e.present \/ e.client \notin states[c]

\* applyAwarenessUpdate.  The removal of a client never heard of is noted, and
\* told nobody.
ApplyAwarenessUpdate(c, entries, unread) ==
  LET accepted == {e \in entries : Accepts(c, e)}
      noticed  == {e \in accepted : e.present \/ clocks[c][e.client] > 0}
      added    == {e.client : e \in {f \in accepted : f.present}}
      removed  == {e.client : e \in {f \in accepted : ~f.present /\ ~Denies(c, f)}}
      known    == (states[c] \ removed) \cup added
      clock    == [d \in Clients |->
                     IF \E e \in accepted : e.client = d
                     THEN LET e == CHOOSE f \in accepted : f.client = d
                          IN  IF Denies(c, e) THEN e.clock + 1 ELSE e.clock
                     ELSE clocks[c][d]]
  IN  /\ SetAwareness(c, known, clock)
      /\ OnChange(c, {e \in noticed : Changes(c, e)}, known)
      /\ BroadcastMessage(c, unread, AwarenessUpdate({e.client : e \in noticed}, known, clock))

\* websocket.onmessage.
ReceiveFromServer(c) ==
  /\ c \in wsconnected /\ toClient[c] # << >>
  /\ ApplyAwarenessUpdate(c, Head(toClient[c]).entries, channel[c])
  /\ toClient' = [toClient EXCEPT ![c] = Tail(@)]
  /\ UNCHANGED <<browser, tab, wsconnected, faults>>

\* _bcSubscriber: a query is answered with everything the tab knows, for all
\* its siblings.
ReceiveFromTab(c) ==
  /\ tab[c] = "open" /\ channel[c] # << >>
  /\ IF Head(channel[c]) = Query
     THEN /\ Publish(c, Tail(channel[c]), << >>, AwarenessUpdate(states[c], states[c], clocks[c]))
          /\ UNCHANGED <<awareness, leadership, toServer>>
     ELSE ApplyAwarenessUpdate(c, Head(channel[c]).entries, Tail(channel[c]))
  /\ UNCHANGED <<browser, tab, wsconnected, toClient, faults>>

Waiting(queue) == UNION {queue[n].entries : n \in DOMAIN queue}

OnTheWay(c) ==
  \E d \in Clients : \E e \in Waiting(toServer[d]) \cup Waiting(toClient[d]) \cup Waiting(channel[d]) :
    e.client = c

\* Someone within reach does not see the tab, and nothing that says so is on its
\* way: the fifteen seconds are much longer than a message takes.
Overdue(c) ==
  /\ \E d \in OpenTabs : c \notin states[d] /\ ({c, d} \subseteq wsconnected \/ d \in Siblings(c))
  /\ ~OnTheWay(c)

\* Mutant: the state is sent again at the clock it has.
RenewAtSameClock(c) ==
  /\ tab[c] = "open"
  /\ Overdue(c)
  /\ BroadcastMessage(c, channel[c], AwarenessUpdate({c}, states[c], clocks[c]))
  /\ UNCHANGED <<browser, tab, awareness, leadership, wsconnected, toClient, faults>>

\* setLocalState, every fifteen seconds or when the cursor moves.  Renewals
\* nobody needs only move clocks: all but MaxClock of them are left out.
Renew(c) ==
  LET clock == [clocks[c] EXCEPT ![c] = @ + 1]
  IN  /\ tab[c] = "open"
      /\ clocks[c][c] < MaxClock[c] \/ Overdue(c)
      /\ SetAwareness(c, states[c], clock)
      /\ BroadcastMessage(c, channel[c], AwarenessUpdate({c}, states[c], clock))
      /\ UNCHANGED <<browser, tab, leadership, wsconnected, toClient, faults>>

\* Mutant: every removed client's clock is bumped, not only the own one's.
RemoveAwarenessStatesOfAll(c, removed) ==
  /\ SetAwareness(c, states[c] \ removed,
                  [d \in Clients |-> IF d \in removed THEN clocks[c][d] + 1 ELSE clocks[c][d]])
  /\ OnChange(c, removed, states[c] \ removed)

\* removeAwarenessStates of others: the clocks stay.
RemoveAwarenessStates(c, removed) ==
  /\ SetAwareness(c, states[c] \ removed, clocks[c])
  /\ OnChange(c, removed, states[c] \ removed)

\* The check interval finds states that were not renewed for thirty seconds:
\* those of closed tabs, and of tabs that are slow, since browsers throttle the
\* timers of a tab in the background.
TimeOut(c, silent) ==
  /\ tab[c] = "open" /\ silent # {} /\ silent \subseteq states[c] \ {c}
  /\ IF \A d \in silent : tab[d] = "closed" THEN UNCHANGED faults ELSE Fault("slow")
  /\ RemoveAwarenessStates(c, silent)
  /\ BroadcastMessage(c, channel[c], AwarenessUpdate(silent, states[c] \ silent, clocks[c]))
  /\ UNCHANGED <<browser, tab, wsconnected, toClient>>

\* websocket.onclose, also when the provider itself closes a connection it has
\* heard nothing from for thirty seconds: everybody else is removed, which only
\* the siblings are told.
LoseConnection(c) ==
  LET others == states[c] \ {c}
  IN  /\ c \in wsconnected
      /\ Fault("connectionLost")
      /\ wsconnected' = wsconnected \ {c}
      /\ toServer' = [toServer EXCEPT ![c] = << >>]
      /\ toClient' = [toClient EXCEPT ![c] = << >>]
      /\ RemoveAwarenessStates(c, others)
      /\ Publish(c, channel[c], << >>, AwarenessUpdate(others, {c}, clocks[c]))
      /\ UNCHANGED <<browser, tab>>

\* A browser tells nobody: the exit handler of the provider is one of Node.
CloseTab(c) ==
  /\ tab[c] = "open"
  /\ Fault("tabClosed")
  /\ tab' = [tab EXCEPT ![c] = "closed"]
  /\ wsconnected' = wsconnected \ {c}
  /\ toServer' = [toServer EXCEPT ![c] = << >>]
  /\ toClient' = [toClient EXCEPT ![c] = << >>]
  /\ channel' = [channel EXCEPT ![c] = << >>]
  /\ snapshotTimer' = [snapshotTimer EXCEPT ![c] = FALSE]
  /\ UNCHANGED <<browser, awareness, leaderClientId>>

-----------------------------------------------------------------------------
(* The server: NoteWsResource.                                             *)

\* onBinary of a message that is not of byte 0: broadcastToOthers only, here one
\* step.
BroadcastToOthers(c) ==
  /\ c \in wsconnected /\ toServer[c] # << >>
  /\ toClient' = [d \in Clients |->
                    IF d \in wsconnected \ {c} /\ Matters(d, Head(toServer[c]))
                    THEN Append(toClient[d], Head(toServer[c])) ELSE toClient[d]]
  /\ toServer' = [toServer EXCEPT ![c] = Tail(@)]
  /\ UNCHANGED <<browser, tab, awareness, leadership, wsconnected, channel, faults>>

-----------------------------------------------------------------------------
Next ==
  \E c \in Clients :
    \/ OpenTab(c) \/ CloseTab(c)
    \/ Connect(c) \/ LoseConnection(c)
    \/ BroadcastToOthers(c) \/ ReceiveFromServer(c) \/ ReceiveFromTab(c)
    \/ Renew(c)
    \/ \E silent \in SUBSET Clients : TimeOut(c, silent)

Spec == Init /\ [][Next]_vars

(* Fairness: messages arrive, the provider reconnects on its own, and the   *)
(* check interval runs in every tab.  Nobody has to open or close a tab.    *)
Fairness ==
  \A c \in Clients :
    /\ WF_vars(Connect(c))
    /\ WF_vars(BroadcastToOthers(c))
    /\ WF_vars(ReceiveFromServer(c)) /\ WF_vars(ReceiveFromTab(c))
    /\ WF_vars(Overdue(c) /\ Renew(c))
    /\ WF_vars(\E silent \in SUBSET Clients :
                 (\A d \in silent : tab[d] = "closed") /\ TimeOut(c, silent))

FairSpec == Spec /\ Fairness

-----------------------------------------------------------------------------
(* Properties.                                                             *)

\* No message and no tab is ahead of a client's own clock: what a client says
\* next of itself is believed by everybody, whoever removed it meanwhile.
EntriesAbout(c) ==
  UNION {{e \in Waiting(toServer[d]) \cup Waiting(toClient[d]) \cup Waiting(channel[d]) :
            e.client = c} : d \in Clients}

NobodyAheadOfOwner ==
  \A c \in Clients :
    /\ \A d \in Clients : clocks[d][c] <= clocks[c][c]
    /\ \A e \in EntriesAbout(c) : e.clock <= clocks[c][c]

\* Whatever reached a tab, in whatever order: it sees itself, follows the
\* smallest client it sees, and runs the timer just when that is itself.
FollowsSmallestSeen ==
  \A c \in OpenTabs :
    /\ c \in states[c]
    /\ leaderClientId[c] = Smallest(states[c])
    /\ snapshotTimer[c] <=> leaderClientId[c] = c

\* Clocks never go back, and a state that was removed comes back only with a
\* newer one: what a tab would not take it will never take, whatever messages
\* are overtaken.
ComesBackNewer ==
  [][\A c \in OpenTabs : \A d \in Clients :
       /\ clocks[c][d] <= clocks'[c][d]
       /\ d \in states'[c] \ states[c] => clocks[c][d] < clocks'[c][d]]_vars

\* Without a fault a client once seen stays in sight, whatever repeats and
\* overtakings the broadcasts make.
StaysInSight ==
  [][faults' = 0 => \A c \in Clients : states[c] \subseteq states'[c]]_vars

\* Once nobody comes or goes, everybody sees the open tabs and nobody else, and
\* exactly one of them sends snapshots.
Settled ==
  \A c \in OpenTabs :
    /\ states[c] = OpenTabs
    /\ snapshotTimer[c] <=> c = Smallest(OpenTabs)

EventuallySettled == <>[]Settled

==============================================================================
