----------------------------- MODULE NoteServer ------------------------------
(***************************************************************************)
(* One note of realtime-collaboration: NoteWsResource, which keeps the     *)
(* open sessions and the recorded sync messages of the note in two static  *)
(* maps and touches them without a lock, and the browsers, whose documents *)
(* are Yjs replicas behind a y-websocket provider.                         *)
(*                                                                         *)
(* The container calls the handlers of one session one after the other and *)
(* those of different sessions in parallel.  A document is the set of the  *)
(* updates it holds: Yjs merges them in any order and ignores repeats.     *)
(* A message is                                                            *)
(*   "ask"   sync step 1: what the sender holds; each receiver answers     *)
(*           with what is missing there                                    *)
(*   "tell"  sync step 2 or an update: updates to merge                    *)
(* Both begin with byte 0.  Awareness messages, which begin with another   *)
(* byte and are only passed on, are the subject of NotePresence; empty     *)
(* answers are left out: no document depends on them.                      *)
(***************************************************************************)
EXTENDS Integers, Sequences

CONSTANTS
  Clients,            \* browsers
  Sessions,           \* the sessions there may be: a bound on reconnections
  Owner,              \* the browser that opens each of them
  NoSession,
  MaxEdits,           \* bound on the edits of each browser
  MaxStoredUpdates,   \* MAX_STORED_UPDATES
  MaxFaults,          \* bound on the faults
  Faults              \* which of FaultKinds may happen

FaultKinds == {"connectionLost", "messagesLost", "tabClosed", "serverLost"}

ASSUME OwnerAssumption   == Owner \in [Sessions -> Clients] /\ NoSession \notin Sessions
ASSUME BoundsAssumption  ==
  MaxEdits \in [Clients -> Nat] /\ MaxStoredUpdates \in Nat /\ MaxFaults \in Nat
ASSUME FaultAssumption   == Faults \subseteq FaultKinds

VARIABLES
  doc,        \* browser: the updates its document holds
  edits,      \* browser: how many edits it has made
  connection, \* browser: its session, or NoSession
  toServer,   \* per session: messages on their way to the server
  toClient,   \* per session: messages on their way to the browser
  pc,         \* per session: what its handler does next
  handling,   \* per session: the message its handler has taken
  holding,    \* sessions whose handler holds the deque that is in NOTE_UPDATES
  sessions,   \* NOTE_SESSIONS of the note
  updates,    \* NOTE_UPDATES of the note; no entry and an empty one are alike
  faults      \* how many there have been

browsers == <<doc, edits, connection>>
maps     == <<sessions, updates>>
vars     == <<browsers, toServer, toClient, pc, handling, holding, maps, faults>>

Update  == UNION {{c} \X (1..MaxEdits[c]) : c \in Clients}
Message == [kind : {"ask", "tell"}, from : Sessions, content : SUBSET Update]
Steps   == {"unused", "opening", "replaying", "idle", "saving", "sending",
            "checking", "dropping", "closed"}

NoMessage == [kind |-> "none"]

TypeOK ==
  /\ doc \in [Clients -> SUBSET Update]
  /\ \A c \in Clients : edits[c] \in 0..MaxEdits[c]
  /\ connection \in [Clients -> Sessions \cup {NoSession}]
  /\ toServer \in [Sessions -> Seq(Message)] /\ toClient \in [Sessions -> Seq(Message)]
  /\ pc \in [Sessions -> Steps]
  /\ handling \in [Sessions -> Message \cup {NoMessage}]
  /\ holding \subseteq Sessions /\ sessions \subseteq Sessions
  /\ updates \in Seq(Message) /\ Len(updates) <= MaxStoredUpdates
  /\ faults \in 0..MaxFaults

Init ==
  /\ doc = [c \in Clients |-> {}]
  /\ edits = [c \in Clients |-> 0]
  /\ connection = [c \in Clients |-> NoSession]
  /\ toServer = [s \in Sessions |-> << >>] /\ toClient = [s \in Sessions |-> << >>]
  /\ pc = [s \in Sessions |-> "unused"]
  /\ handling = [s \in Sessions |-> NoMessage]
  /\ holding = {} /\ sessions = {} /\ updates = << >>
  /\ faults = 0

IsOpen(s) == connection[Owner[s]] = s

Ask(s, known)   == [kind |-> "ask", from |-> s, content |-> known]
Tell(s, told)   == [kind |-> "tell", from |-> s, content |-> told]

-----------------------------------------------------------------------------
(* The browser: script.js and the provider it creates.                     *)

\* The provider connects and asks for what the document lacks.
Connect(s) ==
  LET c == Owner[s]
  IN  /\ pc[s] = "unused" /\ connection[c] = NoSession
      /\ connection' = [connection EXCEPT ![c] = s]
      /\ pc' = [pc EXCEPT ![s] = "opening"]
      /\ toServer' = [toServer EXCEPT ![s] = <<Ask(s, doc[c])>>]
      /\ UNCHANGED <<doc, edits, toClient, handling, holding, maps, faults>>

\* An edit is sent when there is a connection, and only merged otherwise.
Edit(c) ==
  LET new == {<<c, edits[c] + 1>>}
      s   == connection[c]
  IN  /\ edits[c] < MaxEdits[c]
      /\ edits' = [edits EXCEPT ![c] = @ + 1]
      /\ doc' = [doc EXCEPT ![c] = @ \cup new]
      /\ toServer' = IF s = NoSession THEN toServer
                     ELSE [toServer EXCEPT ![s] = Append(@, Tell(s, new))]
      /\ UNCHANGED <<connection, toClient, pc, handling, holding, maps, faults>>

\* Mutant: leaves questions unanswered.
ReceiveWithoutAnswer(s) ==
  LET c == Owner[s]
      m == Head(toClient[s])
  IN  /\ IsOpen(s) /\ toClient[s] # << >>
      /\ toClient' = [toClient EXCEPT ![s] = Tail(@)]
      /\ doc' = [doc EXCEPT ![c] = IF m.kind = "tell" THEN @ \cup m.content ELSE @]
      /\ UNCHANGED <<edits, connection, toServer, pc, handling, holding, maps, faults>>

\* The provider merges what it is told and answers what it is asked.
Receive(s) ==
  LET c == Owner[s]
      m == Head(toClient[s])
      missing == doc[c] \ m.content
  IN  /\ IsOpen(s) /\ toClient[s] # << >>
      /\ toClient' = [toClient EXCEPT ![s] = Tail(@)]
      /\ doc' = [doc EXCEPT ![c] = IF m.kind = "tell" THEN @ \cup m.content ELSE @]
      /\ toServer' = IF m.kind = "ask" /\ missing # {}
                     THEN [toServer EXCEPT ![s] = Append(@, Tell(s, missing))]
                     ELSE toServer
      /\ UNCHANGED <<edits, connection, pc, handling, holding, maps, faults>>

Fault(kind) ==
  /\ kind \in Faults /\ faults < MaxFaults
  /\ faults' = faults + 1

Disconnect(s) ==
  /\ IsOpen(s)
  /\ connection' = [connection EXCEPT ![Owner[s]] = NoSession]
  /\ toClient' = [toClient EXCEPT ![s] = << >>]
  /\ UNCHANGED <<edits, pc, handling, holding, maps>>

\* The connection breaks, and may take with it what was on its way.
LoseConnection(s) ==
  /\ Disconnect(s)
  /\ \/ Fault("connectionLost") /\ UNCHANGED toServer
     \/ Fault("messagesLost") /\ toServer' = [toServer EXCEPT ![s] = << >>]
  /\ UNCHANGED doc

\* The tab is closed, and the document with it.
CloseTab(s) ==
  /\ Fault("tabClosed")
  /\ Disconnect(s)
  /\ doc' = [doc EXCEPT ![Owner[s]] = {}]
  /\ UNCHANGED toServer

-----------------------------------------------------------------------------
(* The server: the handlers of NoteWsResource, step by step.               *)

At(s, here, then) ==
  /\ pc[s] = here
  /\ pc' = [pc EXCEPT ![s] = then]
  /\ UNCHANGED <<browsers, faults>>

AddSession(s) ==
  /\ sessions' = sessions \cup {s}
  /\ UNCHANGED <<updates, toServer, toClient, handling, holding>>

\* Mutant: nothing is replayed.
ReplayNothingTo(s) ==
  UNCHANGED <<toClient, maps, toServer, handling, holding>>

\* The iteration over the deque is one step here: interleaved, it would also
\* send what is added meanwhile, which the broadcast sends in any case.
ReplayUpdatesTo(s) ==
  /\ toClient' = [toClient EXCEPT ![s] = IF IsOpen(s) THEN @ \o updates ELSE @]
  /\ UNCHANGED <<maps, toServer, handling, holding>>

\* Mutant: replays before it adds the session.
OnOpenReplayingFirst(s) ==
  \/ At(s, "opening", "replaying") /\ ReplayUpdatesTo(s)
  \/ At(s, "replaying", "idle") /\ AddSession(s)

OnOpen(s) ==
  \/ At(s, "opening", "replaying") /\ AddSession(s)
  \/ At(s, "replaying", "idle") /\ ReplayUpdatesTo(s)

\* The next message; findUpdates gets or creates the deque of the note.
TakeMessage(s) ==
  /\ toServer[s] # << >>
  /\ handling' = [handling EXCEPT ![s] = Head(toServer[s])]
  /\ toServer' = [toServer EXCEPT ![s] = Tail(@)]
  /\ holding' = holding \cup {s}
  /\ UNCHANGED <<maps, toClient>>

\* Mutant: keeps one too many.
RetainedOneMore(log) ==
  IF Len(log) <= MaxStoredUpdates + 1 THEN log ELSE Tail(log)

\* addLast, then pollFirst down to the limit, as one step: two handlers at it
\* at once may poll one message more.
Retained(log) ==
  IF Len(log) <= MaxStoredUpdates THEN log
  ELSE SubSeq(log, Len(log) - MaxStoredUpdates + 1, Len(log))

\* A deque that was removed from the map meanwhile takes the message with it.
SaveMessage(s) ==
  /\ updates' = IF s \in holding THEN Retained(Append(updates, handling[s])) ELSE updates
  /\ holding' = holding \ {s}
  /\ UNCHANGED <<sessions, toServer, toClient, handling>>

BroadcastToOthers(s) ==
  /\ toClient' = [t \in Sessions |->
                    IF t \in sessions \ {s} /\ IsOpen(t)
                    THEN Append(toClient[t], handling[s]) ELSE toClient[t]]
  /\ handling' = [handling EXCEPT ![s] = NoMessage]
  /\ UNCHANGED <<maps, toServer, holding>>

OnBinary(s) ==
  \/ At(s, "idle", "saving") /\ TakeMessage(s)
  \/ At(s, "saving", "sending") /\ SaveMessage(s)
  \/ At(s, "sending", "idle") /\ BroadcastToOthers(s)

RemoveSession(s) ==
  /\ ~IsOpen(s) /\ toServer[s] = << >>
  /\ sessions' = sessions \ {s}
  /\ UNCHANGED <<updates, toServer, toClient, handling, holding>>

\* NOTE_UPDATES.remove: whoever holds the deque holds one that is no longer in
\* the map.
DropUpdates(s) ==
  /\ updates' = << >>
  /\ holding' = {}
  /\ UNCHANGED <<sessions, toServer, toClient, handling>>

OnClose(s) ==
  \/ At(s, "idle", "checking") /\ RemoveSession(s)
  \/ /\ At(s, "checking", IF sessions = {} THEN "dropping" ELSE "closed")
     /\ UNCHANGED <<maps, toServer, toClient, handling, holding>>
  \/ At(s, "dropping", "closed") /\ DropUpdates(s)

\* Every session ends with the server, and both maps start empty again.
Crash ==
  /\ Fault("serverLost")
  /\ connection' = [c \in Clients |-> NoSession]
  /\ pc' = [s \in Sessions |-> IF pc[s] = "unused" THEN "unused" ELSE "closed"]
  /\ toServer' = [s \in Sessions |-> << >>] /\ toClient' = [s \in Sessions |-> << >>]
  /\ handling' = [s \in Sessions |-> NoMessage]
  /\ holding' = {} /\ sessions' = {} /\ updates' = << >>
  /\ UNCHANGED <<doc, edits>>

-----------------------------------------------------------------------------
Handler(s) == OnOpen(s) \/ OnBinary(s) \/ OnClose(s)

Next ==
  \/ \E c \in Clients : Edit(c)
  \/ \E s \in Sessions :
       Connect(s) \/ Receive(s) \/ LoseConnection(s) \/ CloseTab(s) \/ Handler(s)
  \/ Crash

Spec == Init /\ [][Next]_vars

-----------------------------------------------------------------------------
(* Properties.                                                             *)

Told(m) == IF m.kind = "tell" THEN m.content ELSE {}

Contents(messages) == UNION {Told(messages[n]) : n \in DOMAIN messages}

\* What a handler has saved and is about to broadcast.
AboutToSend ==
  UNION {Told(handling[s]) : s \in {u \in Sessions : pc[u] = "sending"}}

\* Every recorded update is held by, or on its way to, every session whose
\* onOpen has returned: none falls between replay and broadcast.
ReachesEveryone ==
  \A s \in Sessions :
    IsOpen(s) /\ pc[s] \notin {"opening", "replaying"} =>
      Contents(updates) \subseteq
        doc[Owner[s]] \cup Contents(toClient[s]) \cup AboutToSend

\* The server remembers what the session has asked for.
Announced(s) == \E n \in DOMAIN updates : updates[n].kind = "ask" /\ updates[n].from = s

Agree == \A s, t \in Sessions : IsOpen(s) /\ IsOpen(t) => doc[Owner[s]] = doc[Owner[t]]

\* No message is on its way and no handler is at work: the note stays as it is
\* until somebody edits, joins or leaves.
AtRest ==
  \A s \in Sessions :
    /\ pc[s] \in {"unused", "idle", "closed"}
    /\ toServer[s] = << >> /\ toClient[s] = << >>

\* Connected browsers whose questions the server remembers hold the same
\* document whenever the note is at rest, whatever was lost before with a
\* connection, a tab or the server.
AnnouncedAgree == AtRest /\ (\A s \in Sessions : IsOpen(s) => Announced(s)) => Agree

-----------------------------------------------------------------------------
(* What the repository says, and the code does not keep.                   *)

\* README.md:4, real-time editing for several users: connected browsers hold
\* the same document whenever the note is at rest.
ConnectedAgree == AtRest => Agree

==============================================================================
