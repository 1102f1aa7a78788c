---------------------------- MODULE NoteAgreement ----------------------------
(***************************************************************************)
(* The inductive invariant behind AnnouncedAgree of NoteServer: what one   *)
(* browser holds is held by another, or on its way to it, or the other's   *)
(* question, which will be answered with it, is on its way back.           *)
(***************************************************************************)
EXTENDS NoteServer

Asks(m, t)  == m.kind = "ask" /\ m.from = t
AskIn(q, t) == \E n \in DOMAIN q : Asks(q[n], t)

-----------------------------------------------------------------------------
(* The messages.                                                           *)

\* A question is asked by a session, and of what its browser knew: as long as it
\* is open that browser still knows it.
Honest ==
  {m \in Message : m.kind = "ask" =>
     pc[m.from] # "unused" /\ (IsOpen(m.from) => m.content \subseteq doc[Owner[m.from]])}

Honesty ==
  /\ toServer \in [Sessions -> Seq(Honest)] /\ toClient \in [Sessions -> Seq(Honest)]
  /\ handling \in [Sessions -> Honest \cup {NoMessage}]
  /\ updates \in Seq(Honest)

From(s) == {m \in Message : m.from = s}

SentBySelf ==
  \A s \in Sessions : toServer[s] \in Seq(From(s)) /\ handling[s] \in From(s) \cup {NoMessage}

\* Before its onOpen a session gets nothing ...
NothingBeforeOnOpen ==
  \A s \in Sessions : pc[s] \in {"unused", "opening"} =>
    s \notin sessions /\ toClient[s] = << >>

\* ... and until it has returned, its question waits.
AsksAfterOnOpen ==
  \A s \in Sessions : IsOpen(s) /\ pc[s] \in {"opening", "replaying"} => AskIn(toServer[s], s)

-----------------------------------------------------------------------------
(* What one browser knows and another one gets.                            *)

\* The question of t has not been broadcast yet.
AskAtServer(t) == AskIn(toServer[t], t) \/ Asks(handling[t], t)

\* The server has the question of t in its log, or will have it.
Remembered(t) ==
  \/ AskIn(toServer[t], t)
  \/ pc[t] = "saving" /\ t \in holding /\ Asks(handling[t], t)
  \/ AskIn(updates, t)

\* What t holds, or will hold without asking anybody.
Gets(t) ==
  doc[Owner[t]] \cup Contents(toClient[t]) \cup (IF t \in sessions THEN AboutToSend ELSE {})

Tells(s) == Contents(toServer[s]) \cup Told(handling[s])

\* What s, once it has joined, holds, t gets, or s will tell it, or a question
\* of t, which s answers with it, is on its way.
HeldIsPassedOn(s, t) ==
  /\ pc[s] \notin {"opening", "replaying"} /\ Remembered(t)
  /\ ~AskAtServer(t) /\ ~AskIn(toClient[s], t)
  => doc[Owner[s]] \subseteq Gets(t) \cup Tells(s)

\* What is on its way to s, t gets too, unless a question of t comes after it.
Covered(q, t, known) ==
  \A n \in DOMAIN q :
    \/ Told(q[n]) \subseteq known
    \/ \E m \in DOMAIN q : m > n /\ Asks(q[m], t)

SentIsPassedOn(s, t) == AskAtServer(t) \/ Covered(toClient[s], t, Gets(t))

PassedOn ==
  \A s, t \in Sessions : IsOpen(s) /\ IsOpen(t) /\ s # t =>
    HeldIsPassedOn(s, t) /\ SentIsPassedOn(s, t)

\* However messages, replays, broadcasts and faults interleave: no question is
\* overtaken, and no update of one connected browser is lost on another, unless
\* the server has forgotten the other's question.
Convergent ==
  Honesty /\ SentBySelf /\ NothingBeforeOnOpen /\ AsksAfterOnOpen /\ PassedOn

=============================================================================
