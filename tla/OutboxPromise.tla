---------------------------- MODULE OutboxPromise ----------------------------
(***************************************************************************)
(* What an outbox relay promises, whatever it relays and through whatever  *)
(* broker: a record may leave the outbox (be released) only when it has    *)
(* been published, or when the relay has said that it gave it up.          *)
(* Publishing may be repeated: the promise is "at least once, or told".    *)
(***************************************************************************)
CONSTANT Record

VARIABLES committed, published, givenUp, released

vars == <<committed, published, givenUp, released>>

Init == committed = {} /\ published = {} /\ givenUp = {} /\ released = {}

Commit(S) ==
  /\ committed' = committed \cup S
  /\ UNCHANGED <<published, givenUp, released>>

Publish(r) ==
  /\ r \in committed
  /\ published' = published \cup {r}
  /\ UNCHANGED <<committed, givenUp, released>>

GiveUp(r) ==
  /\ r \in committed
  /\ givenUp' = givenUp \cup {r}
  /\ UNCHANGED <<committed, published, released>>

Release(S) ==
  /\ S \subseteq committed /\ S \subseteq published \cup givenUp
  /\ released' = released \cup S
  /\ UNCHANGED <<committed, published, givenUp>>

Next ==
  \/ \E S \in SUBSET Record : Commit(S) \/ Release(S)
  \/ \E r \in Record : Publish(r) \/ GiveUp(r)

Spec == Init /\ [][Next]_vars

=============================================================================
