------------------------------ MODULE MCNoteText ------------------------------
(* Three browsers: the first two type words, the third a character.        *)
EXTENDS NoteTextInvariant

Browsers == {1, 2, 3}
ItemsOfEach == <<2, 2, 1>>

\* The first browser only reads, one update after the other, when the others have
\* typed all of theirs, one character at a time: some behaviours of Spec.
ReadsLate == <<0, 3, 2>>

Type(r) == \E right \in Visible(r) \cup {NoId} : Change(r, right, right, 1)

LateNext ==
  \/ \E r \in Clients : IntegrateItem(r) \/ FinishReading(r)
  \/ Cardinality(updates) < MaxUpdates /\ \E r \in Clients \ {1} : Type(r) \/ ReceiveUpdate(r)
  \/ Cardinality(updates) = MaxUpdates /\ ReceiveUpdate(1)

LateSpec == Init /\ [][LateNext]_vars

=============================================================================
