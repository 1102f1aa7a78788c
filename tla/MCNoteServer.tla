---------------------------- MODULE MCNoteServer -----------------------------
(* Small instances of NoteServer for TLC.                                   *)
EXTENDS NoteAgreement

CONSTANTS a, b, a1, b1, b2

TwoClients    == {a, b}
ThreeSessions == {a1, b1, b2}
OwnerOfThree  == [s \in ThreeSessions |-> IF s = a1 THEN a ELSE b]

OneEdit(c)  == [d \in TwoClients |-> IF d = c THEN 1 ELSE 0]
EditOfA     == OneEdit(a)
EditOfB     == OneEdit(b)

==============================================================================
