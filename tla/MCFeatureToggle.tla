---------------------------- MODULE MCFeatureToggle ----------------------------
(* Two threads, one that decides by a parameter, and two edits of it.      *)
EXTENDS FeatureToggle

CONSTANTS r1, r2, w1, w2, p1

OneAsks == [r \in {r1, r2} |-> IF r = r1 THEN {p1} ELSE {}]
OneWrites == [w \in {w1, w2} |-> IF w = w1 THEN {p1} ELSE {}]

=============================================================================
