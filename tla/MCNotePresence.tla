---------------------------- MODULE MCNotePresence ---------------------------
(* Small instances of NotePresence for TLC.                                 *)
EXTENDS NotePresence

\* Two tabs that are opened, in one browser or in two, and a third that never
\* is; and three that are present, two of them in one browser.
JoiningOrPresent ==
  [browser : {<<"x", "x", "y">>, <<"x", "y", "y">>}, tab : {<<"unopened", "unopened", "closed">>}]
    \cup [browser : {<<"x", "x", "y">>}, tab : {<<"open", "open", "open">>}]


\* The first tab may renew its state once when nobody needs it.
OneRenewal == <<2, 0, 0>>

==============================================================================
