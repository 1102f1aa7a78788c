---------------------------- MODULE MCOutboxRelay ----------------------------
(* Small instances of OutboxRelay for TLC.                                 *)
EXTENDS OutboxRelayInvariant

OneOrTwoInserts == {<<"insert">>, <<"insert", "insert">>}
AnyRow          == {<<"insert">>, <<"insert", "noTopic">>, <<"insert", "insert">>}
Streamed        == {<<"insert">>, <<"streamed">>}

=============================================================================
