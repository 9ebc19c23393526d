--------------------------- MODULE MCPacketFraming ---------------------------
(* Bounded instances of PacketFraming for TLC. *)
EXTENDS PacketFraming

\* Lines and heartbeats mixed, with a connection opened in the middle of
\* either; more packets of a kind than one task_func extracts; the answers of
\* a reboot; the data of unit_test.cpp:68-69.
MixedStreams ==
    {<<"line", "line", "beat", "line", "beat">>,
     <<"torn_line", "line", "beat", "line", "line">>,
     <<"torn_line", "beat", "beat", "line">>,
     <<"torn_beat", "beat", "line", "beat", "beat">>,
     <<"torn_beat", "line", "line", "line", "beat", "beat">>,
     <<"beat", "beat", "beat", "beat", "line">>,
     <<"boot", "line", "boot", "boot", "boot">>,
     <<"beat", "line", "beat", "beat", "beat">>}

=============================================================================
