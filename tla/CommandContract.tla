--------------------------- MODULE CommandContract ---------------------------
(***************************************************************************)
(* What one command round trip promises its caller, without threads,       *)
(* observers, queues or condition variables:                               *)
(*                                                                         *)
(*   "caller blocks in conn_queue.async_send(...) until command has        *)
(*    completed, or the watch-dog has been triggerred"                     *)
(*                                           (src/src/rfid_if.cpp:446)     *)
(*                                                                         *)
(* A caller opens the next command, lines of the reader are given to the   *)
(* open command and to no other, and the command closes only after a line  *)
(* that completes it was given or the alarm of its watch dog went off.     *)
(***************************************************************************)
EXTENDS Naturals, Sequences, ReaderLines

CONSTANTS
    Commands,             \* the commands a caller issues, by number: 1..n
    Kinds,                \* what a command waits for
    Packets               \* lines of the reader: records with a field line

VARIABLES
    current,              \* the open command, 0 if there is none
    kind,                 \* kind of every command issued so far
    given,                \* the packets given to every command, in order
    alarm                 \* the watch dog of the open command went off

contractVars == <<current, kind, given, alarm>>

Completed(n) == \E i \in DOMAIN given[n] : Completes(kind[n], given[n][i].line)

Init ==
    /\ current = 0
    /\ kind = [n \in Commands |-> "none"]
    /\ given = [n \in Commands |-> <<>>]
    /\ alarm = FALSE

Open(n, k) ==
    /\ current = 0
    /\ kind[n] = "none"
    /\ current' = n
    /\ kind' = [kind EXCEPT ![n] = k]
    /\ alarm' = FALSE
    /\ UNCHANGED given

Give(p) ==
    /\ current # 0
    /\ given' = [given EXCEPT ![current] = Append(@, p)]
    /\ UNCHANGED <<current, kind, alarm>>

Alarm ==
    /\ alarm' = TRUE
    /\ UNCHANGED <<current, kind, given>>

Rearm ==
    /\ current = 0
    /\ alarm' = FALSE
    /\ UNCHANGED <<current, kind, given>>

Close ==
    /\ current # 0
    /\ Completed(current) \/ alarm
    /\ current' = 0
    /\ UNCHANGED <<kind, given, alarm>>

Next ==
    \/ \E n \in Commands, k \in Kinds : Open(n, k)
    \/ \E p \in Packets : Give(p)
    \/ Alarm
    \/ Rearm
    \/ Close

Spec == Init /\ [][Next]_contractVars

=============================================================================
