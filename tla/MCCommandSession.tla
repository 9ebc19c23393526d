-------------------------- MODULE MCCommandSession --------------------------
(***************************************************************************)
(* CommandSession for TLC.  Two commands are enough for a late line of the *)
(* first to meet the second; one inner line is enough for a collecting     *)
(* command to be notified twice and for a raw command to leave a line      *)
(* behind.                                                                 *)
(***************************************************************************)
EXTENDS CommandSession

\* Every way a command can end except "bank", which differs from "once" only
\* in the line that ends it.
ManyKinds == {"send", "raw", "once", "loop"}

\* One kind that returns on the first line and one that collects lines.
TwoKinds == {"send", "once"}

=============================================================================
