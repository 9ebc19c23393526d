----------------------------- MODULE ReaderLines -----------------------------
(***************************************************************************)
(* The lines of the reader as the engine tells them apart, and the rule by *)
(* which a line ends a command (RfidInterface::CompileFinishConditions and *)
(* the callbacks handed to AsyncSend).                                     *)
(***************************************************************************)

\* An ordinary answer, a tag line, the empty "-U" line, an "-R" line,
\* "@END", and "@Please Restart System".
Lines == {"ack", "tag", "eou", "eor", "eop", "restart"}

\* send: Send(), whose callback returns true at once; raw: the same with a
\* command text of the user's, which the reader may answer with several
\* lines; once, bank, loop: the collecting callbacks, which return false.
AllKinds == {"send", "raw", "once", "bank", "loop"}

\* Does update() notify the waiting caller: the callback returned true, or
\* one of the finish conditions of the command holds of the line.
Completes(k, line) ==
    \/ line = "restart"
    \/ k \in {"send", "raw"}
    \/ k = "once" /\ line = "eou"
    \/ k = "bank" /\ line = "eor"
    \/ k = "loop" /\ line = "eop"

\* What the reader sends before the last line of an answer, and as the last:
\* the one that belongs to the command, or the request to restart it.
InnerLines(k) ==
    CASE k = "raw"  -> {"ack"}
      [] k = "once" -> {"tag"}
      [] k = "loop" -> {"tag", "eou"}
      [] OTHER      -> {}

LastLines(k) ==
    {"restart"} \union
    CASE k \in {"send", "raw"} -> {"ack"}
      [] k = "once" -> {"eou"}
      [] k = "bank" -> {"eor"}
      [] OTHER      -> {"eop"}

=============================================================================
