------------------------------ MODULE TagWriting ------------------------------
(***************************************************************************)
(* RFWriteEPC: it selects the tag with a given TID, sends the password,    *)
(* writes the EPC bank, and may read the tags back.  What the selection    *)
(* and the password ended in is not looked at.  Each of the four is one    *)
(* command: the first three return on the first line they are given, the   *)
(* read collects tag lines up to "@END", and the watch dog may end each    *)
(* (CommandContract).  A line that comes while no command is open is heard *)
(* by nobody; one that comes late is heard by the command then open.       *)
(*                                                                         *)
(* The reader and the tags are external.  The reader serves commands in    *)
(* order, may refuse each, may be silent, and writes to any one of the     *)
(* tags its selection lets it see.                                         *)
(***************************************************************************)
EXTENDS Naturals, Sequences, FiniteSets

CONSTANTS
    Tids,          \* the tags in the field, by their TIDs
    Epcs,          \* what may be in an EPC bank
    Factory,       \* Factory[t]: EPC of tag t at the start
    MaxCalls,      \* bound: calls of RFWriteEPC
    MaxAlarms      \* bound: commands the watch dog ends

ASSUME FactoryAssumption == Factory \in [Tids -> Epcs]
ASSUME BoundsAssumption == MaxCalls \in Nat /\ MaxAlarms \in Nat

VARIABLES
    epc,           \* the EPC bank of every tag
    selection,     \* the tags the reader sees
    inbox,         \* commands the reader has not served
    lines,         \* lines on their way to the engine
    pc,            \* the command RFWriteEPC is at, or "idle"
    open,          \* that command was sent and has not returned
    call,          \* TID, new EPC and double_check of the call
    asked,         \* commands sent so far; the number of the last one
    calls,         \* calls so far
    alarms,        \* commands the watch dog ended so far
    ret,           \* what the call returns
    found,         \* the double check found the tag with the new EPC
    acked,         \* history: the reader confirmed the selection to the call
    strays,        \* history: the call was given a line of an earlier command
    held           \* history: the EPCs every tag has had

fieldVars == <<epc, selection, held>>
callVars == <<call, calls, ret, found, acked, strays>>
vars == <<fieldVars, callVars, inbox, lines, pc, open, asked, alarms>>

\* What a line has after the stamp: "-T", "-P", "-W<OK>", "-W" with an error,
\* "-U" with EPC and TID, or another error; or it has no stamp: "@END" and
\* "@Please Restart System".
LineTypes == {"T", "P", "OK", "Z", "U", "error", "end", "restart"}
Stamped == LineTypes \ {"end", "restart"}

Commands == {"select", "password", "write", "read"}

Line(type, tid, e, n) == [type |-> type, tid |-> tid, epc |-> e, to |-> n]

Init ==
    /\ epc = Factory /\ held = [t \in Tids |-> {Factory[t]}]
    /\ selection \in {Tids} \union {{t} : t \in Tids}
    /\ inbox = <<>> /\ lines = <<>> /\ pc = "idle" /\ open = FALSE
    /\ call \in [tid : Tids, epc : Epcs, check : {FALSE}]
    /\ asked = 0 /\ calls = 0 /\ alarms = 0 /\ ret = "RFID_ERR_OTHER"
    /\ found = FALSE /\ acked = FALSE /\ strays = FALSE

-----------------------------------------------------------------------------
(* RFWriteEPC *)

\* The tags whose TID begins with the bits SelectTag asks for: 6 words of 16
\* bits, a whole TID.  Slip: 6 bits, which the vendors' TIDs share.
MatchingSlip(tid) == Tids
Matching(tid) == {tid}

\* Slip: what is not Z is success.
WriteResultSlip(type) ==
    CASE type = "Z" -> "RFID_ERR_WORDS_WRITE_ERR_Z"
      [] type \in Stamped \ {"Z"} -> "RFID_OK"
      [] OTHER -> "RFID_ERR_PARSE"

\* What WriteBank makes of the line it was given.
WriteResult(type) ==
    CASE type = "OK" -> "RFID_OK"
      [] type = "Z" -> "RFID_ERR_WORDS_WRITE_ERR_Z"
      [] type \in Stamped \ {"OK", "Z"} -> "RFID_ERR_OTHER"
      [] OTHER -> "RFID_ERR_PARSE"

\* Slip: the TID is not compared.
ShowsSlip(line) == line.type = "U" /\ line.epc = call.epc

\* Does the double check take a line for the tag with its new EPC.
Shows(line) == /\ line.type = "U"
               /\ line.tid = call.tid
               /\ line.epc = call.epc

Following ==
    [c \in Commands |->
        CASE c = "select"   -> "password"
          [] c = "password" -> "write"
          [] c = "write"    -> IF call.check THEN "read" ELSE "idle"
          [] c = "read"     -> "idle"]

First == "select"

\* A valid handle; the reader of an invalid one is not asked anything.
Call ==
    /\ pc = "idle" /\ calls < MaxCalls
    /\ call' \in [tid : Tids, epc : Epcs, check : BOOLEAN]
    /\ calls' = calls + 1
    /\ ret' = "RFID_ERR_OTHER" /\ found' = FALSE
    /\ acked' = FALSE /\ strays' = FALSE
    /\ pc' = First
    /\ UNCHANGED <<fieldVars, inbox, lines, open, asked, alarms>>

\* The text of the command; a write carries, for the properties, whether the
\* call knew its selection made.
Ask ==
    /\ pc # "idle" /\ ~open
    /\ open' = TRUE
    /\ asked' = asked + 1
    /\ inbox' = Append(inbox, [cmd |-> pc, tid |-> call.tid, epc |-> call.epc,
                               acked |-> acked, n |-> asked + 1])
    /\ UNCHANGED <<fieldVars, callVars, lines, pc, alarms>>

Returns ==
    /\ open' = FALSE
    /\ pc' = Following[pc]

Heard(line) ==
    /\ lines' = Tail(lines)
    /\ strays' = (strays \/ line.to # asked)
    /\ UNCHANGED <<fieldVars, inbox, asked, alarms, call, calls>>

\* SelectTag and Password: their results are dropped.
HearUnchecked ==
    /\ open /\ pc \in {"select", "password"} /\ lines # <<>>
    /\ Heard(Head(lines))
    /\ acked' = (acked \/ (Head(lines).type = "T" /\ Head(lines).to = asked))
    /\ Returns
    /\ UNCHANGED <<ret, found>>

HearWritten ==
    /\ open /\ pc = "write" /\ lines # <<>>
    /\ Heard(Head(lines))
    /\ ret' = WriteResult(Head(lines).type)
    /\ Returns
    /\ UNCHANGED <<found, acked>>

\* The read goes on up to "@END" or a restart; of its lines the first that
\* shows the new EPC turns the result into RFID_OK.
HearTag ==
    /\ open /\ pc = "read" /\ lines # <<>>
    /\ Heard(Head(lines))
    /\ found' = (found \/ Shows(Head(lines)))
    /\ ret' = IF Shows(Head(lines)) THEN "RFID_OK" ELSE ret
    /\ IF Head(lines).type \in {"end", "restart"}
       THEN Returns ELSE UNCHANGED <<pc, open>>
    /\ UNCHANGED acked

\* The watch dog ends the command; WriteBank parses an empty string.
HearNothing ==
    /\ open /\ alarms < MaxAlarms
    /\ alarms' = alarms + 1
    /\ ret' = IF pc = "write" THEN WriteResult("none") ELSE ret
    /\ Returns
    /\ UNCHANGED <<fieldVars, inbox, lines, asked, call, calls, found, acked,
                   strays>>

\* A line with no command open.
Unheard ==
    /\ ~open /\ lines # <<>>
    /\ lines' = Tail(lines)
    /\ UNCHANGED <<fieldVars, callVars, inbox, pc, open, asked, alarms>>

-----------------------------------------------------------------------------
(* The reader and the tags (external) *)

Serve(answer) ==
    /\ inbox' = Tail(inbox)
    /\ lines' = lines \o answer
    /\ UNCHANGED <<callVars, pc, open, asked, alarms>>

\* It does what is asked and says so, or the line is lost.
Answers(q, type) == {<<>>, <<Line(type, q.tid, q.epc, q.n)>>}

Selects ==
    /\ inbox # <<>> /\ Head(inbox).cmd = "select"
    /\ selection' = Matching(Head(inbox).tid)
    /\ \E answer \in Answers(Head(inbox), "T") : Serve(answer)
    /\ UNCHANGED <<epc, held>>

TakesPassword ==
    /\ inbox # <<>> /\ Head(inbox).cmd = "password"
    /\ \E answer \in Answers(Head(inbox), "P") : Serve(answer)
    /\ UNCHANGED fieldVars

Writes ==
    /\ inbox # <<>> /\ Head(inbox).cmd = "write"
    /\ \E t \in selection :
          /\ epc' = [epc EXCEPT ![t] = Head(inbox).epc]
          /\ held' = [held EXCEPT ![t] = @ \union {Head(inbox).epc}]
    /\ \E answer \in Answers(Head(inbox), "OK") : Serve(answer)
    /\ UNCHANGED selection

\* It finds one of the tags it sees, or none; "@END" may be lost.
Reads ==
    /\ inbox # <<>> /\ Head(inbox).cmd = "read"
    /\ LET n == Head(inbox).n
       IN  \E tags \in {<<>>} \union
                        {<<Line("U", t, epc[t], n)>> : t \in selection},
              end \in {<<>>, <<Line("end", Head(inbox).tid, Head(inbox).epc, n)>>} :
              Serve(tags \o end)
    /\ UNCHANGED fieldVars

\* It does nothing, with an error line, "@Please Restart System", or none.
Refuses ==
    /\ inbox # <<>>
    /\ \E type \in {"error", "restart"}
                     \union IF Head(inbox).cmd = "write" THEN {"Z"} ELSE {} :
          \E answer \in Answers(Head(inbox), type) : Serve(answer)
    /\ UNCHANGED fieldVars

-----------------------------------------------------------------------------
Next ==
    \/ Call \/ Ask \/ HearUnchecked \/ HearWritten \/ HearTag \/ HearNothing
    \/ Unheard
    \/ Selects \/ TakesPassword \/ Writes \/ Reads \/ Refuses

Spec == Init /\ [][Next]_vars

-----------------------------------------------------------------------------
(* Properties *)

Requests == [cmd : Commands, tid : Tids, epc : Epcs, acked : BOOLEAN, n : Nat]
ReaderLines == [type : LineTypes, tid : Tids, epc : Epcs, to : Nat]

\* Each variable holds values of its type.
TypeOK ==
    /\ epc \in [Tids -> Epcs] /\ held \in [Tids -> SUBSET Epcs]
    /\ selection \in SUBSET Tids
    /\ inbox \in Seq(Requests) /\ lines \in Seq(ReaderLines)
    /\ pc \in Commands \union {"idle"} /\ open \in BOOLEAN
    /\ call \in [tid : Tids, epc : Epcs, check : BOOLEAN]
    /\ asked \in Nat /\ calls \in 0..MaxCalls /\ alarms \in 0..MaxAlarms
    /\ ret \in {"RFID_OK", "RFID_ERR_WORDS_WRITE_ERR_Z", "RFID_ERR_OTHER",
                "RFID_ERR_PARSE"}
    /\ found \in BOOLEAN /\ acked \in BOOLEAN /\ strays \in BOOLEAN

Over == pc = "idle" /\ calls > 0

\* RFWriteEPC reports RFID_OK for a tag that does not carry the new EPC only
\* when its selection was not confirmed, or when it was given a line of an
\* earlier command.
WriteTruthful ==
    Over /\ ret = "RFID_OK" /\ acked /\ ~strays => epc[call.tid] = call.epc

\* What the double check found is true even when selection, password and
\* write failed unnoticed; a line left over from an earlier read shows an EPC
\* the tag has had.
CheckTruthful ==
    Over /\ found => /\ call.epc \in held[call.tid]
                     /\ strays \/ epc[call.tid] = call.epc

\* A write that was sent once the selection had been confirmed changes no
\* other tag, however late the reader serves it and whatever calls follow.
OthersUntouched ==
    [][\A t \in Tids :
          epc'[t] # epc[t] /\ Head(inbox).acked => t = Head(inbox).tid]_vars

=============================================================================
