-------------------------- MODULE TagWriting_proofs --------------------------
(***************************************************************************)
(* What RFWriteEPC's results mean, and whose EPC its writes change, for    *)
(* any tags and EPCs and any number of calls and alarms.                   *)
(*                                                                         *)
(* All rests on the order in which the reader serves: it has answered only *)
(* what is no longer in its inbox, so a line that answers the last command *)
(* shows that the inbox is empty (Numbered).  A confirmed selection is     *)
(* therefore in force, and stays so until the call is over (Selected,      *)
(* Queued), and the writes and reads served after it are the call's own    *)
(* (Written, Seen).                                                        *)
(***************************************************************************)
EXTENDS TagWriting, TLAPS

\* Commands are numbered in the order they are served, and a line answers a
\* command that is no longer in the inbox.
Numbered ==
    /\ \A i \in DOMAIN inbox : inbox[i].n <= asked
    /\ \A i, j \in DOMAIN inbox : i < j => inbox[i].n < inbox[j].n
    /\ \A k \in DOMAIN lines :
          /\ lines[k].to <= asked
          /\ \A i \in DOMAIN inbox : lines[k].to < inbox[i].n

\* The last command is the one the call is at.
LastAsked ==
    /\ pc = "idle" => ~open
    /\ open => /\ \A i \in DOMAIN inbox :
                     inbox[i].n = asked => /\ inbox[i].cmd = pc
                                           /\ inbox[i].tid = call.tid
                                           /\ inbox[i].epc = call.epc
               /\ \A k \in DOMAIN lines :
                     lines[k].to = asked /\ lines[k].type = "T" =>
                         lines[k].tid = call.tid

Confirmed ==
    \A k \in DOMAIN lines :
        lines[k].to = asked /\ lines[k].type = "T" =>
            selection = {lines[k].tid}

\* What the call knows to be selected is, and no selection is waiting.
Selected ==
    acked => /\ pc # "select"
             /\ selection = {call.tid}
             /\ \A i \in DOMAIN inbox : inbox[i].cmd # "select"

\* The same of the commands that were sent with that knowledge.
Queued ==
    \A i \in DOMAIN inbox :
        inbox[i].acked =>
            /\ selection = {inbox[i].tid}
            /\ \A j \in 1..i : inbox[j].cmd # "select"

\* A write confirmed to its own call was made to the right tag.
Written ==
    open /\ acked =>
        \A k \in DOMAIN lines :
            lines[k].to = asked /\ lines[k].type = "OK" =>
                epc[call.tid] = call.epc

\* A tag line answering the last command shows what the tag has now, and any
\* tag line what it has had.
Seen ==
    /\ \A t \in Tids : epc[t] \in held[t]
    /\ \A k \in DOMAIN lines :
          lines[k].type = "U" =>
              /\ lines[k].epc \in held[lines[k].tid]
              /\ lines[k].to = asked => epc[lines[k].tid] = lines[k].epc

\* After a result of the call's own lines nothing is left that could undo it.
Settled ==
    /\ ret = "RFID_OK" \/ found => pc \in {"read", "idle"}
    /\ found => call.epc \in held[call.tid]
    /\ (ret = "RFID_OK" /\ acked /\ ~strays) \/ (found /\ ~strays) =>
          /\ epc[call.tid] = call.epc
          /\ \A i \in DOMAIN inbox : inbox[i].cmd # "write"

Inv == /\ TypeOK /\ Numbered /\ LastAsked /\ Confirmed /\ Selected /\ Queued
       /\ Written /\ Seen /\ Settled

-----------------------------------------------------------------------------
(* Sequences *)

\* What is behind the head of a sequence.
LEMMA TailFacts ==
    ASSUME NEW S, NEW s \in Seq(S), s # <<>>
    PROVE  /\ Tail(s) \in Seq(S)
           /\ 1 \in DOMAIN s /\ Head(s) = s[1] /\ s[1] \in S
           /\ \A i \in DOMAIN Tail(s) :
                 i \in Nat /\ i + 1 \in DOMAIN s /\ Tail(s)[i] = s[i + 1]
  OBVIOUS

\* A member of two sequences in a row is one of the first or of the second.
LEMMA JoinFacts ==
    ASSUME NEW S, NEW s \in Seq(S), NEW r \in Seq(S)
    PROVE  /\ s \o r \in Seq(S)
           /\ \A k \in DOMAIN (s \o r) :
                 \/ \E j \in DOMAIN s : (s \o r)[k] = s[j]
                 \/ \E j \in DOMAIN r : (s \o r)[k] = r[j]
  <1>1. s \o r \in Seq(S) /\ Len(s \o r) = Len(s) + Len(r)
    OBVIOUS
  <1>2. ASSUME NEW k \in DOMAIN (s \o r)
        PROVE  \/ \E j \in DOMAIN s : (s \o r)[k] = s[j]
               \/ \E j \in DOMAIN r : (s \o r)[k] = r[j]
    <2>1. CASE k <= Len(s)
      <3>1. k \in DOMAIN s /\ (s \o r)[k] = s[k]
        BY <1>1, <2>1
      <3> QED BY <3>1
    <2>2. CASE k > Len(s)
      <3>1. k - Len(s) \in DOMAIN r /\ (s \o r)[k] = r[k - Len(s)]
        BY <1>1, <2>2
      <3> QED BY <3>1
    <2> QED BY <1>1, <2>1, <2>2
  <1> QED BY <1>1, <1>2

\* A sequence with one more member at its end.
LEMMA AppendFacts ==
    ASSUME NEW S, NEW s \in Seq(S), NEW e \in S
    PROVE  /\ Append(s, e) \in Seq(S)
           /\ \A i \in DOMAIN Append(s, e) :
                 \/ i \in DOMAIN s /\ Append(s, e)[i] = s[i]
                 \/ i = Len(s) + 1 /\ Append(s, e)[i] = e
  OBVIOUS

\* A sequence of one member, or of none.
LEMMA SingleFacts ==
    ASSUME NEW S, NEW e \in S, NEW s, s = <<>> \/ s = <<e>>
    PROVE  s \in Seq(S) /\ \A j \in DOMAIN s : s[j] = e
  <1>1. CASE s = <<>>
    <2>1. DOMAIN s = {}
      BY <1>1
    <2> QED BY <1>1, <2>1
  <1>2. CASE s = <<e>>
    <2>1. DOMAIN s = 1..1
      BY <1>2
    <2> QED BY <1>2, <2>1
  <1> QED BY <1>1, <1>2

-----------------------------------------------------------------------------
(* The reader *)

\* What the reader does when it serves the command at the head of its inbox:
\* the lines it answers with, and what a line of each type tells.
Tells(line) ==
    /\ line.to = Head(inbox).n
    /\ line.type = "T" => /\ selection' = {line.tid}
                          /\ line.tid = Head(inbox).tid
    /\ line.type = "OK" => /\ Head(inbox).cmd = "write"
                           /\ \E t \in selection :
                                 epc' = [epc EXCEPT ![t] = Head(inbox).epc]
    /\ line.type = "U" => /\ UNCHANGED fieldVars
                          /\ line.epc = epc[line.tid]

Effect ==
    \/ /\ Head(inbox).cmd = "select"
       /\ selection' = {Head(inbox).tid}
       /\ UNCHANGED <<epc, held>>
    \/ /\ Head(inbox).cmd = "write"
       /\ UNCHANGED selection
       /\ \E t \in selection :
             /\ epc' = [epc EXCEPT ![t] = Head(inbox).epc]
             /\ held' = [held EXCEPT ![t] = @ \union {Head(inbox).epc}]
    \/ UNCHANGED fieldVars

Served(answer) ==
    /\ inbox # <<>>
    /\ answer \in Seq(ReaderLines)
    /\ Serve(answer)
    /\ Effect
    /\ \A j \in DOMAIN answer : Tells(answer[j])

ReaderStep == Selects \/ TakesPassword \/ Writes \/ Reads \/ Refuses

\* Every step of the reader serves the command at the head.
LEMMA ReaderServes ==
    ASSUME TypeOK, ReaderStep
    PROVE  \E answer : Served(answer)
  <1> DEFINE q == Head(inbox)
  <1>1. inbox # <<>>
    BY DEF ReaderStep, Selects, TakesPassword, Writes, Reads, Refuses
  <1>2. q \in Requests
    BY <1>1 DEF TypeOK
  <1>3. \A type \in LineTypes : Line(type, q.tid, q.epc, q.n) \in ReaderLines
    BY <1>2 DEF Line, ReaderLines, Requests
  <1>4. ASSUME NEW type \in LineTypes, NEW answer \in Answers(q, type)
        PROVE  /\ answer \in Seq(ReaderLines)
               /\ \A j \in DOMAIN answer :
                     answer[j] = Line(type, q.tid, q.epc, q.n)
    <2> DEFINE l == Line(type, q.tid, q.epc, q.n)
    <2>1. l \in ReaderLines
      BY <1>3
    <2>2. answer = <<>> \/ answer = <<l>>
      BY DEF Answers
    <2> HIDE DEF l
    <2>3. /\ answer \in Seq(ReaderLines)
          /\ \A j \in DOMAIN answer : answer[j] = l
      BY <2>1, <2>2, SingleFacts
    <2> QED BY <2>3 DEF l
  <1>5. CASE Selects
    <2>1. PICK answer \in Answers(q, "T") : Serve(answer)
      BY <1>5 DEF Selects
    <2>2. Effect /\ selection' = {q.tid}
      BY <1>5 DEF Selects, Effect, Matching
    <2>3. \A j \in DOMAIN answer : Tells(answer[j])
      BY <1>4, <2>1, <2>2 DEF Tells, Line, LineTypes
    <2> QED BY <1>1, <1>4, <2>1, <2>2, <2>3 DEF Served, LineTypes
  <1>6. CASE TakesPassword
    <2>1. PICK answer \in Answers(q, "P") : Serve(answer)
      BY <1>6 DEF TakesPassword
    <2>2. Effect
      BY <1>6 DEF TakesPassword, Effect
    <2>3. \A j \in DOMAIN answer : Tells(answer[j])
      BY <1>4, <2>1 DEF Tells, Line, LineTypes
    <2> QED BY <1>1, <1>4, <2>1, <2>2, <2>3 DEF Served, LineTypes
  <1>7. CASE Writes
    <2>1. PICK answer \in Answers(q, "OK") : Serve(answer)
      BY <1>7 DEF Writes
    <2>2. /\ Effect /\ q.cmd = "write"
          /\ \E t \in selection : epc' = [epc EXCEPT ![t] = q.epc]
      BY <1>7 DEF Writes, Effect
    <2>3. Tells(Line("OK", q.tid, q.epc, q.n))
      BY <2>2 DEF Tells, Line
    <2>4. \A j \in DOMAIN answer : Tells(answer[j])
      BY <1>4, <2>1, <2>3 DEF LineTypes
    <2> QED BY <1>1, <1>4, <2>1, <2>2, <2>4 DEF Served, LineTypes
  <1>8. CASE Reads
    <2>1. PICK tags \in {<<>>} \union
                            {<<Line("U", t, epc[t], q.n)>> : t \in selection},
               end \in {<<>>, <<Line("end", q.tid, q.epc, q.n)>>} :
               Serve(tags \o end)
      BY <1>8 DEF Reads
    <2>2. UNCHANGED fieldVars
      BY <1>8 DEF Reads
    <2>3. ASSUME NEW t \in selection
          PROVE  /\ Line("U", t, epc[t], q.n) \in ReaderLines
                 /\ Tells(Line("U", t, epc[t], q.n))
      BY <1>2, <2>2 DEF TypeOK, Line, ReaderLines, Requests, LineTypes, Tells
    <2>4. Line("end", q.tid, q.epc, q.n) \in ReaderLines
          /\ Tells(Line("end", q.tid, q.epc, q.n))
      BY <1>3 DEF Line, LineTypes, Tells
    <2>5. tags \in Seq(ReaderLines) /\ \A j \in DOMAIN tags : Tells(tags[j])
      <3>1. CASE tags = <<>>
        BY <3>1
      <3>2. ASSUME NEW t \in selection, tags = <<Line("U", t, epc[t], q.n)>>
            PROVE  /\ tags \in Seq(ReaderLines)
                   /\ \A j \in DOMAIN tags : Tells(tags[j])
        <4> DEFINE l == Line("U", t, epc[t], q.n)
        <4>1. l \in ReaderLines /\ Tells(l)
          BY <2>3
        <4> HIDE DEF l
        <4> QED BY <3>2, <4>1, SingleFacts DEF l
      <3> QED BY <2>1, <3>1, <3>2
    <2>6. end \in Seq(ReaderLines) /\ \A j \in DOMAIN end : Tells(end[j])
      <3> DEFINE l == Line("end", q.tid, q.epc, q.n)
      <3>1. l \in ReaderLines /\ Tells(l) /\ (end = <<>> \/ end = <<l>>)
        BY <2>1, <2>4
      <3> HIDE DEF l
      <3> QED BY <3>1, SingleFacts
    <2>7. /\ tags \o end \in Seq(ReaderLines)
          /\ \A j \in DOMAIN (tags \o end) : Tells((tags \o end)[j])
      BY <2>5, <2>6, JoinFacts
    <2> QED BY <1>1, <2>1, <2>2, <2>7 DEF Served, Effect
  <1>9. CASE Refuses
    <2>1. PICK type \in {"error", "restart", "Z"} :
              \E answer \in Answers(q, type) : Serve(answer)
      BY <1>9 DEF Refuses
    <2>2. PICK answer \in Answers(q, type) : Serve(answer)
      BY <2>1
    <2>3. Effect
      BY <1>9 DEF Refuses, Effect
    <2>4. \A j \in DOMAIN answer : Tells(answer[j])
      BY <1>4, <2>1, <2>2 DEF Tells, Line, LineTypes
    <2> QED BY <1>1, <1>4, <2>2, <2>3, <2>4 DEF Served, LineTypes
  <1> QED BY <1>5, <1>6, <1>7, <1>8, <1>9 DEF ReaderStep

\* The inbox and the lines after a command was served.
LEMMA ServedFacts ==
    ASSUME TypeOK, NEW answer, Served(answer)
    PROVE  /\ 1 \in DOMAIN inbox /\ Head(inbox) = inbox[1]
           /\ inbox[1] \in Requests
           /\ inbox' \in Seq(Requests) /\ lines' \in Seq(ReaderLines)
           /\ \A i \in DOMAIN inbox' : /\ i \in Nat /\ i + 1 \in DOMAIN inbox
                                       /\ inbox'[i] = inbox[i + 1]
           /\ \A k \in DOMAIN lines' :
                 \/ \E j \in DOMAIN lines : lines'[k] = lines[j]
                 \/ Tells(lines'[k])
  <1>1. inbox \in Seq(Requests) /\ lines \in Seq(ReaderLines)
    BY DEF TypeOK
  <1>2. inbox' = Tail(inbox) /\ lines' = lines \o answer
    BY DEF Served, Serve
  <1>3. inbox # <<>> /\ answer \in Seq(ReaderLines)
        /\ \A j \in DOMAIN answer : Tells(answer[j])
    BY DEF Served
  <1>4. /\ lines' \in Seq(ReaderLines)
        /\ \A k \in DOMAIN lines' :
              \/ \E j \in DOMAIN lines : lines'[k] = lines[j]
              \/ \E j \in DOMAIN answer : lines'[k] = answer[j]
    <2>1. /\ lines \o answer \in Seq(ReaderLines)
          /\ \A k \in DOMAIN (lines \o answer) :
                \/ \E j \in DOMAIN lines : (lines \o answer)[k] = lines[j]
                \/ \E j \in DOMAIN answer : (lines \o answer)[k] = answer[j]
      <3>1. lines \in Seq(ReaderLines) /\ answer \in Seq(ReaderLines)
        BY <1>1, <1>3
      <3> QED BY <3>1, JoinFacts, SMTT(30)
    <2> QED BY <1>2, <2>1, Zenon
  <1>5. \A k \in DOMAIN lines' :
            \/ \E j \in DOMAIN lines : lines'[k] = lines[j]
            \/ Tells(lines'[k])
    BY <1>3, <1>4
  <1> QED BY <1>1, <1>2, <1>3, <1>4, <1>5, TailFacts

\* The lines after one was heard, by a command or by nobody.
LEMMA HeardFacts ==
    ASSUME TypeOK, lines # <<>>, lines' = Tail(lines)
    PROVE  /\ 1 \in DOMAIN lines /\ Head(lines) = lines[1]
           /\ lines[1] \in ReaderLines
           /\ lines' \in Seq(ReaderLines)
           /\ \A k \in DOMAIN lines' : /\ k \in Nat /\ k + 1 \in DOMAIN lines
                                       /\ lines'[k] = lines[k + 1]
  BY TailFacts DEF TypeOK

-----------------------------------------------------------------------------
(* The invariant, part by part *)

LEMMA InvInit == Init => Inv
  <1> SUFFICES ASSUME Init PROVE Inv
    OBVIOUS
  <1>1. TypeOK
    <2>1. /\ epc \in [Tids -> Epcs] /\ held \in [Tids -> SUBSET Epcs]
          /\ selection \in SUBSET Tids
      BY FactoryAssumption DEF Init
    <2>2. inbox \in Seq(Requests) /\ lines \in Seq(ReaderLines)
      BY DEF Init
    <2>3. call \in [tid : Tids, epc : Epcs, check : BOOLEAN]
      BY DEF Init
    <2>4. calls \in 0..MaxCalls /\ alarms \in 0..MaxAlarms /\ asked \in Nat
      BY BoundsAssumption DEF Init
    <2>5. /\ pc \in Commands \union {"idle"} /\ open \in BOOLEAN
          /\ ret = "RFID_ERR_OTHER"
          /\ found \in BOOLEAN /\ acked \in BOOLEAN /\ strays \in BOOLEAN
      BY DEF Init
    <2> QED BY <2>1, <2>2, <2>3, <2>4, <2>5, Zenon DEF TypeOK
  <1>2. DOMAIN inbox = {} /\ DOMAIN lines = {}
    BY DEF Init
  <1>3. Numbered /\ LastAsked /\ Confirmed /\ Queued
    BY <1>2 DEF Init, Numbered, LastAsked, Confirmed, Queued
  <1>4. Selected /\ Written /\ Settled
    BY DEF Init, Selected, Written, Settled
  <1>5. Seen
    BY <1>2, FactoryAssumption DEF Init, Seen
  <1> QED BY <1>1, <1>3, <1>4, <1>5 DEF Inv

\* The actions by what they do to inbox and lines.
Hears == HearUnchecked \/ HearWritten \/ HearTag \/ Unheard

LEMMA Split == Next <=> Call \/ Ask \/ Hears \/ HearNothing \/ ReaderStep
  BY DEF Next, Hears, ReaderStep

LEMMA HearsTail ==
    ASSUME Hears
    PROVE  /\ lines # <<>> /\ lines' = Tail(lines)
           /\ UNCHANGED <<fieldVars, inbox, asked, alarms, call, calls>>
  BY DEF Hears, HearUnchecked, HearWritten, HearTag, Unheard, Heard, callVars

\* Commands follow each other to the end of the call.
LEMMA FollowingType ==
    ASSUME pc \in Commands
    PROVE  Following[pc] \in (Commands \ {"select"}) \union {"idle"}
  BY DEF Following, Commands

\* Every variable keeps its type.
LEMMA TypeStep == TypeOK /\ LastAsked /\ [Next]_vars => TypeOK'
  <1> SUFFICES ASSUME TypeOK, LastAsked, [Next]_vars PROVE TypeOK'
    OBVIOUS
  <1>1. CASE Call
    <2>1. pc' \in Commands
      BY <1>1 DEF Call, First, Commands
    <2>2. calls' \in 0..MaxCalls
      BY <1>1, BoundsAssumption DEF Call, TypeOK
    <2> QED BY <1>1, <2>1, <2>2 DEF Call, TypeOK, fieldVars
  <1>2. CASE Ask
    <2> DEFINE q == [cmd |-> pc, tid |-> call.tid, epc |-> call.epc,
                     acked |-> acked, n |-> asked + 1]
    <2>1. q \in Requests
      BY <1>2 DEF Ask, TypeOK, Requests
    <2>2. inbox' = Append(inbox, q)
      BY <1>2 DEF Ask
    <2> HIDE DEF q
    <2>3. inbox' \in Seq(Requests)
      BY <2>1, <2>2, AppendFacts DEF TypeOK
    <2> QED BY <1>2, <2>3 DEF Ask, TypeOK, fieldVars, callVars
  <1>3. CASE Hears
    <2>1. lines' \in Seq(ReaderLines) /\ Head(lines) \in ReaderLines
      BY <1>3, HearsTail, HeardFacts
    <2>2. /\ pc' \in Commands \union {"idle"} /\ open' \in BOOLEAN
          /\ found' \in BOOLEAN /\ acked' \in BOOLEAN /\ strays' \in BOOLEAN
      <3>1. CASE HearUnchecked
        <4>1. pc \in Commands /\ pc' = Following[pc]
          BY <3>1 DEF HearUnchecked, Returns, Commands
        <4> QED BY <3>1, <4>1, FollowingType
                DEF HearUnchecked, Returns, Heard, TypeOK
      <3>2. CASE HearWritten
        <4>1. pc \in Commands /\ pc' = Following[pc]
          BY <3>2 DEF HearWritten, Returns, Commands
        <4> QED BY <3>2, <4>1, FollowingType
                DEF HearWritten, Returns, Heard, TypeOK
      <3>3. CASE HearTag
        <4>1. pc \in Commands /\ pc' \in {pc, Following[pc]}
              /\ open' \in BOOLEAN
          BY <3>3 DEF HearTag, Returns, Commands
        <4> QED BY <3>3, <4>1, FollowingType DEF HearTag, Heard, Shows, TypeOK
      <3>4. CASE Unheard
        BY <3>4 DEF Unheard, callVars, TypeOK
      <3> QED BY <1>3, <3>1, <3>2, <3>3, <3>4 DEF Hears
    <2>3. ret' \in {"RFID_OK", "RFID_ERR_WORDS_WRITE_ERR_Z", "RFID_ERR_OTHER",
                    "RFID_ERR_PARSE"}
      BY <1>3 DEF Hears, HearUnchecked, HearWritten, HearTag, Unheard,
                  WriteResult, callVars, TypeOK
    <2> QED BY <1>3, <2>1, <2>2, <2>3, HearsTail DEF TypeOK, fieldVars
  <1>4. CASE HearNothing
    <2>1. pc \in Commands
      BY <1>4 DEF HearNothing, LastAsked, TypeOK
    <2>2. pc' \in Commands \union {"idle"} /\ open' = FALSE
      BY <1>4, <2>1, FollowingType DEF HearNothing, Returns
    <2>3. alarms' \in 0..MaxAlarms
      BY <1>4, BoundsAssumption DEF HearNothing, TypeOK
    <2>4. ret' \in {ret, "RFID_ERR_PARSE"}
      BY <1>4 DEF HearNothing, WriteResult, Stamped, LineTypes
    <2> QED BY <1>4, <2>2, <2>3, <2>4 DEF HearNothing, TypeOK, fieldVars
  <1>5. CASE ReaderStep
    <2>1. PICK answer : Served(answer)
      BY <1>5, ReaderServes
    <2>2. inbox' \in Seq(Requests) /\ lines' \in Seq(ReaderLines)
          /\ Head(inbox) \in Requests
      BY <2>1, ServedFacts
    <2>3. /\ epc' \in [Tids -> Epcs] /\ held' \in [Tids -> SUBSET Epcs]
          /\ selection' \in SUBSET Tids
      <3>1. Head(inbox).tid \in Tids /\ Head(inbox).epc \in Epcs
        BY <2>2 DEF Requests
      <3>2. CASE selection' = {Head(inbox).tid} /\ UNCHANGED <<epc, held>>
        BY <3>1, <3>2 DEF TypeOK
      <3>3. ASSUME NEW t \in selection,
                   UNCHANGED selection,
                   epc' = [epc EXCEPT ![t] = Head(inbox).epc],
                   held' = [held EXCEPT ![t] = @ \union {Head(inbox).epc}]
            PROVE  /\ epc' \in [Tids -> Epcs] /\ held' \in [Tids -> SUBSET Epcs]
                   /\ selection' \in SUBSET Tids
        BY <3>1, <3>3 DEF TypeOK
      <3>4. CASE UNCHANGED fieldVars
        BY <3>4 DEF fieldVars, TypeOK
      <3> QED BY <2>1, <3>2, <3>3, <3>4 DEF Served, Effect
    <2> QED BY <2>1, <2>2, <2>3 DEF Served, Serve, TypeOK, callVars
  <1>6. CASE UNCHANGED vars
    BY <1>6 DEF vars, fieldVars, callVars, TypeOK
  <1> QED BY <1>1, <1>2, <1>3, <1>4, <1>5, <1>6, Split

\* A line that answers the last command means that the inbox is empty.
LEMMA NothingWaits ==
    ASSUME TypeOK, Numbered, NEW k \in DOMAIN lines, lines[k].to = asked
    PROVE  DOMAIN inbox = {}
  <1> SUFFICES ASSUME NEW i \in DOMAIN inbox PROVE FALSE
    OBVIOUS
  <1>1. asked < inbox[i].n /\ inbox[i].n <= asked
    BY DEF Numbered
  <1>2. asked \in Nat /\ inbox[i].n \in Nat
    <2>1. inbox[i] \in Requests
      BY DEF TypeOK
    <2> QED BY <2>1 DEF TypeOK, Requests
  <1> QED BY <1>1, <1>2

LEMMA Numbers ==
    ASSUME TypeOK
    PROVE  /\ asked \in Nat
           /\ \A i \in DOMAIN inbox : i \in Nat /\ i >= 1 /\ inbox[i].n \in Nat
           /\ \A k \in DOMAIN lines : lines[k].to \in Nat
  <1>1. \A i \in DOMAIN inbox : i \in Nat /\ i >= 1 /\ inbox[i] \in Requests
    BY DEF TypeOK
  <1>2. \A k \in DOMAIN lines : lines[k] \in ReaderLines
    BY DEF TypeOK
  <1> QED BY <1>1, <1>2 DEF TypeOK, Requests, ReaderLines

\* What a command adds to the inbox.
Asked == [cmd |-> pc, tid |-> call.tid, epc |-> call.epc, acked |-> acked,
          n |-> asked + 1]

LEMMA AskFacts ==
    ASSUME TypeOK, Ask
    PROVE  /\ \A i \in DOMAIN inbox' :
                 \/ i \in DOMAIN inbox /\ inbox'[i] = inbox[i]
                 \/ i = Len(inbox) + 1 /\ inbox'[i] = Asked
           /\ inbox' \in Seq(Requests)
           /\ Len(inbox) \in Nat /\ DOMAIN inbox = 1..Len(inbox)
           /\ pc # "idle" /\ ~open /\ open' /\ asked' = asked + 1
           /\ UNCHANGED <<fieldVars, callVars, lines, pc, alarms>>
  <1>1. Asked \in Requests
    BY DEF Ask, Asked, TypeOK, Requests
  <1>2. inbox' = Append(inbox, Asked)
    BY DEF Ask, Asked
  <1>3. /\ inbox' \in Seq(Requests)
        /\ \A i \in DOMAIN inbox' :
              \/ i \in DOMAIN inbox /\ inbox'[i] = inbox[i]
              \/ i = Len(inbox) + 1 /\ inbox'[i] = Asked
    BY <1>1, <1>2, AppendFacts DEF TypeOK
  <1>4. Len(inbox) \in Nat /\ DOMAIN inbox = 1..Len(inbox)
    BY DEF TypeOK
  <1> QED BY <1>3, <1>4 DEF Ask

\* What no action but Ask, the reader and the hearing of a line changes.
LEMMA Aside ==
    ASSUME Call \/ HearNothing \/ UNCHANGED vars
    PROVE  UNCHANGED <<fieldVars, inbox, lines, asked>>
  BY DEF Call, HearNothing, vars

LEMMA NumberedStep == TypeOK /\ Numbered /\ [Next]_vars => Numbered'
  <1> SUFFICES ASSUME TypeOK, Numbered, [Next]_vars PROVE Numbered'
    OBVIOUS
  <1>1. CASE Call \/ HearNothing \/ UNCHANGED vars
    BY <1>1, Aside DEF Numbered
  <1>2. CASE Ask
    BY <1>2, AskFacts, Numbers DEF Numbered, Asked
  <1>3. CASE Hears
    BY <1>3, HearsTail, HeardFacts DEF Numbered
  <1>4. CASE ReaderStep
    <2>1. PICK answer : Served(answer)
      BY <1>4, ReaderServes
    <2>2. asked' = asked
      BY <2>1 DEF Served, Serve
    <2>3. \A i \in DOMAIN inbox' : inbox'[i].n <= asked
      BY <2>1, ServedFacts DEF Numbered
    <2>4. \A i, j \in DOMAIN inbox' : i < j => inbox'[i].n < inbox'[j].n
      BY <2>1, ServedFacts DEF Numbered
    <2>5. ASSUME NEW k \in DOMAIN lines'
          PROVE  /\ lines'[k].to <= asked
                 /\ \A i \in DOMAIN inbox' : lines'[k].to < inbox'[i].n
      <3>1. CASE \E j \in DOMAIN lines : lines'[k] = lines[j]
        BY <2>1, <3>1, ServedFacts DEF Numbered
      <3>2. CASE Tells(lines'[k])
        <4>1. lines'[k].to = inbox[1].n /\ 1 \in DOMAIN inbox
          BY <2>1, <3>2, ServedFacts DEF Tells
        <4>2. \A i \in DOMAIN inbox' :
                  /\ i + 1 \in DOMAIN inbox /\ 1 < i + 1
                  /\ inbox'[i] = inbox[i + 1]
          <5>1. inbox' \in Seq(Requests)
            BY <2>1, ServedFacts
          <5>2. \A i \in DOMAIN inbox' : i \in Nat /\ i >= 1
            BY <5>1
          <5> QED BY <2>1, <5>2, ServedFacts
        <4> QED BY <4>1, <4>2 DEF Numbered
      <3> QED BY <2>1, <3>1, <3>2, ServedFacts
    <2> QED BY <2>2, <2>3, <2>4, <2>5 DEF Numbered
  <1> QED BY <1>1, <1>2, <1>3, <1>4, Split

LEMMA LastAskedStep ==
    TypeOK /\ Numbered /\ LastAsked /\ [Next]_vars => LastAsked'
  <1> SUFFICES ASSUME TypeOK, Numbered, LastAsked, [Next]_vars
               PROVE  LastAsked'
    OBVIOUS
  <1>1. CASE Call
    <2>1. open' = FALSE
      BY <1>1 DEF Call, LastAsked, TypeOK
    <2> QED BY <2>1 DEF LastAsked
  <1>2. CASE Ask
    <2>1. \A i \in DOMAIN inbox' :
              inbox'[i].n = asked' => inbox'[i] = Asked
      BY <1>2, AskFacts, Numbers DEF Numbered
    <2>2. \A k \in DOMAIN lines' : lines'[k].to # asked'
      BY <1>2, AskFacts, Numbers DEF Numbered
    <2>3. pc' = pc /\ call' = call /\ pc # "idle"
      BY <1>2, AskFacts DEF callVars
    <2> QED BY <2>1, <2>2, <2>3 DEF LastAsked, Asked
  <1>3. CASE Hears
    <2>1. CASE pc' = pc /\ open' = open
      BY <1>3, <2>1, HearsTail, HeardFacts DEF LastAsked
    <2>2. CASE open' = FALSE
      BY <2>2 DEF LastAsked
    <2> QED BY <1>3, <2>1, <2>2
            DEF Hears, HearUnchecked, HearWritten, HearTag, Unheard, Returns
  <1>4. CASE HearNothing
    BY <1>4 DEF HearNothing, Returns, LastAsked
  <1>5. CASE ReaderStep
    <2>1. PICK answer : Served(answer)
      BY <1>5, ReaderServes
    <2>2. /\ asked' = asked /\ pc' = pc /\ open' = open /\ call' = call
      BY <2>1 DEF Served, Serve, callVars
    <2>3. \A i \in DOMAIN inbox' : \E j \in DOMAIN inbox : inbox'[i] = inbox[j]
      BY <2>1, ServedFacts
    <2>4. ASSUME open, NEW k \in DOMAIN lines', lines'[k].to = asked,
                 lines'[k].type = "T"
          PROVE  lines'[k].tid = call.tid
      <3>1. CASE \E j \in DOMAIN lines : lines'[k] = lines[j]
        BY <2>4, <3>1 DEF LastAsked
      <3>2. CASE Tells(lines'[k])
        BY <2>1, <2>4, <3>2, ServedFacts DEF Tells, LastAsked
      <3> QED BY <2>1, <3>1, <3>2, ServedFacts
    <2> QED BY <2>2, <2>3, <2>4 DEF LastAsked
  <1>6. CASE UNCHANGED vars
    BY <1>6 DEF vars, callVars, LastAsked
  <1> QED BY <1>1, <1>2, <1>3, <1>4, <1>5, <1>6, Split

LEMMA ConfirmedStep ==
    TypeOK /\ Numbered /\ Confirmed /\ [Next]_vars => Confirmed'
  <1> SUFFICES ASSUME TypeOK, Numbered, Confirmed, [Next]_vars
               PROVE  Confirmed'
    OBVIOUS
  <1>1. CASE Call \/ HearNothing \/ UNCHANGED vars
    BY <1>1, Aside DEF Confirmed, fieldVars
  <1>2. CASE Ask
    BY <1>2, AskFacts, Numbers DEF Numbered, Confirmed
  <1>3. CASE Hears
    BY <1>3, HearsTail, HeardFacts DEF Confirmed, fieldVars
  <1>4. CASE ReaderStep
    <2>1. PICK answer : Served(answer)
      BY <1>4, ReaderServes
    <2>2. asked' = asked /\ 1 \in DOMAIN inbox
      BY <2>1, ServedFacts DEF Served, Serve
    <2>3. ASSUME NEW k \in DOMAIN lines', lines'[k].to = asked,
                 lines'[k].type = "T"
          PROVE  selection' = {lines'[k].tid}
      <3>1. CASE \E j \in DOMAIN lines : lines'[k] = lines[j]
        BY <2>2, <2>3, <3>1, NothingWaits
      <3>2. CASE Tells(lines'[k])
        BY <2>3, <3>2 DEF Tells
      <3> QED BY <2>1, <3>1, <3>2, ServedFacts
    <2> QED BY <2>2, <2>3 DEF Confirmed
  <1> QED BY <1>1, <1>2, <1>3, <1>4, Split

LEMMA SelectedStep ==
    /\ TypeOK /\ Numbered /\ LastAsked /\ Confirmed /\ Selected
    /\ [Next]_vars
    => Selected'
  <1> SUFFICES ASSUME TypeOK, Numbered, LastAsked, Confirmed, Selected,
                      [Next]_vars
               PROVE  Selected'
    OBVIOUS
  <1>1. CASE Call
    BY <1>1 DEF Call, Selected
  <1>2. CASE Ask
    <2>1. acked' = acked /\ call' = call /\ pc' = pc /\ selection' = selection
      BY <1>2, AskFacts DEF callVars, fieldVars
    <2>2. acked => \A i \in DOMAIN inbox' : inbox'[i].cmd # "select"
      BY <1>2, AskFacts DEF Selected, Asked
    <2> QED BY <2>1, <2>2 DEF Selected
  <1>3. CASE HearUnchecked
    <2>1. /\ pc \in Commands /\ pc' = Following[pc] /\ open
          /\ acked' = (acked \/ (Head(lines).type = "T" /\ Head(lines).to = asked))
      BY <1>3 DEF HearUnchecked, Returns, Commands
    <2>2. pc' # "select"
      BY <2>1, FollowingType
    <2>3. UNCHANGED <<fieldVars, inbox, call>> /\ lines # <<>>
          /\ 1 \in DOMAIN lines /\ Head(lines) = lines[1]
      BY <1>3, HearsTail, HeardFacts DEF Hears
    <2>4. ASSUME Head(lines).type = "T", Head(lines).to = asked
          PROVE  selection = {call.tid} /\ DOMAIN inbox = {}
      BY <2>1, <2>3, <2>4, NothingWaits DEF Confirmed, LastAsked
    <2> QED BY <2>1, <2>2, <2>3, <2>4 DEF Selected, fieldVars
  <1>4. CASE HearWritten \/ HearTag \/ Unheard
    <2>1. UNCHANGED <<fieldVars, inbox, call>>
      BY <1>4, HearsTail DEF Hears
    <2>2. acked' = acked
      BY <1>4 DEF HearWritten, HearTag, Unheard, callVars
    <2>3. acked => pc' # "select"
      BY <1>4 DEF HearWritten, HearTag, Unheard, Returns, Following, Commands,
                  Selected
    <2> QED BY <2>1, <2>2, <2>3 DEF Selected, fieldVars
  <1>5. CASE HearNothing
    <2>1. pc \in Commands /\ pc' = Following[pc] /\ acked' = acked
          /\ UNCHANGED <<fieldVars, inbox, call>>
      BY <1>5 DEF HearNothing, Returns, LastAsked, TypeOK
    <2> QED BY <2>1, FollowingType DEF Selected, fieldVars
  <1>6. CASE ReaderStep
    <2>1. PICK answer : Served(answer)
      BY <1>6, ReaderServes
    <2>2. acked' = acked /\ call' = call /\ pc' = pc
      BY <2>1 DEF Served, Serve, callVars
    <2>3. \A i \in DOMAIN inbox' : \E j \in DOMAIN inbox : inbox'[i] = inbox[j]
      BY <2>1, ServedFacts
    <2>4. acked => selection' = selection
      <3>1. 1 \in DOMAIN inbox /\ Head(inbox) = inbox[1]
        BY <2>1, ServedFacts
      <3> QED BY <2>1, <3>1 DEF Served, Effect, Selected, fieldVars
    <2> QED BY <2>2, <2>3, <2>4 DEF Selected
  <1>7. CASE UNCHANGED vars
    BY <1>7 DEF vars, callVars, fieldVars, Selected
  <1> QED BY <1>1, <1>2, <1>3, <1>4, <1>5, <1>6, <1>7 DEF Next, ReaderStep

LEMMA QueuedStep ==
    TypeOK /\ Selected /\ Queued /\ [Next]_vars => Queued'
  <1> SUFFICES ASSUME TypeOK, Selected, Queued, [Next]_vars PROVE Queued'
    OBVIOUS
  <1>1. CASE Call \/ HearNothing \/ UNCHANGED vars
    BY <1>1, Aside DEF Queued, fieldVars
  <1>2. CASE Ask
    <2>1. selection' = selection
      BY <1>2, AskFacts DEF fieldVars
    <2>2. ASSUME NEW i \in DOMAIN inbox', inbox'[i].acked
          PROVE  /\ selection = {inbox'[i].tid}
                 /\ \A j \in 1..i : inbox'[j].cmd # "select"
      <3>1. \A j \in 1..i : j \in DOMAIN inbox'
        <4>1. inbox' \in Seq(Requests)
          BY <1>2, AskFacts
        <4> QED BY <4>1
      <3>2. CASE i \in DOMAIN inbox /\ inbox'[i] = inbox[i]
        <4>1. \A j \in 1..i : j \in DOMAIN inbox /\ inbox'[j] = inbox[j]
          BY <1>2, <3>1, <3>2, AskFacts
        <4> QED BY <2>2, <3>2, <4>1 DEF Queued
      <3>3. CASE i = Len(inbox) + 1 /\ inbox'[i] = Asked
        <4>1. acked
          BY <2>2, <3>3 DEF Asked
        <4>2. \A j \in 1..i :
                  \/ inbox'[j] = Asked
                  \/ j \in DOMAIN inbox /\ inbox'[j] = inbox[j]
          BY <1>2, <3>1, AskFacts
        <4> QED BY <3>3, <4>1, <4>2 DEF Selected, Asked
      <3> QED BY <1>2, <3>2, <3>3, AskFacts
    <2> QED BY <2>1, <2>2 DEF Queued
  <1>3. CASE Hears
    BY <1>3, HearsTail DEF Queued, fieldVars
  <1>4. CASE ReaderStep
    <2>1. PICK answer : Served(answer)
      BY <1>4, ReaderServes
    <2>2. ASSUME NEW i \in DOMAIN inbox', inbox'[i].acked
          PROVE  /\ selection' = {inbox'[i].tid}
                 /\ \A j \in 1..i : inbox'[j].cmd # "select"
      <3>1. /\ i \in Nat /\ i + 1 \in DOMAIN inbox /\ inbox'[i] = inbox[i + 1]
            /\ Head(inbox) = inbox[1]
        BY <2>1, ServedFacts
      <3>2. /\ selection = {inbox'[i].tid}
            /\ \A j \in 1..(i + 1) : inbox[j].cmd # "select"
        BY <2>2, <3>1 DEF Queued
      <3>3. selection' = selection
        <4>1. inbox[1].cmd # "select"
          BY <3>1, <3>2
        <4> QED BY <2>1, <3>1, <4>1 DEF Served, Effect, fieldVars
      <3>4. ASSUME NEW j \in 1..i PROVE inbox'[j].cmd # "select"
        <4>1. j \in DOMAIN inbox'
          <5>1. inbox' \in Seq(Requests)
            BY <2>1, ServedFacts
          <5> QED BY <5>1
        <4>2. inbox'[j] = inbox[j + 1] /\ j + 1 \in 1..(i + 1)
          BY <2>1, <3>1, <4>1, ServedFacts
        <4> QED BY <3>2, <4>2
      <3> QED BY <3>2, <3>3, <3>4
    <2> QED BY <2>2 DEF Queued
  <1> QED BY <1>1, <1>2, <1>3, <1>4, Split

LEMMA WrittenStep ==
    /\ TypeOK /\ Numbered /\ LastAsked /\ Selected /\ Written
    /\ [Next]_vars
    => Written'
  <1> SUFFICES ASSUME TypeOK, Numbered, LastAsked, Selected, Written,
                      [Next]_vars, open', acked',
                      NEW k \in DOMAIN lines', lines'[k].to = asked',
                      lines'[k].type = "OK"
               PROVE  epc'[call'.tid] = call'.epc
    BY DEF Written
  <1>1. CASE Call
    BY <1>1 DEF Call
  <1>2. CASE Ask
    BY <1>2, AskFacts, Numbers DEF Numbered
  <1>3. CASE Hears
    <2>1. open' = open /\ acked' = acked
      BY <1>3 DEF Hears, HearUnchecked, HearWritten, HearTag, Unheard, Returns,
                  callVars
    <2> QED BY <1>3, <2>1, HearsTail, HeardFacts DEF Written, fieldVars
  <1>4. CASE HearNothing
    BY <1>4 DEF HearNothing, Returns
  <1>5. CASE ReaderStep
    <2>1. PICK answer : Served(answer)
      BY <1>5, ReaderServes
    <2>2. /\ asked' = asked /\ open' = open /\ call' = call /\ acked' = acked
          /\ 1 \in DOMAIN inbox /\ Head(inbox) = inbox[1]
      BY <2>1, ServedFacts DEF Served, Serve, callVars
    <2>3. CASE \E j \in DOMAIN lines : lines'[k] = lines[j]
      BY <2>2, <2>3, NothingWaits
    <2>4. CASE Tells(lines'[k])
      <3>1. inbox[1].epc = call.epc /\ selection = {call.tid}
        BY <2>2, <2>4 DEF Tells, LastAsked, Selected
      <3>2. epc' = [epc EXCEPT ![call.tid] = call.epc]
        BY <2>2, <2>4, <3>1 DEF Tells
      <3>3. call.tid \in DOMAIN epc
        BY DEF TypeOK
      <3> QED BY <2>2, <3>2, <3>3
    <2> QED BY <2>1, <2>3, <2>4, ServedFacts
  <1>6. CASE UNCHANGED vars
    BY <1>6 DEF vars, callVars, fieldVars, Written
  <1> QED BY <1>1, <1>2, <1>3, <1>4, <1>5, <1>6, Split

LEMMA SeenStep == TypeOK /\ Numbered /\ Seen /\ [Next]_vars => Seen'
  <1> SUFFICES ASSUME TypeOK, Numbered, Seen, [Next]_vars PROVE Seen'
    OBVIOUS
  <1>1. CASE Call \/ HearNothing \/ UNCHANGED vars
    BY <1>1, Aside DEF Seen, fieldVars
  <1>2. CASE Ask
    BY <1>2, AskFacts, Numbers DEF Numbered, Seen, fieldVars
  <1>3. CASE Hears
    BY <1>3, HearsTail, HeardFacts DEF Seen, fieldVars
  <1>4. CASE ReaderStep
    <2>1. PICK answer : Served(answer)
      BY <1>4, ReaderServes
    <2>2. asked' = asked /\ 1 \in DOMAIN inbox
      BY <2>1, ServedFacts DEF Served, Serve
    <2>3. /\ \A t \in Tids : epc'[t] \in held'[t]
          /\ \A t \in Tids : held[t] \subseteq held'[t]
      <3>1. ASSUME NEW u \in selection, NEW e,
                   epc' = [epc EXCEPT ![u] = e],
                   held' = [held EXCEPT ![u] = @ \union {e}]
            PROVE  \A t \in Tids : epc'[t] \in held'[t] /\ held[t] \subseteq held'[t]
        BY <3>1 DEF TypeOK, Seen
      <3>2. CASE UNCHANGED <<epc, held>>
        BY <3>2 DEF Seen
      <3> QED BY <2>1, <3>1, <3>2 DEF Served, Effect, fieldVars
    <2>4. ASSUME NEW k \in DOMAIN lines', lines'[k].type = "U"
          PROVE  /\ lines'[k].epc \in held'[lines'[k].tid]
                 /\ lines'[k].to = asked => epc'[lines'[k].tid] = lines'[k].epc
      <3>1. lines'[k].tid \in Tids
        <4>1. lines'[k] \in ReaderLines
          BY <2>1, ServedFacts
        <4> QED BY <4>1 DEF ReaderLines
      <3>2. CASE \E j \in DOMAIN lines : lines'[k] = lines[j]
        <4>1. PICK j \in DOMAIN lines : lines'[k] = lines[j]
          BY <3>2
        <4>2. lines[j].to # asked
          BY <2>2, NothingWaits
        <4> QED BY <2>3, <2>4, <3>1, <4>1, <4>2 DEF Seen
      <3>3. CASE Tells(lines'[k])
        BY <2>3, <2>4, <3>1, <3>3 DEF Tells, Seen, fieldVars
      <3> QED BY <2>1, <3>2, <3>3, ServedFacts
    <2> QED BY <2>2, <2>3, <2>4 DEF Seen
  <1> QED BY <1>1, <1>2, <1>3, <1>4, Split

LEMMA SettledStep ==
    /\ TypeOK /\ Numbered /\ LastAsked /\ Written /\ Seen /\ Settled
    /\ [Next]_vars
    => Settled'
  <1> SUFFICES ASSUME TypeOK, Numbered, LastAsked, Written, Seen, Settled,
                      [Next]_vars
               PROVE  Settled'
    OBVIOUS
  <1>1. CASE Call
    BY <1>1 DEF Call, Settled
  <1>2. CASE Ask
    <2>1. UNCHANGED <<epc, held, call, pc, ret, found, acked, strays>>
          /\ pc # "idle"
      BY <1>2, AskFacts DEF callVars, fieldVars
    <2>2. CASE pc = "read"
      BY <1>2, <2>1, <2>2, AskFacts DEF Settled, Asked
    <2>3. CASE pc # "read"
      BY <2>1, <2>3 DEF Settled
    <2> QED BY <2>2, <2>3
  <1>3. CASE HearUnchecked
    <2>1. pc \in {"select", "password"} /\ ret' = ret /\ found' = found
      BY <1>3 DEF HearUnchecked
    <2> QED BY <2>1 DEF Settled
  <1>4. CASE HearWritten
    <2>1. /\ pc = "write" /\ open /\ found' = found /\ acked' = acked
          /\ pc' \in {"read", "idle"}
          /\ ret' = WriteResult(Head(lines).type)
          /\ strays' = (strays \/ Head(lines).to # asked)
      BY <1>4 DEF HearWritten, Returns, Following, Commands, Heard
    <2>2. UNCHANGED <<fieldVars, inbox, call>>
          /\ 1 \in DOMAIN lines /\ Head(lines) = lines[1]
      BY <1>4, HearsTail, HeardFacts DEF Hears
    <2>3. ~found
      BY <2>1 DEF Settled
    <2>4. ASSUME ret' = "RFID_OK", acked, ~strays'
          PROVE  epc[call.tid] = call.epc /\ DOMAIN inbox = {}
      <3>1. Head(lines).type = "OK" /\ Head(lines).to = asked
        BY <2>1, <2>4 DEF WriteResult, Stamped, LineTypes
      <3> QED BY <2>1, <2>2, <2>4, <3>1, NothingWaits DEF Written
    <2> QED BY <2>1, <2>2, <2>3, <2>4 DEF Settled, fieldVars
  <1>5. CASE HearTag
    <2> DEFINE line == Head(lines)
    <2>1. /\ pc = "read" /\ acked' = acked
          /\ pc' \in {"read", "idle"}
          /\ found' = (found \/ Shows(line))
          /\ ret' = IF Shows(line) THEN "RFID_OK" ELSE ret
          /\ strays' = (strays \/ line.to # asked)
      BY <1>5 DEF HearTag, Returns, Following, Commands, Heard
    <2>2. UNCHANGED <<fieldVars, inbox, call>>
          /\ 1 \in DOMAIN lines /\ line = lines[1]
      BY <1>5, HearsTail, HeardFacts DEF Hears
    <2>3. CASE Shows(line)
      <3>1. call.epc \in held[call.tid]
        BY <2>2, <2>3 DEF Shows, Seen
      <3>2. line.to = asked =>
                epc[call.tid] = call.epc /\ DOMAIN inbox = {}
        BY <2>2, <2>3, NothingWaits DEF Shows, Seen
      <3> QED BY <2>1, <2>2, <3>1, <3>2 DEF Settled, fieldVars
    <2>4. CASE ~Shows(line)
      BY <2>1, <2>2, <2>4 DEF Settled, fieldVars
    <2> QED BY <2>3, <2>4
  <1>6. CASE Unheard
    BY <1>6 DEF Unheard, fieldVars, callVars, Settled
  <1>7. CASE HearNothing
    <2>1. /\ pc \in Commands /\ pc' = Following[pc]
          /\ ret' = IF pc = "write" THEN "RFID_ERR_PARSE" ELSE ret
          /\ UNCHANGED <<fieldVars, inbox, call, found, acked, strays>>
      BY <1>7 DEF HearNothing, Returns, WriteResult, Stamped, LineTypes,
                  LastAsked, TypeOK
    <2>2. pc = "read" => pc' = "idle"
      BY <2>1 DEF Following, Commands
    <2> QED BY <2>1, <2>2 DEF Settled, fieldVars, Commands
  <1>8. CASE ReaderStep
    <2>1. PICK answer : Served(answer)
      BY <1>8, ReaderServes
    <2>2. UNCHANGED <<call, pc, ret, found, acked, strays>>
      BY <2>1 DEF Served, Serve, callVars
    <2>3. /\ 1 \in DOMAIN inbox /\ Head(inbox) = inbox[1]
          /\ \A i \in DOMAIN inbox' : \E j \in DOMAIN inbox : inbox'[i] = inbox[j]
      BY <2>1, ServedFacts
    <2>4. \A t \in Tids : held[t] \subseteq held'[t]
      BY <2>1 DEF Served, Effect, TypeOK, fieldVars
    <2>5. inbox[1].cmd # "write" => epc' = epc
      BY <2>1, <2>3 DEF Served, Effect, fieldVars
    <2>6. call.tid \in Tids
      BY DEF TypeOK
    <2> QED BY <2>2, <2>3, <2>4, <2>5, <2>6 DEF Settled
  <1>9. CASE UNCHANGED vars
    BY <1>9 DEF vars, callVars, fieldVars, Settled
  <1> QED BY <1>1, <1>2, <1>3, <1>4, <1>5, <1>6, <1>7, <1>8, <1>9
          DEF Next, ReaderStep

-----------------------------------------------------------------------------
(* The theorems *)

LEMMA InvHolds == Spec => []Inv
  <1>1. Inv /\ [Next]_vars => Inv'
    BY TypeStep, NumberedStep, LastAskedStep, ConfirmedStep, SelectedStep,
       QueuedStep, WrittenStep, SeenStep, SettledStep DEF Inv
  <1> QED BY InvInit, <1>1, PTL DEF Spec

\* When RFWriteEPC reports RFID_OK, after a selection that was confirmed to it
\* and no late line, the tag has the new EPC.
THEOREM WriteTruthfulHolds == Spec => []WriteTruthful
  <1>1. Inv => WriteTruthful
    BY DEF Inv, Settled, WriteTruthful, Over
  <1> QED BY InvHolds, <1>1, PTL

\* What the double check of RFWriteEPC found is so, or, after a late line, has
\* been so, whatever the results of the commands before it.
THEOREM CheckTruthfulHolds == Spec => []CheckTruthful
  <1>1. Inv => CheckTruthful
    BY DEF Inv, Settled, CheckTruthful, Over
  <1> QED BY InvHolds, <1>1, PTL

\* No write that RFWriteEPC sent after its selection was confirmed changes
\* another tag, whenever the reader comes to serve it.
THEOREM OthersUntouchedHolds == Spec => OthersUntouched
  <1> DEFINE Step == \A t \in Tids :
                        epc'[t] # epc[t] /\ Head(inbox).acked =>
                            t = Head(inbox).tid
  <1>1. Inv /\ [Next]_vars => [Step]_vars
    <2> SUFFICES ASSUME Inv, Next, NEW t \in Tids,
                        epc'[t] # epc[t], Head(inbox).acked
                 PROVE  t = Head(inbox).tid
      OBVIOUS
    <2>1. CASE ReaderStep
      <3>1. PICK answer : Served(answer)
        BY <2>1, ReaderServes DEF Inv
      <3>2. 1 \in DOMAIN inbox /\ Head(inbox) = inbox[1]
        BY <3>1, ServedFacts DEF Inv
      <3>3. selection = {Head(inbox).tid}
        BY <3>2 DEF Inv, Queued
      <3>4. PICK u \in selection : epc' = [epc EXCEPT ![u] = Head(inbox).epc]
        BY <3>1 DEF Served, Effect, fieldVars
      <3> QED BY <3>3, <3>4 DEF Inv, TypeOK
    <2>2. CASE ~ReaderStep
      BY <2>2, Split, Aside, AskFacts, HearsTail DEF Inv, fieldVars
    <2> QED BY <2>1, <2>2
  <1> QED BY InvHolds, <1>1, PTL DEF Spec, OthersUntouched
=============================================================================
