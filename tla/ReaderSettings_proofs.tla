------------------------ MODULE ReaderSettings_proofs ------------------------
(***************************************************************************)
(* What the results of the setting calls mean, for any values, any models  *)
(* and any number of requests.                                             *)
(*                                                                         *)
(* The reader serves in order, so that a line that answers the last        *)
(* request shows that nothing is waiting to be served (Numbered).  Such a  *)
(* line says what the reader holds (OwnLines), and as the call ends with   *)
(* it, nothing can change the setting before the next call (Settled).      *)
(***************************************************************************)
EXTENDS ReaderSettings, SequenceTheorems, TLAPS

\* The requests in the inbox are some the engine sends.
Sendable ==
    \A i \in DOMAIN inbox :
        inbox[i].op = "set" =>
            /\ inbox[i].of # "version"
            /\ inbox[i].of = "regulation" => inbox[i].arg \in 1..9

Numbered ==
    /\ \A i \in DOMAIN inbox : inbox[i].n <= asked
    /\ \A i, j \in DOMAIN inbox : i < j => inbox[i].n < inbox[j].n
    /\ \A k \in DOMAIN lines :
          /\ lines[k].to <= asked
          /\ \A i \in DOMAIN inbox : lines[k].to < inbox[i].n

\* The last request is the one the call waits for.
OwnRequest ==
    \A i \in DOMAIN inbox :
        inbox[i].n = asked =>
            /\ pc = "version" => inbox[i].of = "version"
            /\ pc = "waiting" => /\ inbox[i].op = call.op
                                 /\ inbox[i].of = call.of
                                 /\ inbox[i].arg = call.arg

ErrorWord(op) == IF op = "set" THEN "SetError" ELSE "GetError"

\* What the reader may say to the request of call c, while it holds s.
Answers(c, s, r) ==
    \/ r.type = "restart" /\ r.clock = 0
    \/ /\ c.of \in Worded \union {"time"}
       /\ r.type = c.of /\ r.error = ErrorWord(c.op) /\ r.clock = 0
    \/ r = Reply(c.of, s, r.to)

OwnLines ==
    \A k \in DOMAIN lines :
        lines[k].to = asked =>
            /\ pc = "version" => lines[k].type \in {"version", "restart"}
            /\ pc = "waiting" => Answers(call, setting, lines[k])

\* What is known of the call in progress.
Calling ==
    /\ pc = "waiting" => call.of \in AllSettings
    /\ pc \in {"version", "between"} =>
          call.of = "power" /\ call.op = "set" /\ asked <= MaxRequests
    /\ pc # "idle" => outcome = Failure("none") /\ asked > 0
    /\ pc = "waiting" /\ call.op = "set" /\ call.of = "regulation" =>
          call.arg \in 1..9

\* The lines with a keyword tell values that were.
Remembered ==
    /\ \A s \in AllSettings : setting[s] \in held[s]
    /\ setting["regulation"] \in 1..9
    /\ \A k \in DOMAIN lines :
          lines[k].type \in Worded /\ lines[k].error = "" =>
              lines[k].value \in held[lines[k].type]

\* After the own reply nothing is left to be served.
Settled ==
    /\ GetTruthful /\ SetTruthful
    /\ pc = "idle" /\ OwnReply => inbox = <<>>

Inv == /\ TypeOK /\ Sendable /\ Numbered /\ OwnRequest /\ OwnLines /\ Calling
       /\ Remembered /\ Settled /\ KeywordKept /\ ThrowHasCause

-----------------------------------------------------------------------------
(* Queues *)

LEMMA HeadTail ==
    ASSUME NEW S, NEW s \in Seq(S), s # <<>>
    PROVE  /\ Head(s) = s[1] /\ 1 \in DOMAIN s /\ Head(s) \in S
           /\ Tail(s) \in Seq(S)
           /\ \A i \in DOMAIN Tail(s) : i \in Nat /\ i + 1 \in DOMAIN s
                                        /\ Tail(s)[i] = s[i + 1]
           /\ \A i \in DOMAIN s : i = 1 \/ 1 < i
  OBVIOUS

LEMMA Appended ==
    ASSUME NEW S, NEW s \in Seq(S), NEW e \in S
    PROVE  /\ Append(s, e) \in Seq(S) /\ s \o <<e>> \in Seq(S)
           /\ s \o <<e>> = Append(s, e)
           /\ \A i \in DOMAIN s : i \in DOMAIN Append(s, e)
                                  /\ Append(s, e)[i] = s[i]
           /\ \A i \in DOMAIN Append(s, e) :
                 \/ i \in DOMAIN s /\ Append(s, e)[i] = s[i]
                 \/ i = Len(s) + 1 /\ Append(s, e)[i] = e
           /\ \A i \in DOMAIN s : i < Len(s) + 1
           /\ Len(s) + 1 \in DOMAIN Append(s, e)
  OBVIOUS

LEMMA NothingQueued ==
    ASSUME NEW S, NEW s \in Seq(S), \A i \in DOMAIN s : FALSE
    PROVE  s = <<>>
  <1>1. Len(s) = 0
    <2>1. Len(s) > 0 => 1 \in DOMAIN s
      OBVIOUS
    <2> QED BY <2>1
  <1> QED BY <1>1, EmptySeq

-----------------------------------------------------------------------------
(* The three kinds of steps *)

\* A request is sent; the call waits for its answer.
Asks(r, p, c) ==
    /\ inbox' = Append(inbox, r) /\ r.n = asked + 1 /\ asked' = asked + 1
    /\ pc' = p /\ call' = c /\ outcome' = Failure("none")
    /\ p = "version" => /\ r.of = "version" /\ r.op = "get"
                        /\ c.of = "power" /\ c.op = "set"
                        /\ asked' <= MaxRequests
    /\ p = "waiting" => r.op = c.op /\ r.of = c.of /\ r.arg = c.arg
                        /\ c.of \in AllSettings
    /\ c.of = "regulation" /\ c.op = "set" => c.arg \in 1..9
    /\ UNCHANGED <<readerVars, lines, last>>

Asking ==
    \E r \in Requests, p \in {"version", "waiting"},
       c \in [op : {"get", "set"}, of : AllSettings, arg : Nat, prior : Nat] :
          Asks(r, p, c)

\* The first line is taken, or the watch dog ends the call.
Hears == HearVersion \/ HearReply \/ HearNothing \/ Unheard

\* The reader serves q, holds s after it and may say r.
Says(q, s, r) ==
    IF q.of = "version" THEN r.type \in {"version", "restart"}
    ELSE Answers(q, s, r)

Serves ==
    \E s \in {setting, Sets(Head(inbox))} : \E reply :
        /\ Serve(s, reply)
        /\ \/ reply = <<>>
           \/ \E r \in ReaderLines : /\ reply = <<r>> /\ r.to = Head(inbox).n
                                     /\ Says(Head(inbox), s, r)

LEMMA Constants ==
    /\ MaxRequests \in Nat /\ Settings \subseteq AllSettings
    /\ Factory \in [AllSettings -> Nat]
    /\ \A s \in AllSettings : Asked[s] \subseteq Nat
    /\ Asked["regulation"] \subseteq 1..9 /\ Factory["regulation"] \in 1..9
    /\ "power" \in AllSettings /\ "regulation" \in AllSettings /\ "time" \in AllSettings
    /\ Worded \subseteq AllSettings /\ "version" \notin AllSettings
  BY SettingsAssumption, RequestsAssumption DEF AllSettings, Worded

LEMMA RequestFields ==
    ASSUME NEW q \in Requests
    PROVE  q.n \in Nat /\ q.of \in AllSettings \union {"version"} /\ q.arg \in Nat
  BY Constants DEF Requests

LEMMA LineFields ==
    ASSUME NEW r \in ReaderLines
    PROVE  r.to \in Nat /\ r.value \in Nat /\ r.clock \in Nat
  <1>1. 1..(MaxRequests + 1) \subseteq Nat
    BY Constants
  <1> QED BY <1>1 DEF ReaderLines

LEMMA QueuedFields ==
    ASSUME TypeOK
    PROVE  /\ asked \in Nat
           /\ \A i \in DOMAIN inbox : inbox[i] \in Requests /\ inbox[i].n \in Nat
           /\ \A k \in DOMAIN lines : lines[k] \in ReaderLines /\ lines[k].to \in Nat
  <1>1. inbox \in Seq(Requests) /\ lines \in Seq(ReaderLines) /\ asked \in Nat
    BY Constants DEF TypeOK
  <1>2. \A i \in DOMAIN inbox : inbox[i] \in Requests
    BY <1>1
  <1>3. \A k \in DOMAIN lines : lines[k] \in ReaderLines
    BY <1>1
  <1> QED BY <1>1, <1>2, <1>3, RequestFields, LineFields

\* What the reader's answer to a request about x shows.
LEMMA ReplyValue ==
    \A x \in AllSettings, s \in [AllSettings -> Nat], n \in Nat : \A r :
        r = Reply(x, s, n) /\ x # "time" => r.value = s[x]
  <1> SUFFICES ASSUME NEW x \in AllSettings, NEW s \in [AllSettings -> Nat],
                      NEW n \in Nat, NEW r, r = Reply(x, s, n)
               PROVE  x # "time" => r.value = s[x]
    OBVIOUS
  <1>1. CASE x \in {"power", "regulation"}
    BY <1>1 DEF Reply, Line, Worded
  <1>2. CASE x = "time"
    BY <1>2 DEF Reply, Line, Worded
  <1>3. CASE x \in Worded
    BY <1>3 DEF Reply, Line, Worded
  <1> QED BY <1>1, <1>2, <1>3 DEF AllSettings, Worded

LEMMA ReplyClock ==
    \A x \in AllSettings, s \in [AllSettings -> Nat], n \in Nat : \A r :
        r = Reply(x, s, n) /\ x = "time" => r.clock = s["time"]
  <1> SUFFICES ASSUME NEW x \in AllSettings, NEW s \in [AllSettings -> Nat],
                      NEW n \in Nat, NEW r, r = Reply(x, s, n)
               PROVE  x = "time" => r.clock = s["time"]
    OBVIOUS
  <1>1. CASE x \in {"power", "regulation"}
    BY <1>1 DEF Reply, Line, Worded
  <1>2. CASE x = "time"
    BY <1>2 DEF Reply, Line, Worded
  <1>3. CASE x \in Worded
    BY <1>3 DEF Reply, Line, Worded
  <1> QED BY <1>1, <1>2, <1>3 DEF AllSettings, Worded

LEMMA ReplyError ==
    \A x \in AllSettings, s \in [AllSettings -> Nat], n \in Nat : \A r :
        r = Reply(x, s, n) => r.error = ""
  <1> SUFFICES ASSUME NEW x \in AllSettings, NEW s \in [AllSettings -> Nat],
                      NEW n \in Nat, NEW r, r = Reply(x, s, n)
               PROVE  r.error = ""
    OBVIOUS
  <1>1. CASE x \in {"power", "regulation"}
    BY <1>1 DEF Reply, Line, Worded
  <1>2. CASE x = "time"
    BY <1>2 DEF Reply, Line, Worded
  <1>3. CASE x \in Worded
    BY <1>3 DEF Reply, Line, Worded
  <1> QED BY <1>1, <1>2, <1>3 DEF AllSettings, Worded

LEMMA ReplyType ==
    \A x \in AllSettings, s \in [AllSettings -> Nat], n \in Nat : \A r :
        r = Reply(x, s, n) => r.type = x \/ (x \notin Worded /\ r.type \notin Worded)
  <1> SUFFICES ASSUME NEW x \in AllSettings, NEW s \in [AllSettings -> Nat],
                      NEW n \in Nat, NEW r, r = Reply(x, s, n)
               PROVE  r.type = x \/ (x \notin Worded /\ r.type \notin Worded)
    OBVIOUS
  <1>1. CASE x \in {"power", "regulation"}
    BY <1>1 DEF Reply, Line, Worded
  <1>2. CASE x = "time"
    BY <1>2 DEF Reply, Line, Worded
  <1>3. CASE x \in Worded
    BY <1>3 DEF Reply, Line, Worded
  <1> QED BY <1>1, <1>2, <1>3 DEF AllSettings, Worded

\* The new request has its type while the bound on requests was met.
LEMMA RequestTyped ==
    ASSUME TypeOK, asked <= MaxRequests, NEW op \in {"get", "set"},
           NEW s \in AllSettings \union {"version"}, NEW arg \in Nat
    PROVE  [op |-> op, of |-> s, arg |-> arg, n |-> asked + 1] \in Requests
  <1>1. asked + 1 \in 1..(MaxRequests + 1)
    BY Constants DEF TypeOK
  <1> QED BY <1>1 DEF Requests

LEMMA GetAsks ==
    ASSUME TypeOK, NEW s \in Settings, Get(s)
    PROVE  Asking
  <1> DEFINE r == [op |-> "get", of |-> s, arg |-> 0, n |-> asked + 1]
             c == [op |-> "get", of |-> s, arg |-> 0, prior |-> 0]
  <1>1. s \in AllSettings
    BY Constants
  <1>2. asked <= MaxRequests
    BY Constants DEF TypeOK, Get, Begin
  <1>3. r \in Requests
    BY <1>1, <1>2, RequestTyped
  <1>4. c \in [op : {"get", "set"}, of : AllSettings, arg : Nat, prior : Nat]
    BY <1>1
  <1>5. Asks(r, "waiting", c)
    BY <1>1 DEF Asks, Get, Begin, Request
  <1> QED BY <1>3, <1>4, <1>5 DEF Asking

LEMMA SetAsks ==
    ASSUME TypeOK, NEW s \in Settings, NEW arg \in Asked[s], NEW prior \in Nat,
           Set(s, arg, prior)
    PROVE  Asking
  <1> DEFINE r == [op |-> "set", of |-> s, arg |-> arg, n |-> asked + 1]
             c == [op |-> "set", of |-> s, arg |-> arg, prior |-> prior]
  <1>1. s \in AllSettings /\ arg \in Nat /\ (s = "regulation" => arg \in 1..9)
    BY Constants
  <1>2. asked <= MaxRequests
    BY Constants DEF TypeOK, Set, Begin
  <1>3. r \in Requests
    BY <1>1, <1>2, RequestTyped
  <1>4. c \in [op : {"get", "set"}, of : AllSettings, arg : Nat, prior : Nat]
    BY <1>1
  <1>5. Asks(r, "waiting", c)
    BY <1>1 DEF Asks, Set, Begin, Request
  <1> QED BY <1>3, <1>4, <1>5 DEF Asking

LEMMA SetPowerAsks ==
    ASSUME TypeOK, NEW arg \in Asked["power"], SetPower(arg)
    PROVE  Asking
  <1> DEFINE r == [op |-> "get", of |-> "version", arg |-> 0, n |-> asked + 1]
             c == [op |-> "set", of |-> "power", arg |-> arg, prior |-> 0]
  <1>1. "power" \in AllSettings /\ arg \in Nat
    BY Constants
  <1>2. asked <= MaxRequests /\ asked + 1 <= MaxRequests
    BY Constants DEF TypeOK, SetPower, Begin
  <1>3. r \in Requests
    BY <1>2, RequestTyped
  <1>4. c \in [op : {"get", "set"}, of : AllSettings, arg : Nat, prior : Nat]
    BY <1>1
  <1>5. Asks(r, "version", c)
    BY <1>1, <1>2 DEF Asks, SetPower, Begin, Request
  <1> QED BY <1>3, <1>4, <1>5 DEF Asking

LEMMA RegulatedPower ==
    ASSUME NEW n \in Nat
    PROVE  RegulatePower(n) \in Nat
  <1>1. CASE model \notin DOMAIN PowerRangeTable
    BY <1>1 DEF RegulatePower, DEFAULT_SET_POWER_VALUE
  <1>2. CASE model \in DOMAIN PowerRangeTable
    <2>1. PowerRangeTable[model][2] \in Nat
      BY <1>2 DEF PowerRangeTable
    <2> QED BY <1>2, <2>1 DEF RegulatePower
  <1> QED BY <1>1, <1>2

LEMMA GoesOnAsks ==
    ASSUME TypeOK, Calling, SetPowerGoesOn
    PROVE  Asking
  <1> DEFINE power == RegulatePower(call.arg)
             r == [op |-> "set", of |-> "power", arg |-> power, n |-> asked + 1]
             c == [call EXCEPT !.arg = power]
  <1>1. "power" \in AllSettings /\ power \in Nat
    BY Constants, RegulatedPower DEF TypeOK
  <1>2. /\ asked <= MaxRequests /\ call.of = "power" /\ call.op = "set"
        /\ outcome = Failure("none")
    BY DEF Calling, SetPowerGoesOn
  <1>3. r \in Requests
    BY <1>1, <1>2, RequestTyped
  <1>4. /\ c \in [op : {"get", "set"}, of : AllSettings, arg : Nat, prior : Nat]
        /\ c.op = "set" /\ c.of = "power" /\ c.arg = power
    BY <1>1, <1>2 DEF TypeOK
  <1>5. Asks(r, "waiting", c)
    BY <1>1, <1>2, <1>4 DEF Asks, SetPowerGoesOn, Request
  <1> QED BY <1>3, <1>4, <1>5 DEF Asking

\* What the reader holds after it served a request has its type.
LEMMA SetsTyped ==
    ASSUME TypeOK, Sendable, Remembered, inbox # <<>>,
           NEW s \in {setting, Sets(Head(inbox))}
    PROVE  /\ Head(inbox) \in Requests /\ s \in [AllSettings -> Nat]
           /\ s["regulation"] \in 1..9
           /\ Head(inbox).op = "set" =>
                 Sets(Head(inbox))[Head(inbox).of] = Head(inbox).arg
  <1>1. Head(inbox) \in Requests /\ Head(inbox) = inbox[1] /\ 1 \in DOMAIN inbox
    BY HeadTail DEF TypeOK
  <1>2. Head(inbox).op = "set" =>
           /\ Head(inbox).of \in AllSettings /\ Head(inbox).arg \in Nat
           /\ Head(inbox).of = "regulation" => Head(inbox).arg \in 1..9
    BY <1>1 DEF Sendable, Requests
  <1> QED BY <1>1, <1>2, Constants DEF TypeOK, Sets, Remembered

LEMMA ReplyTyped ==
    ASSUME NEW x \in AllSettings \union {"version"}, NEW s \in [AllSettings -> Nat],
           NEW n \in 1..(MaxRequests + 1)
    PROVE  Reply(x, s, n) \in ReaderLines /\ Reply(x, s, n).to = n
           /\ Reply("version", s, n).type = "version"
  BY DEF Reply, Line, ReaderLines, LineTypes, AllSettings, Worded

LEMMA ObeysServes ==
    ASSUME TypeOK, Sendable, Remembered, Obeys
    PROVE  Serves
  <1> DEFINE q == Head(inbox)
             r == Reply(q.of, Sets(q), q.n)
  <1>1. inbox # <<>>
    BY DEF Obeys
  <1>2. q \in Requests /\ Sets(q) \in [AllSettings -> Nat]
        /\ (q.op = "set" => Sets(q)[q.of] = q.arg)
    BY <1>1, SetsTyped
  <1>3. r \in ReaderLines /\ r.to = q.n /\ (q.of = "version" => r.type = "version")
    <2>1. q.of \in AllSettings \union {"version"} /\ q.n \in 1..(MaxRequests + 1)
      BY <1>2 DEF Requests
    <2> QED BY <1>2, <2>1, ReplyTyped
  <1>4. Says(q, Sets(q), r)
    BY <1>2, <1>3 DEF Says, Answers
  <1>5. CASE Serve(Sets(q), <<r>>)
    BY <1>3, <1>4, <1>5 DEF Serves
  <1>6. CASE Serve(Sets(q), <<>>)
    BY <1>6 DEF Serves
  <1> QED BY <1>5, <1>6 DEF Obeys

LEMMA RefusesServes ==
    ASSUME TypeOK, Sendable, Remembered, Refuses
    PROVE  Serves
  <1> DEFINE q == Head(inbox)
             e == Line(q.of, 0, ErrorWord(q.op), 0, q.n)
             r == Reply(q.of, setting, q.n)
  <1>1. inbox # <<>> /\ q.of # "version"
    BY DEF Refuses
  <1>2. q \in Requests /\ setting \in [AllSettings -> Nat]
    BY <1>1, SetsTyped
  <1>3. CASE Serve(setting, <<r>>)
    <2>1. r \in ReaderLines /\ r.to = q.n
      <3>1. q.of \in AllSettings \union {"version"} /\ q.n \in 1..(MaxRequests + 1)
        BY <1>2 DEF Requests
      <3> QED BY <1>2, <3>1, ReplyTyped
    <2>2. Says(q, setting, r)
      BY <1>1, <2>1 DEF Says, Answers
    <2> QED BY <1>3, <2>1, <2>2 DEF Serves
  <1>4. CASE q.of \in Worded \union {"time"} /\ Serve(setting, <<e>>)
    <2>1. e \in ReaderLines /\ e.to = q.n
      BY <1>2, <1>4 DEF Line, ReaderLines, LineTypes, Requests, ErrorWord
    <2>2. Says(q, setting, e)
      BY <1>1, <1>4 DEF Says, Answers, Line
    <2> QED BY <1>4, <2>1, <2>2 DEF Serves
  <1> QED BY <1>3, <1>4 DEF Refuses, ErrorWord

LEMMA FailsServes ==
    ASSUME TypeOK, Sendable, Remembered, Fails
    PROVE  Serves
  <1> DEFINE r == Line("restart", 0, "", 0, Head(inbox).n)
  <1>1. Head(inbox) \in Requests
    BY SetsTyped DEF Fails
  <1>2. r \in ReaderLines /\ r.to = Head(inbox).n /\ r.type = "restart" /\ r.clock = 0
    BY <1>1 DEF Line, ReaderLines, LineTypes, Requests
  <1>3. Says(Head(inbox), setting, r)
    BY <1>2 DEF Says, Answers
  <1> QED BY <1>2, <1>3 DEF Fails, Serves

LEMMA StepKinds ==
    ASSUME TypeOK, Sendable, Remembered, Calling, Next
    PROVE  Asking \/ Hears \/ Serves
  <1>1. ASSUME NEW s \in Settings, Get(s)
        PROVE  Asking
    BY <1>1, GetAsks
  <1>2. ASSUME NEW s \in Settings, NEW arg \in Asked[s],
               \/ Set(s, arg, 0)
               \/ s = "antenna" /\ Set(s, arg, arg)
               \/ s = "power" /\ SetPower(arg)
        PROVE  Asking
    <2>1. arg \in Nat
      BY Constants
    <2> QED BY <1>2, <2>1, SetAsks, SetPowerAsks
  <1> QED BY <1>1, <1>2, GoesOnAsks, ObeysServes, RefusesServes, FailsServes
          DEF Next, Hears

-----------------------------------------------------------------------------
(* A request is sent *)

LEMMA AskingKeeps ==
    ASSUME Inv, Asking
    PROVE  Inv'
  <1>1. PICK r \in Requests, p \in {"version", "waiting"},
             c \in [op : {"get", "set"}, of : AllSettings, arg : Nat, prior : Nat] :
                Asks(r, p, c)
    BY DEF Asking
  <1>2. /\ inbox' = Append(inbox, r) /\ r.n = asked + 1 /\ asked' = asked + 1
        /\ pc' = p /\ call' = c /\ outcome' = Failure("none")
        /\ UNCHANGED <<model, setting, held, lines, last>>
        /\ asked \in Nat /\ inbox \in Seq(Requests)
    BY <1>1, Constants DEF Asks, readerVars, Inv, TypeOK
  <1>3. /\ inbox' \in Seq(Requests)
        /\ \A i \in DOMAIN inbox : i \in DOMAIN inbox' /\ inbox'[i] = inbox[i]
        /\ \A i \in DOMAIN inbox' :
              \/ i \in DOMAIN inbox /\ inbox'[i] = inbox[i]
              \/ i = Len(inbox) + 1 /\ inbox'[i] = r
        /\ \A i \in DOMAIN inbox : i < Len(inbox) + 1 /\ i \in Nat
        /\ Len(inbox) \in Nat
    BY <1>2, Appended
  <1>4. \A i \in DOMAIN inbox : inbox[i].n \in Int /\ inbox[i].n <= asked
    BY QueuedFields DEF Inv, Numbered
  <1>5. \A k \in DOMAIN lines : lines[k].to \in Int /\ lines[k].to <= asked
    BY QueuedFields DEF Inv, Numbered
  <1>6. TypeOK'
    <2>1. asked' \in 0..(MaxRequests + 1)
      <3>1. r.n \in 1..(MaxRequests + 1)
        BY DEF Requests
      <3> QED BY <1>2, <3>1
    <2>2. outcome' \in [code : Codes, value : Nat]
      BY <1>2 DEF Failure, Codes
    <2> QED BY <1>2, <1>3, <2>1, <2>2 DEF Inv, TypeOK
  <1>7. Sendable'
    <2>1. r.op = "set" => r.of # "version" /\ (r.of = "regulation" => r.arg \in 1..9)
      BY <1>1, Constants DEF Asks
    <2> QED BY <1>3, <2>1 DEF Inv, Sendable
  <1>8. Numbered'
    <2>1. \A i \in DOMAIN inbox' : inbox'[i].n <= asked'
      BY <1>2, <1>3, <1>4
    <2>2. \A i, j \in DOMAIN inbox' : i < j => inbox'[i].n < inbox'[j].n
      BY <1>2, <1>3, <1>4 DEF Inv, Numbered
    <2>3. \A k \in DOMAIN lines' :
             /\ lines'[k].to <= asked'
             /\ \A i \in DOMAIN inbox' : lines'[k].to < inbox'[i].n
      BY <1>2, <1>3, <1>5 DEF Inv, Numbered
    <2> QED BY <2>1, <2>2, <2>3 DEF Numbered
  <1>9. OwnRequest'
    <2>1. \A i \in DOMAIN inbox' : inbox'[i].n = asked' => inbox'[i] = r
      BY <1>2, <1>3, <1>4
    <2> QED BY <1>1, <1>2, <2>1 DEF Asks, OwnRequest
  <1>10. OwnLines'
    BY <1>2, <1>5 DEF OwnLines
  <1>11. Calling'
    BY <1>1, <1>2 DEF Asks, Calling
  <1>12. Remembered'
    BY <1>2 DEF Inv, Remembered
  <1>13. Settled' /\ KeywordKept' /\ ThrowHasCause'
    BY <1>2 DEF Settled, GetTruthful, SetTruthful, Succeeded, KeywordKept,
                ThrowHasCause, Failure
  <1> QED BY <1>6, <1>7, <1>8, <1>9, <1>10, <1>11, <1>12, <1>13 DEF Inv

-----------------------------------------------------------------------------
(* A line is taken, or the call ends without one *)

\* The first line, if any, is gone; nothing is sent and nothing served.
LEMMA HearsQueues ==
    ASSUME Inv, Hears
    PROVE  /\ UNCHANGED <<model, setting, held, inbox, call, asked>>
           /\ lines' \in Seq(ReaderLines)
           /\ \A k \in DOMAIN lines' : \E j \in DOMAIN lines : lines'[k] = lines[j]
           /\ last' \in ReaderLines \union {Nothing}
           /\ last' # last => pc' = "idle" \/ pc' = "between"
  <1>1. UNCHANGED <<model, setting, held, inbox, call, asked>>
    BY DEF Hears, HearVersion, HearReply, HearNothing, Unheard, readerVars
  <1>2. lines \in Seq(ReaderLines) /\ last \in ReaderLines \union {Nothing}
    BY DEF Inv, TypeOK
  <1>3. \/ UNCHANGED lines /\ last' = Nothing
        \/ lines # <<>> /\ lines' = Tail(lines) /\ last' \in {last, Head(lines)}
    BY DEF Hears, HearVersion, HearReply, HearNothing, Unheard
  <1>4. lines' \in Seq(ReaderLines) /\ last' \in ReaderLines \union {Nothing}
    BY <1>2, <1>3, HeadTail
  <1>5. \A k \in DOMAIN lines' : \E j \in DOMAIN lines : lines'[k] = lines[j]
    <2>1. CASE UNCHANGED lines
      BY <2>1
    <2>2. CASE lines # <<>> /\ lines' = Tail(lines)
      BY <1>2, <2>2, HeadTail
    <2> QED BY <1>3, <2>1, <2>2
  <1>6. last' # last => pc' = "idle" \/ pc' = "between"
    BY DEF Hears, HearVersion, HearReply, HearNothing, Unheard
  <1> QED BY <1>1, <1>4, <1>5, <1>6

LEMMA ValueTyped ==
    ASSUME NEW s, NEW r \in ReaderLines
    PROVE  Value(s, r) \in Nat
  <1>1. r.value \in Nat /\ r.clock \in Nat
    BY DEF ReaderLines
  <1>2. Decimal(r.value) \in Nat
    <2>1. r.value \div 16 \in Nat /\ r.value % 16 \in Nat
      BY <1>1
    <2> QED BY <2>1 DEF Decimal
  <1> QED BY <1>1, <1>2 DEF Value

\* Where the first line answers the last request, nothing is to be served.
LEMMA OwnReplyLast ==
    ASSUME Inv, lines # <<>>, Head(lines).to = asked
    PROVE  inbox = <<>>
  <1>1. lines \in Seq(ReaderLines) /\ inbox \in Seq(Requests)
    BY DEF Inv, TypeOK
  <1>2. Head(lines) = lines[1] /\ 1 \in DOMAIN lines
    BY <1>1, HeadTail
  <1>3. \A i \in DOMAIN inbox :
           inbox[i].n \in Int /\ asked < inbox[i].n /\ inbox[i].n <= asked
    BY <1>2, QueuedFields DEF Inv, Numbered
  <1>4. asked \in Int
    BY DEF Inv, TypeOK
  <1> QED BY <1>1, <1>3, <1>4, NothingQueued

LEMMA SmallDecimal ==
    ASSUME NEW n \in 0..9
    PROVE  Decimal(n) = n
  <1>1. n \div 16 = 0 /\ n % 16 = n
    OBVIOUS
  <1> QED BY <1>1 DEF Decimal

\* A line that answers the call, and is taken for an answer, tells what the
\* reader holds; only GetSingleAntenna takes an error word.
LEMMA AnswerTaken ==
    ASSUME Inv, call.of \in AllSettings, NEW r \in ReaderLines,
           Answers(call, setting, r), Accepts(call.op, call.of, r)
    PROVE  \/ /\ Value(call.of, r) = setting[call.of]
              /\ call.of = "antenna" => r.value = setting["antenna"]
           \/ /\ call.of = "antenna" /\ call.op = "get"
              /\ r.error # "" /\ Value(call.of, r) = 0
  <1>1. call.op \in {"get", "set"}
    BY DEF Inv, TypeOK
  <1>2. ~(r.type = "restart" /\ r.clock = 0)
    BY DEF Accepts, HasAntenna, HasWord, HasDate, AllSettings, Worded
  <1>3. CASE call.of \in Worded \union {"time"} /\ r.type = call.of
             /\ r.error = ErrorWord(call.op) /\ r.clock = 0
    <2>1. call.of = "antenna" /\ call.op = "get"
      BY <1>1, <1>3 DEF Accepts, HasAntenna, HasWord, HasDate, ErrorWord, Worded
    <2>2. r.error # "" /\ Value(call.of, r) = 0
      BY <1>3, <2>1 DEF ErrorWord, Value
    <2> QED BY <2>1, <2>2
  <1>4. CASE r = Reply(call.of, setting, r.to)
    <2>1. r.to \in Nat /\ setting \in [AllSettings -> Nat]
      BY LineFields DEF Inv, TypeOK
    <2>2. call.of # "time" => r.value = setting[call.of]
      BY <1>4, <2>1, ReplyValue
    <2>3. call.of = "time" => r.clock = setting["time"]
      BY <1>4, <2>1, ReplyClock
    <2>4. r.error = ""
      BY <1>4, <2>1, ReplyError
    <2>5. Value(call.of, r) = setting[call.of]
      <3>1. CASE call.of = "regulation"
        <4>1. r.value = setting["regulation"]
          BY <2>2, <3>1
        <4>2. setting["regulation"] \in 0..9
          <5>1. setting["regulation"] \in 1..9
            BY DEF Inv, Remembered
          <5> QED BY <5>1
        <4> QED BY <3>1, <4>1, <4>2, SmallDecimal DEF Value
      <3>2. CASE call.of = "time"
        BY <2>3, <3>2 DEF Value
      <3>3. CASE call.of \in {"power"} \union Worded
        BY <2>2, <2>4, <3>3 DEF Value, Worded
      <3> QED BY <3>1, <3>2, <3>3 DEF AllSettings, Worded
    <2> QED BY <2>2, <2>5
  <1> QED BY <1>2, <1>3, <1>4 DEF Answers

\* What the code of a result tells, when the line answers the call.
LEMMA ResultCodes ==
    ASSUME NEW r
    PROVE  /\ Result(call, r).code = "OK" =>
                 /\ Accepts(call.op, call.of, r)
                 /\ Result(call, r).value = Value(call.of, r)
                 /\ call.op = "set" => Confirms(call, r)
           /\ Result(call, r).code = Mismatch(call.of) =>
                 /\ Accepts(call.op, call.of, r) /\ ~Confirms(call, r)
  BY DEF Result, Failure, Mismatch

LEMMA ResultTrue ==
    ASSUME Inv, call.of \in AllSettings, NEW r \in ReaderLines,
           Answers(call, setting, r),
           call.op = "set" /\ call.of = "regulation" => call.arg \in 1..9
    PROVE  /\ call.op = "get" /\ Result(call, r).code = "OK" =>
                 \/ Result(call, r).value = setting[call.of]
                 \/ call.of = "antenna" /\ r.error # "" /\ Result(call, r).value = 0
           /\ call.op = "set" /\ Result(call, r).code = "OK" =>
                 \/ setting[call.of] = call.arg
                 \/ NotLookedAt(call) /\ r.value = setting["antenna"]
           /\ call.op = "set" /\ Result(call, r).code = Mismatch(call.of)
              /\ call.of \notin {"antenna", "regulation"} =>
                 setting[call.of] # call.arg
  <1>1. ASSUME call.op = "get", Result(call, r).code = "OK"
        PROVE  \/ Result(call, r).value = setting[call.of]
               \/ call.of = "antenna" /\ r.error # "" /\ Result(call, r).value = 0
    BY <1>1, ResultCodes, AnswerTaken
  <1>2. ASSUME call.op = "set", Result(call, r).code = "OK"
        PROVE  \/ setting[call.of] = call.arg
               \/ NotLookedAt(call) /\ r.value = setting["antenna"]
    <2>1. /\ Accepts(call.op, call.of, r) /\ Confirms(call, r)
      BY <1>2, ResultCodes
    <2>2. /\ Value(call.of, r) = setting[call.of]
          /\ call.of = "antenna" => r.value = setting["antenna"]
      BY <1>2, <2>1, AnswerTaken
    <2>3. call.of # "regulation"
      BY <1>2, <2>1 DEF Confirms
    <2> QED BY <2>1, <2>2, <2>3 DEF Confirms, NotLookedAt
  <1>3. ASSUME call.op = "set", Result(call, r).code = Mismatch(call.of),
               call.of \notin {"antenna", "regulation"}
        PROVE  setting[call.of] # call.arg
    <2>1. Accepts(call.op, call.of, r) /\ ~Confirms(call, r)
      BY <1>3, ResultCodes
    <2>2. Value(call.of, r) = setting[call.of]
      BY <1>3, <2>1, AnswerTaken
    <2> QED BY <1>3, <2>1, <2>2 DEF Confirms
  <1> QED BY <1>1, <1>2, <1>3

\* The worded calls take only lines of their own keyword.
LEMMA ResultRemembered ==
    ASSUME Inv, NEW k \in DOMAIN lines, Result(call, lines[k]).code = "OK",
           call.of \in Worded
    PROVE  Result(call, lines[k]).value \in held[call.of] \union {0}
  <1> DEFINE r == lines[k]
  <1>1. Accepts(call.op, call.of, r) /\ Result(call, r).value = Value(call.of, r)
    BY DEF Result, Failure, Mismatch
  <1>2. r.type = call.of
    BY <1>1 DEF Accepts, HasAntenna, HasWord, Worded
  <1>3. Value(call.of, r) = IF r.error = "" THEN r.value ELSE 0
    BY DEF Value, Worded
  <1>4. r.error = "" => r.value \in held[call.of]
    BY <1>2 DEF Inv, Remembered
  <1> QED BY <1>1, <1>3, <1>4

LEMMA HearReplyKeeps ==
    ASSUME Inv, HearReply
    PROVE  TypeOK' /\ Calling' /\ Settled' /\ KeywordKept' /\ ThrowHasCause'
  <1> DEFINE r == Head(lines)
  <1>1. /\ pc = "waiting" /\ pc' = "idle" /\ last' = r
        /\ outcome' = Result(call, r) /\ lines # <<>>
        /\ UNCHANGED <<model, setting, held, inbox, call, asked>>
    BY DEF HearReply, readerVars
  <1>2. r \in ReaderLines /\ r = lines[1] /\ 1 \in DOMAIN lines
    BY <1>1, HeadTail DEF Inv, TypeOK
  <1>3. /\ call.of \in AllSettings
        /\ call.op = "set" /\ call.of = "regulation" => call.arg \in 1..9
    BY <1>1 DEF Inv, Calling
  <1>4. TypeOK'
    <2>1. outcome' \in [code : Codes, value : Nat]
      BY <1>1, <1>2, ValueTyped DEF Result, Failure, Mismatch, Codes
    <2> QED BY <1>1, <2>1, HearsQueues DEF Inv, TypeOK, Hears
  <1>5. Calling'
    BY <1>1 DEF Inv, Calling
  <1>6. ASSUME r.to = asked
        PROVE  Answers(call, setting, r) /\ inbox = <<>>
    BY <1>1, <1>2, <1>6, OwnReplyLast DEF Inv, OwnLines
  <1> HIDE DEF r
  <1>7. Settled'
    BY <1>1, <1>2, <1>3, <1>6, ResultTrue
    DEF Settled, GetTruthful, SetTruthful, Succeeded, OwnReply, NotLookedAt
  <1>8. KeywordKept'
    BY <1>1, <1>2, ResultRemembered DEF KeywordKept, Succeeded
  <1>9. ThrowHasCause'
    BY <1>1 DEF ThrowHasCause, Result, Failure, Mismatch
  <1> QED BY <1>4, <1>5, <1>7, <1>8, <1>9

LEMMA HearVersionKeeps ==
    ASSUME Inv, HearVersion
    PROVE  TypeOK' /\ Calling' /\ Settled' /\ KeywordKept' /\ ThrowHasCause'
  <1>1. /\ pc = "version" /\ lines # <<>> /\ last' = Head(lines)
        /\ \/ /\ Fields(Head(lines)) < FieldsWanted
              /\ pc' = "idle" /\ outcome' = Failure("threw")
           \/ pc' = "between" /\ outcome' = outcome
        /\ UNCHANGED <<model, setting, held, inbox, call, asked>>
    BY DEF HearVersion, readerVars
  <1>2. Head(lines) = lines[1] /\ 1 \in DOMAIN lines
    BY <1>1, HeadTail DEF Inv, TypeOK
  <1>3. TypeOK'
    <2>1. outcome' \in [code : Codes, value : Nat]
      BY <1>1 DEF Inv, TypeOK, Failure, Codes
    <2>2. pc' \in {"idle", "between"}
      BY <1>1
    <2> QED BY <1>1, <2>1, <2>2, HearsQueues DEF Inv, TypeOK, Hears
  <1>4. Calling'
    BY <1>1 DEF Inv, Calling
  <1>5. outcome'.code \in {"threw", "none"}
    BY <1>1 DEF Inv, Calling, Failure
  <1>6. ThrowHasCause'
    <2>1. CASE pc' = "between"
      BY <1>1, <2>1 DEF Inv, Calling, ThrowHasCause, Failure
    <2>2. CASE Fields(Head(lines)) < FieldsWanted
      <3>1. Head(lines).type # "version"
        BY <2>2 DEF Fields, FieldsWanted
      <3>2. Head(lines).to = asked => Head(lines).type = "restart"
        BY <1>1, <1>2, <3>1 DEF Inv, OwnLines
      <3> QED BY <1>1, <3>2 DEF ThrowHasCause, OwnReply
    <2> QED BY <1>1, <2>1, <2>2
  <1>7. pc' = "idle" /\ OwnReply' => inbox' = <<>>
    BY <1>1, OwnReplyLast DEF OwnReply
  <1> QED BY <1>3, <1>4, <1>5, <1>6, <1>7
          DEF Settled, GetTruthful, SetTruthful, KeywordKept, Succeeded, Mismatch

\* The watch dog's end, and a line nobody hears.
LEMMA HearNothingKeeps ==
    ASSUME Inv, HearNothing \/ Unheard
    PROVE  TypeOK' /\ Calling' /\ Settled' /\ KeywordKept' /\ ThrowHasCause'
  <1>1. CASE HearNothing
    <2>1. /\ pc' = "idle" /\ outcome' = Failure("NO_RESPONSE")
          /\ UNCHANGED <<model, setting, held, inbox, call, asked>>
      BY <1>1 DEF HearNothing, readerVars
    <2>2. outcome' \in [code : Codes, value : Nat] /\ outcome'.code = "NO_RESPONSE"
      BY <2>1 DEF Failure, Codes
    <2>3. TypeOK'
      BY <1>1, <2>1, <2>2, HearsQueues DEF Inv, TypeOK, Hears
    <2>4. ~OwnReply'
      <3>1. asked \in Nat /\ asked > 0
        BY <1>1, Constants DEF HearNothing, Inv, Calling, TypeOK
      <3>2. last'.to = 0 /\ asked' = asked
        BY <1>1 DEF HearNothing, Nothing, Line
      <3> QED BY <3>1, <3>2 DEF OwnReply
    <2> QED BY <2>1, <2>2, <2>3, <2>4
            DEF Inv, Calling, Settled, GetTruthful, SetTruthful, KeywordKept,
                ThrowHasCause, Succeeded
  <1>2. CASE Unheard
    <2>1. UNCHANGED <<model, setting, held, inbox, call, asked, pc, last, outcome>>
      BY <1>2 DEF Unheard, readerVars
    <2>2. TypeOK'
      BY <1>2, <2>1, HearsQueues DEF Inv, TypeOK, Hears
    <2> QED BY <2>1, <2>2
            DEF Inv, Calling, Settled, GetTruthful, SetTruthful, KeywordKept,
                ThrowHasCause, Succeeded, OwnReply, NotLookedAt
  <1> QED BY <1>1, <1>2

LEMMA HearsKeeps ==
    ASSUME Inv, Hears
    PROVE  Inv'
  <1>1. /\ UNCHANGED <<model, setting, held, inbox, call, asked>>
        /\ \A k \in DOMAIN lines' : \E j \in DOMAIN lines : lines'[k] = lines[j]
    BY HearsQueues
  <1>2. pc' = pc \/ pc' \in {"idle", "between"}
    BY DEF Hears, HearVersion, HearReply, HearNothing, Unheard
  <1>3. Sendable' /\ Numbered'
    BY <1>1 DEF Inv, Sendable, Numbered
  <1>4. OwnRequest'
    BY <1>1, <1>2 DEF Inv, OwnRequest
  <1>5. OwnLines'
    BY <1>1, <1>2 DEF Inv, OwnLines
  <1>6. Remembered'
    BY <1>1 DEF Inv, Remembered
  <1>7. TypeOK' /\ Calling' /\ Settled' /\ KeywordKept' /\ ThrowHasCause'
    BY HearReplyKeeps, HearVersionKeeps, HearNothingKeeps DEF Hears
  <1> QED BY <1>3, <1>4, <1>5, <1>6, <1>7 DEF Inv

-----------------------------------------------------------------------------
(* The reader serves a request *)

LEMMA ServesKeeps ==
    ASSUME Inv, Serves
    PROVE  Inv'
  <1> DEFINE q == Head(inbox)
  <1>0. PICK s \in {setting, Sets(q)} :
           \E reply :
              /\ Serve(s, reply)
              /\ \/ reply = <<>>
                 \/ \E r \in ReaderLines : /\ reply = <<r>> /\ r.to = q.n
                                           /\ Says(q, s, r)
    BY DEF Serves
  <1>1. PICK reply :
           /\ Serve(s, reply)
           /\ \/ reply = <<>>
              \/ \E r \in ReaderLines : /\ reply = <<r>> /\ r.to = q.n
                                        /\ Says(q, s, r)
    BY <1>0
  <1>2. /\ inbox # <<>> /\ inbox' = Tail(inbox) /\ setting' = s
        /\ held' = [x \in AllSettings |-> held[x] \union {s[x]}]
        /\ lines' = lines \o reply
        /\ UNCHANGED <<model, pc, call, asked, last, outcome>>
    BY <1>1 DEF Serve
  <1>3. inbox \in Seq(Requests) /\ lines \in Seq(ReaderLines) /\ asked \in Nat
    BY Constants DEF Inv, TypeOK
  <1>4. /\ q = inbox[1] /\ 1 \in DOMAIN inbox /\ q \in Requests
        /\ inbox' \in Seq(Requests)
        /\ \A i \in DOMAIN inbox' : i \in Nat /\ i + 1 \in DOMAIN inbox
                                    /\ inbox'[i] = inbox[i + 1]
    BY <1>2, <1>3, HeadTail
  <1>5. s \in [AllSettings -> Nat] /\ s["regulation"] \in 1..9
    BY <1>1, <1>2, SetsTyped DEF Inv
  <1>6. /\ lines' \in Seq(ReaderLines)
        /\ \A k \in DOMAIN lines' :
              \/ \E j \in DOMAIN lines : lines'[k] = lines[j]
              \/ lines'[k].to = q.n /\ Says(q, s, lines'[k])
    <2>1. CASE reply = <<>>
      <3>1. lines' = lines
        BY <1>2, <1>3, <2>1
      <3> QED BY <1>3, <3>1
    <2>2. ASSUME NEW r \in ReaderLines, reply = <<r>>, r.to = q.n, Says(q, s, r)
          PROVE  <1>6!1 /\ <1>6!2
      <3>1. lines' = Append(lines, r) /\ lines' \in Seq(ReaderLines)
        BY <1>2, <1>3, <2>2, Appended
      <3>2. \A k \in DOMAIN lines' :
               \/ k \in DOMAIN lines /\ lines'[k] = lines[k]
               \/ lines'[k] = r
        BY <1>3, <3>1, Appended
      <3> QED BY <2>2, <3>1, <3>2
    <2> QED BY <1>1, <2>1, <2>2
  <1> HIDE DEF q
  <1>7. q.n \in Int /\ q.n <= asked
        /\ \A j \in DOMAIN lines : lines[j].to < q.n /\ lines[j].to \in Int
    BY <1>4, QueuedFields DEF Inv, Numbered
  <1>8. \A i \in DOMAIN inbox' :
           inbox'[i].n \in Int /\ q.n < inbox'[i].n /\ inbox'[i].n <= asked
    <2>1. \A i \in DOMAIN inbox' : i \in Nat /\ i + 1 \in DOMAIN inbox /\ 1 < i + 1
      <3>1. \A i \in DOMAIN inbox' : i >= 1
        BY <1>4
      <3> QED BY <1>4, <3>1
    <2> QED BY <1>4, <2>1, QueuedFields DEF Inv, Numbered
  <1>9. TypeOK'
    BY <1>2, <1>4, <1>5, <1>6 DEF Inv, TypeOK
  <1>10. Sendable'
    BY <1>4 DEF Inv, Sendable
  <1>11. Numbered'
    <2>1. \A i, j \in DOMAIN inbox' : i < j => inbox'[i].n < inbox'[j].n
      BY <1>4 DEF Inv, Numbered
    <2>2. \A k \in DOMAIN lines' :
             lines'[k].to \in Int /\ lines'[k].to <= q.n
      BY <1>6, <1>7
    <2>3. asked \in Int
      BY <1>3
    <2>4. \A k \in DOMAIN lines' :
             /\ lines'[k].to <= asked
             /\ \A i \in DOMAIN inbox' : lines'[k].to < inbox'[i].n
      BY <1>7, <1>8, <2>2, <2>3
    <2> QED BY <1>2, <1>8, <2>1, <2>4 DEF Numbered
  <1>12. OwnRequest'
    BY <1>2, <1>4 DEF Inv, OwnRequest
  <1>13. OwnLines'
    <2> SUFFICES ASSUME NEW k \in DOMAIN lines', lines'[k].to = asked
                 PROVE  /\ pc = "version" => lines'[k].type \in {"version", "restart"}
                        /\ pc = "waiting" => Answers(call, s, lines'[k])
      BY <1>2 DEF OwnLines
    <2>1. q.n = asked /\ Says(q, s, lines'[k])
      BY <1>3, <1>6, <1>7
    <2>2. /\ pc = "version" => q.of = "version"
          /\ pc = "waiting" => q.op = call.op /\ q.of = call.of /\ q.arg = call.arg
      BY <1>4, <2>1 DEF Inv, OwnRequest
    <2>3. pc = "waiting" => call.of # "version"
      BY Constants DEF Inv, Calling
    <2> QED BY <2>1, <2>2, <2>3 DEF Says, Answers
  <1>14. Calling'
    BY <1>2 DEF Inv, Calling
  <1>15. \A x \in AllSettings : held[x] \subseteq held'[x] /\ s[x] \in held'[x]
    BY <1>2
  <1>16. \A k \in DOMAIN lines' : lines'[k].to \in Nat
    <2>1. \A k \in DOMAIN lines' : lines'[k] \in ReaderLines
      BY <1>6
    <2> QED BY <2>1, LineFields
  <1>17. Remembered'
    <2> SUFFICES ASSUME NEW k \in DOMAIN lines', lines'[k].type \in Worded,
                        lines'[k].error = ""
                 PROVE  lines'[k].value \in held'[lines'[k].type]
      BY <1>2, <1>5, <1>15 DEF Remembered
    <2>1. ASSUME NEW j \in DOMAIN lines, lines'[k] = lines[j]
          PROVE  lines'[k].value \in held'[lines'[k].type]
      BY <1>15, <2>1, Constants DEF Inv, Remembered
    <2>2. ASSUME Says(q, s, lines'[k])
          PROVE  lines'[k].value \in held'[lines'[k].type]
      <3>1. q.of # "version" /\ Answers(q, s, lines'[k])
        BY <2>2 DEF Says, Worded
      <3>2. lines'[k] = Reply(q.of, s, lines'[k].to)
        BY <3>1 DEF Answers, Worded, ErrorWord
      <3>3. q.of \in AllSettings
        BY <1>4, <3>1 DEF Requests
      <3>4. lines'[k].type = q.of
        BY <1>5, <1>16, <3>2, <3>3, ReplyType
      <3>5. "time" \notin Worded
        BY DEF Worded
      <3>6. q.of # "time" => lines'[k].value = s[q.of]
        BY <1>5, <1>16, <3>2, <3>3, ReplyValue
      <3> QED BY <1>15, <3>3, <3>4, <3>5, <3>6
    <2> QED BY <1>6, <2>1, <2>2
  <1>18. Settled'
    BY <1>2 DEF Inv, Settled, GetTruthful, SetTruthful, Succeeded, OwnReply,
                NotLookedAt
  <1>19. KeywordKept'
    BY <1>2, <1>15, Constants DEF Inv, KeywordKept, Succeeded
  <1>20. ThrowHasCause'
    BY <1>2 DEF Inv, ThrowHasCause, OwnReply
  <1> QED BY <1>9, <1>10, <1>11, <1>12, <1>13, <1>14, <1>17, <1>18, <1>19,
             <1>20 DEF Inv

-----------------------------------------------------------------------------
(* The theorems *)

LEMMA InvInit == Init => Inv
  <1> SUFFICES ASSUME Init
               PROVE  Inv
    OBVIOUS
  <1>1. /\ inbox = <<>> /\ lines = <<>> /\ DOMAIN inbox = {} /\ DOMAIN lines = {}
        /\ inbox \in Seq(Requests) /\ lines \in Seq(ReaderLines)
        /\ pc = "idle" /\ asked = 0 /\ setting = Factory
    BY DEF Init
  <1>2. outcome = Failure("none") /\ outcome.code = "none"
        /\ outcome \in [code : Codes, value : Nat]
    BY DEF Init, Failure, Codes
  <1>3. Factory \in [AllSettings -> Nat]
    BY Constants
  <1>4. TypeOK
    BY <1>1, <1>2, <1>3, Constants DEF Init, TypeOK
  <1>5. Remembered
    BY <1>1, Constants DEF Init, Remembered
  <1>6. call.op = "get" /\ call.of = "none"
    BY DEF Init
  <1> QED BY <1>1, <1>2, <1>4, <1>5, <1>6
          DEF Inv, Sendable, Numbered, OwnRequest, OwnLines, Calling, Settled,
              GetTruthful, SetTruthful, KeywordKept, ThrowHasCause, Succeeded

LEMMA InvHolds == Spec => []Inv
  <1>1. Inv /\ [Next]_vars => Inv'
    <2> SUFFICES ASSUME Inv, [Next]_vars
                 PROVE  Inv'
      OBVIOUS
    <2>1. CASE Next
      BY <2>1, StepKinds, AskingKeeps, HearsKeeps, ServesKeeps DEF Inv
    <2>2. CASE UNCHANGED vars
      BY <2>2 DEF vars, Inv, TypeOK, Sendable, Numbered, OwnRequest, OwnLines,
                  Calling, Remembered, Settled, GetTruthful, SetTruthful,
                  NotLookedAt, KeywordKept, ThrowHasCause, Succeeded, OwnReply
    <2> QED BY <2>1, <2>2
  <1> QED BY InvInit, <1>1, PTL DEF Spec

\* Every variable keeps its type, and no call sends more requests than it may.
THEOREM TypeCorrect == Spec => []TypeOK
  <1>1. Inv => TypeOK
    BY DEF Inv
  <1> QED BY InvHolds, <1>1, PTL

\* A getter that returns RFID_OK on its own reply has the reader's value, but
\* for GetSingleAntenna's 0 on an error.
THEOREM GetTruthfulHolds == Spec => []GetTruthful
  <1>1. Inv => GetTruthful
    BY DEF Inv, Settled
  <1> QED BY InvHolds, <1>1, PTL

\* A setter tells on its own reply whether the reader holds the value, but
\* for SetSingleAntenna, which does not look, and SetRegulation, which never
\* succeeds.
THEOREM SetTruthfulHolds == Spec => []SetTruthful
  <1>1. Inv => SetTruthful
    BY DEF Inv, Settled
  <1> QED BY InvHolds, <1>1, PTL

\* The calls that look for a keyword never report another setting's value,
\* whichever late line they are given.
THEOREM KeywordKeptHolds == Spec => []KeywordKept
  <1>1. Inv => KeywordKept
    BY DEF Inv
  <1> QED BY InvHolds, <1>1, PTL

\* SetPower throws only over a line that is not the reader's version, or when
\* the reader asks to be restarted.
THEOREM ThrowHasCauseHolds == Spec => []ThrowHasCause
  <1>1. Inv => ThrowHasCause
    BY DEF Inv
  <1> QED BY InvHolds, <1>1, PTL
=============================================================================
