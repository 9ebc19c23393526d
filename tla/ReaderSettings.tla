---------------------------- MODULE ReaderSettings ----------------------------
(***************************************************************************)
(* The calls that read and change a setting of the reader.  Each sends one *)
(* request (SetPower two), takes the line that Send returns for the reply, *)
(* and makes of it a value and a result code.  Send is used the way        *)
(* CommandContract describes it: it returns the first line received while  *)
(* its request is open, or nothing when the watch dog fires; a line that   *)
(* comes while no request is open is heard by nobody.  The reader is       *)
(* external: it serves requests in order and may refuse or be silent.      *)
(***************************************************************************)
EXTENDS Integers, Sequences

CONSTANTS
    Models,        \* the first two letters of the firmware of the reader
    Settings,      \* the settings in use, some of AllSettings
    Asked,         \* Asked[s]: values a caller asks for
    Factory,       \* Factory[s]: the value of every setting at the start
    MaxRequests    \* bound: no call begins after that many requests

AllSettings ==
    {"power", "regulation", "antenna", "loopAntenna", "loopTime", "time"}

\* The settings whose reply begins with a keyword of their own.
Worded == {"antenna", "loopAntenna", "loopTime"}

\* Regulations have one digit, and 0 is REGULATION_UNKNOWN.  Powers are not
\* negative here: what "%02X" makes of a negative one depends on the width of
\* long when it is read back.
ASSUME SettingsAssumption ==
    /\ Settings \subseteq AllSettings
    /\ \A s \in AllSettings : Asked[s] \subseteq Nat
    /\ Factory \in [AllSettings -> Nat]
    /\ Asked["regulation"] \union {Factory["regulation"]} \subseteq 1..9
    /\ 0 \notin Asked["time"] \union {Factory["time"]}
ASSUME RequestsAssumption == MaxRequests \in Nat

PowerRangeTable ==
    [m \in {"C2", "D2", "D3", "D4"} |->
        CASE m = "C2" -> <<-2, 18>> [] m = "D2" -> <<-2, 25>>
          [] m = "D3" -> <<0, 27>>  [] m = "D4" -> <<2, 29>>]

DEFAULT_SET_POWER_VALUE == 10

VARIABLES
    model,        \* the reader's model
    setting,      \* the reader's settings
    inbox,        \* requests the reader has not served
    lines,        \* lines on their way to the engine
    pc,           \* "idle", in a Send ("version", "waiting"), or "between"
    call,         \* the call in progress, or made last
    asked,        \* requests sent so far; the number of the last one
    last,         \* what Send returned last
    outcome,      \* result code and value of the last call
    held          \* history: the values each setting had

vars == <<model, setting, inbox, lines, pc, call, asked, last, outcome, held>>

Line(type, value, error, clock, to) ==
    [type |-> type, value |-> value, error |-> error, clock |-> clock,
     to |-> to]

\* The string that Send fills stays empty.
Nothing == Line("none", 0, "", 0, 0)

-----------------------------------------------------------------------------
(* The parsers.  A line has the type its text shows, the number or the     *)
(* error word in it, and the reader's clock if it is stamped (else 0).     *)
(* Which request it answers (to) the engine does not see.                  *)

\* ParseVersion takes the first four fields between commas by position.
Fields(r) == IF r.type = "version" THEN 4 ELSE 1
FieldsWantedSlip == 5
FieldsWanted == 4

\* strtol in base 10 of a number that was written as two hex digits.
Decimal(n) ==
    CASE n \div 16 > 9 -> 0
      [] n \div 16 <= 9 /\ n % 16 > 9 -> n \div 16
      [] OTHER -> 10 * (n \div 16) + (n % 16)

\* A keyword and anything but the error word of the operation: a setter does
\* not know the error of a getter, nor a getter that of a setter.
HasWord(op, s, r) ==
    r.type = s /\ r.error # (IF op = "set" THEN "SetError" ELSE "GetError")

\* The same for an antenna, but its getter knows no error word.
HasAntenna(op, r) == r.type = "antenna" /\ (op = "set" => r.error # "SetError")

\* Two fields with a blank between: the line of a time, and every line that
\* is stamped.
HasDate(r) == r.clock # 0

\* Does the parser of the operation on a setting take the line.
AcceptsSlip(op, s, r) == r.type # "restart"
Accepts(op, s, r) ==
    CASE s \in {"power", "regulation"} -> r.type = "N"
      [] s = "time" -> HasDate(r)
      [] s = "antenna" -> HasAntenna(op, r)
      [] s \in {"loopAntenna", "loopTime"} -> HasWord(op, s, r)

\* The number it reads; strtol of an error word is 0.
Value(s, r) ==
    CASE s = "time" -> r.clock
      [] s = "regulation" -> Decimal(r.value)
      [] OTHER -> IF r.error = "" THEN r.value ELSE 0

\* The power is kept below the upper bound; what std::max made of the lower
\* one is overwritten.  A model that is not in the table gets the default.
RegulatePowerSlip(n) ==
    IF model \in DOMAIN PowerRangeTable /\ PowerRangeTable[model][1] < n
    THEN PowerRangeTable[model][1] ELSE n
RegulatePower(n) ==
    IF model \notin DOMAIN PowerRangeTable THEN DEFAULT_SET_POWER_VALUE
    ELSE LET highest == PowerRangeTable[model][2]
         IN IF n < highest THEN n ELSE highest

\* Does a setter whose parser took the line report success.
\* ParseSetRegulation does not hand out what it read, so SetRegulation
\* compares with 0; SetSingleAntenna compares with what its caller had in
\* *pnResult.
ConfirmsSlip(c, r) == TRUE
Confirms(c, r) ==
    CASE c.of = "regulation" -> c.arg = 0
      [] c.of = "antenna" -> c.arg = c.prior
      [] OTHER -> c.arg = Value(c.of, r)

Mismatch(s) ==
    CASE s = "power" -> "NO_RESPONSE"
      [] s = "regulation" -> "REGULATION"
      [] OTHER -> "ECHO_RESULT"

Failure(code) == [code |-> code, value |-> 0]

Result(c, r) ==
    IF ~Accepts(c.op, c.of, r) THEN Failure("PARSE")
    ELSE IF c.op = "set" /\ ~Confirms(c, r) THEN Failure(Mismatch(c.of))
    ELSE [code |-> "OK", value |-> Value(c.of, r)]

-----------------------------------------------------------------------------
Init ==
    /\ model \in Models /\ setting = Factory
    /\ inbox = <<>> /\ lines = <<>>
    /\ pc = "idle" /\ asked = 0
    /\ call = [op |-> "get", of |-> "none", arg |-> 0, prior |-> 0]
    /\ last = Nothing /\ outcome = Failure("none")
    /\ held = [s \in AllSettings |-> {Factory[s]}]

readerVars == <<model, setting, held>>

Request(op, s, arg) ==
    /\ asked' = asked + 1
    /\ inbox' = Append(inbox, [op |-> op, of |-> s, arg |-> arg,
                               n |-> asked + 1])

Begin(op, s, arg, prior) ==
    /\ pc = "idle" /\ outcome.code # "threw" /\ asked < MaxRequests
    /\ call' = [op |-> op, of |-> s, arg |-> arg, prior |-> prior]
    /\ outcome' = Failure("none")
    /\ UNCHANGED <<readerVars, lines, last>>

Get(s) ==
    /\ Begin("get", s, 0, 0)
    /\ Request("get", s, 0)
    /\ pc' = "waiting"

Set(s, arg, prior) ==
    /\ s # "power"
    /\ Begin("set", s, arg, prior)
    /\ Request("set", s, arg)
    /\ pc' = "waiting"

\* SetPower asks for the version first.
SetPower(arg) ==
    /\ Begin("set", "power", arg, 0)
    /\ Request("get", "version", 0)
    /\ pc' = "version"

\* The line for the version: a missing field is an at() that throws, and
\* nothing in the engine catches it.
HearVersion ==
    /\ pc = "version" /\ lines # <<>>
    /\ last' = Head(lines) /\ lines' = Tail(lines)
    /\ IF Fields(Head(lines)) < FieldsWanted
       THEN pc' = "idle" /\ outcome' = Failure("threw")
       ELSE pc' = "between" /\ UNCHANGED outcome
    /\ UNCHANGED <<readerVars, inbox, call, asked>>

SetPowerGoesOn ==
    /\ pc = "between"
    /\ LET power == RegulatePower(call.arg)
       IN  call' = [call EXCEPT !.arg = power] /\ Request("set", "power", power)
    /\ pc' = "waiting"
    /\ UNCHANGED <<readerVars, lines, last, outcome>>

HearReply ==
    /\ pc = "waiting" /\ lines # <<>>
    /\ last' = Head(lines) /\ lines' = Tail(lines)
    /\ outcome' = Result(call, Head(lines))
    /\ pc' = "idle"
    /\ UNCHANGED <<readerVars, inbox, call, asked>>

\* The watch dog ends the Send.
HearNothing ==
    /\ pc \in {"version", "waiting"}
    /\ last' = Nothing
    /\ outcome' = Failure("NO_RESPONSE")
    /\ pc' = "idle"
    /\ UNCHANGED <<readerVars, inbox, lines, call, asked>>

\* A line with no request open; also during the sleep after N1 and N5.
Unheard ==
    /\ pc \in {"idle", "between"} /\ lines # <<>>
    /\ lines' = Tail(lines)
    /\ UNCHANGED <<readerVars, inbox, pc, call, asked, last, outcome>>

-----------------------------------------------------------------------------
(* The reader (external).  Power, regulation and version are reported in   *)
(* stamped lines, and the time is a stamp.                                 *)

Reply(s, settings, n) ==
    CASE s \in {"power", "regulation"} ->
            Line("N", settings[s], "", settings["time"], n)
      [] s \in {"version", "time"} -> Line(s, 0, "", settings["time"], n)
      [] s \in Worded -> Line(s, settings[s], "", 0, n)

Serve(settings, reply) ==
    /\ inbox # <<>> /\ inbox' = Tail(inbox)
    /\ setting' = settings
    /\ held' = [s \in AllSettings |-> held[s] \union {settings[s]}]
    /\ lines' = lines \o reply
    /\ UNCHANGED <<model, pc, call, asked, last, outcome>>

Sets(q) == IF q.op = "set" THEN [setting EXCEPT ![q.of] = q.arg] ELSE setting

\* It does what is asked and says so, or the line is lost.
Obeys ==
    /\ inbox # <<>>
    /\ LET q == Head(inbox)
       IN  \/ Serve(Sets(q), <<Reply(q.of, Sets(q), q.n)>>)
           \/ Serve(Sets(q), <<>>)

\* It does not: it echoes the value as it was, which is not the one asked
\* for, or sends an error word where there is one.
Refuses ==
    /\ inbox # <<>> /\ Head(inbox).of # "version"
    /\ LET q == Head(inbox)
           error == IF q.op = "set" THEN "SetError" ELSE "GetError"
       IN  \/ Serve(setting, <<Reply(q.of, setting, q.n)>>)
           \/ /\ q.of \in Worded \union {"time"}
              /\ Serve(setting, <<Line(q.of, 0, error, 0, q.n)>>)

\* "@Please Restart System", or nothing at all.
Fails ==
    /\ inbox # <<>>
    /\ \/ Serve(setting, <<Line("restart", 0, "", 0, Head(inbox).n)>>)
       \/ Serve(setting, <<>>)

-----------------------------------------------------------------------------
Next ==
    \/ \E s \in Settings : Get(s)
    \/ \E s \in Settings : \E arg \in Asked[s] :
          \/ Set(s, arg, 0)
          \/ s = "antenna" /\ Set(s, arg, arg)
          \/ s = "power" /\ SetPower(arg)
    \/ HearVersion \/ SetPowerGoesOn \/ HearReply \/ HearNothing \/ Unheard
    \/ Obeys \/ Refuses \/ Fails

Spec == Init /\ [][Next]_vars

-----------------------------------------------------------------------------
(* Properties *)

Codes == {"none", "OK", "NO_RESPONSE", "PARSE", "REGULATION", "ECHO_RESULT",
          "threw"}
LineTypes == {"N", "version", "time", "restart"} \union Worded
Requests == [op : {"get", "set"}, of : AllSettings \union {"version"},
             arg : Nat, n : 1..(MaxRequests + 1)]
ReaderLines == [type : LineTypes, value : Nat, clock : Nat,
                error : {"", "SetError", "GetError"},
                to : 1..(MaxRequests + 1)]

\* Each variable holds values of its type.
TypeOK ==
    /\ model \in Models
    /\ setting \in [AllSettings -> Nat]
    /\ inbox \in Seq(Requests)
    /\ lines \in Seq(ReaderLines)
    /\ pc \in {"idle", "version", "between", "waiting"}
    /\ call \in [op : {"get", "set"}, of : AllSettings \union {"none"},
                 arg : Nat, prior : Nat]
    /\ asked \in 0..(MaxRequests + 1)
    /\ last \in ReaderLines \union {Nothing}
    /\ outcome \in [code : Codes, value : Nat]
    /\ \A s \in AllSettings : held[s] \subseteq Nat

Succeeded(op) == pc = "idle" /\ call.op = op /\ outcome.code = "OK"

\* The line that was taken for the reply is the reply.
OwnReply == last.to = asked

\* A getter that reports RFID_OK on its own reply reports what the reader
\* holds.  The one exception: GetSingleAntenna reads antenna 0 from an error.
GetTruthful ==
    Succeeded("get") /\ OwnReply =>
        \/ outcome.value = setting[call.of]
        \/ call.of = "antenna" /\ last.error # "" /\ outcome.value = 0

\* SetSingleAntenna compares what it was asked with what its caller had in
\* *pnResult, and not with the antenna it parsed.
NotLookedAt(c) == c.of = "antenna" /\ c.arg = c.prior

\* On its own reply, a setter tells what became of the value, for power the
\* regulated one: RFID_OK when the reader holds it, and the code for another
\* number in the reply when the reader does not.  The exceptions are
\* SetSingleAntenna, which reports success for another antenna though the
\* reply said which, and failure for its own; and SetRegulation, which never
\* reports success, so that its failures tell nothing.
SetTruthful ==
    pc = "idle" /\ call.op = "set" /\ OwnReply =>
        /\ outcome.code = "OK" =>
              \/ setting[call.of] = call.arg
              \/ NotLookedAt(call) /\ last.value = setting["antenna"]
        /\ outcome.code = Mismatch(call.of)
           /\ call.of \notin {"antenna", "regulation"} =>
              setting[call.of] # call.arg

\* Whatever late line is taken for the reply, the calls that look for a
\* keyword confuse no two settings: a value they report with RFID_OK is one
\* the reader held for that setting, or 0, read from an error word.
KeywordKept ==
    \A op \in {"get", "set"} :
        /\ Succeeded(op) /\ call.of \in Worded
        /\ call.of = "antenna" => op = "get"
        => outcome.value \in held[call.of] \union {0}

\* An exception escapes a call only over a line that does not answer its
\* request, or when the reader asks to be restarted.
ThrowHasCause ==
    outcome.code = "threw" => ~OwnReply \/ last.type = "restart"

=============================================================================
