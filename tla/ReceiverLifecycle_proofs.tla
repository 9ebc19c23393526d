----------------------- MODULE ReceiverLifecycle_proofs -----------------------
(***************************************************************************)
(* A handler never has two receivers, a start that returned true left a    *)
(* receiver on a connection, and the process ends only with a cause, for   *)
(* any number of interfaces and reboots.                                   *)
(*                                                                         *)
(* The inductive invariant speaks of each handler by itself (HandlerInv):  *)
(* what a receiver that has not reported implies of its starter, what a    *)
(* starter that still waits may count on, and that a thread that is not    *)
(* joinable is over.  GoneSafely is the one part that looks at the callers:*)
(* a handler is destroyed after a stop that joined.                        *)
(*                                                                         *)
(* Course says where the callers are when a handler is unused, started,    *)
(* being stopped or at rest, and that one that was started is connected as *)
(* long as nothing failed.  From it follow why the process can end, and    *)
(* what a Reboot that met no failure leaves.  Going says what a start and  *)
(* a stop that are in progress wait for.                                   *)
(***************************************************************************)
EXTENDS ReceiverLifecycle, TLAPS

Unreported == {"new", "connecting", "connected"}
Stops == {"shutdown", "closing", "joining"}

Unjoined(h) == ~joinable[h] => recv[h] \in {"none", "done"}

Reporting(h) == recv[h] \in Unreported => svc[h] = "spin" /\ ~thread_ready[h]

Waiting(h) ==
    svc[h] = "spin" /\ ec[h] = "ok" /\ recv[h] \notin {"new", "connecting"} =>
        /\ sock[h] \in {"up", "lost"}
        /\ recv[h] \in {"connected", "ready", "reading"} \/ sock[h] = "lost"

Truthful(h) ==
    started[h] /\ svc[h] = "idle" =>
        /\ sock[h] \in {"up", "lost"}
        /\ \/ recv[h] \in {"ready", "reading"}
           \/ sock[h] = "lost" \/ "stale ec" \in met

HandlerInv(h) == Unjoined(h) /\ Reporting(h) /\ Waiting(h) /\ Truthful(h)

Stopped(h) == svc[h] \in Stops \/ (svc[h] = "idle" /\ ~joinable[h])

GoneSafely ==
    Alive => /\ app = "destroying" => Stopped("main")
             /\ helper = "bootGone" => Stopped("boot")

Inv == TypeOK /\ (\A h \in Handlers : HandlerInv(h)) /\ GoneSafely

LEMMA InvInit == Init => Inv
  <1> SUFFICES ASSUME Init PROVE Inv
    OBVIOUS
  <1>1. TypeOK
    BY BoundAssumption
       DEF Init, TypeOK, Handlers, App, Helper, Svc, Recv, Sock, Mishaps, Faults
  <1>2. \A h \in Handlers : HandlerInv(h)
    BY DEF Init, HandlerInv, Unjoined, Reporting, Waiting, Truthful, Unreported
  <1>3. GoneSafely
    BY DEF Init, GoneSafely
  <1> QED BY <1>1, <1>2, <1>3 DEF Inv

-----------------------------------------------------------------------------
(* What the calls on a handler do to it, whoever makes them *)

LEMMA StartCallKeeps ==
    ASSUME Inv, NEW h \in Handlers, StartCall(h)
    PROVE  /\ \A k \in Handlers : HandlerInv(k)'
           /\ \A k \in Handlers : k # h => joinable'[k] = joinable[k]
                                           /\ svc'[k] = svc[k]
           /\ svc' \in [Handlers -> Svc]
           /\ started' \in [Handlers -> BOOLEAN]
           /\ joinable' \in [Handlers -> BOOLEAN]
           /\ thread_ready' \in [Handlers -> BOOLEAN]
           /\ ec' \in [Handlers -> {"ok", "error"}]
           /\ recv' \in [Handlers -> Recv]
           /\ sock' \in [Handlers -> Sock]
           /\ met' \in SUBSET Mishaps /\ fault' \in Faults
  <1>1. CASE /\ UNCHANGED <<svc, recv, joinable>>
             /\ started' = Put(started, h, FALSE) /\ met \subseteq met'
             /\ joinable[h] \/ recv[h] \in {"none", "done"}
    <2>1. svc[h] = "idle" /\ UNCHANGED sock
      BY DEF StartCall
    <2>2. /\ \/ thread_ready' = thread_ready
             \/ thread_ready' = Put(thread_ready, h, FALSE)
          /\ ec' = Put(ec, h, "ok")
      BY DEF StartCall
    <2>3. \A k \in Handlers : HandlerInv(k)'
      BY <1>1, <2>1, <2>2 DEF Put, Inv, TypeOK, HandlerInv, Unjoined, Reporting,
         Waiting, Truthful, Unreported
    <2>4. met' \in SUBSET Mishaps /\ UNCHANGED fault
      BY DEF StartCall, Note, Mishaps, Inv, TypeOK
    <2> QED BY <1>1, <2>1, <2>2, <2>3, <2>4 DEF Put, Inv, TypeOK
  <1>2. CASE /\ svc' = Put(svc, h, "spin")
             /\ recv' = Put(recv, h, "new")
             /\ joinable' = Put(joinable, h, TRUE)
             /\ started' = Put(started, h, FALSE)
             /\ thread_ready' = Put(thread_ready, h, FALSE)
             /\ UNCHANGED met
    <2>1. ec' = Put(ec, h, "ok") /\ UNCHANGED <<sock, fault>>
      BY DEF StartCall
    <2>2. \A k \in Handlers : HandlerInv(k)'
      BY <1>2, <2>1 DEF Put, Inv, TypeOK, HandlerInv, Unjoined, Reporting,
         Waiting, Truthful, Unreported
    <2> QED BY <1>2, <2>1, <2>2 DEF Put, Svc, Recv, Inv, TypeOK
  <1>3. joinable[h] \/ recv[h] \in {"none", "done"}
    BY DEF Inv, HandlerInv, Unjoined
  <1> QED BY <1>1, <1>2, <1>3 DEF StartCall, MayStart, Note

LEMMA StopCallKeeps ==
    ASSUME Inv, NEW h \in Handlers, StopCall(h)
    PROVE  /\ \A k \in Handlers : HandlerInv(k)'
           /\ \A k \in Handlers : k # h => svc'[k] = svc[k]
           /\ Alive' => svc'[h] \in Stops
           /\ svc' \in [Handlers -> Svc] /\ fault' \in Faults
           /\ UNCHANGED <<started, joinable, thread_ready, ec, recv, sock, met>>
  BY DEF StopCall, Put, Stops, Svc, Faults, Inv, TypeOK, HandlerInv, Unjoined,
         Reporting, Waiting, Truthful, Unreported, Alive

LEMMA GoneKeeps ==
    ASSUME Inv, NEW h \in Handlers, Gone(h), Alive, UNCHANGED met,
           svc[h] = "idle"
    PROVE  /\ \A k \in Handlers : HandlerInv(k)'
           /\ \A k \in Handlers : k # h => joinable'[k] = joinable[k]
           /\ started' \in [Handlers -> BOOLEAN]
           /\ joinable' \in [Handlers -> BOOLEAN]
           /\ thread_ready' \in [Handlers -> BOOLEAN]
           /\ ec' \in [Handlers -> {"ok", "error"}]
           /\ recv' \in [Handlers -> Recv]
           /\ sock' \in [Handlers -> Sock]
  BY DEF Gone, Put, Recv, Sock, Inv, TypeOK, HandlerInv, Unjoined, Reporting,
         Waiting, Truthful, Unreported

\* A step of the receiver, of the call in progress, or of the link.
HandlerStep(h) == ReceiverStep(h) \/ ServiceStep(h) \/ LinkLost(h)

LEMMA HandlerStepType ==
    ASSUME Inv, NEW h \in Handlers, HandlerStep(h)
    PROVE  TypeOK' /\ UNCHANGED callers /\ Alive
  <1> USE DEF Inv, TypeOK, Put, Note, callers, Receiver
  <1>1. CASE NewSocket(h)
    BY <1>1 DEF NewSocket, Recv, Sock, Faults
  <1>2. CASE Connect(h)
    BY <1>2 DEF Connect, Recv, Sock, Mishaps
  <1>3. CASE ReportReady(h)
    BY <1>3 DEF ReportReady, Recv
  <1>4. CASE TestError(h)
    BY <1>4 DEF TestError, Recv, Mishaps
  <1>5. CASE OpenSerial(h)
    BY <1>5 DEF OpenSerial, Recv, Sock, Mishaps, Faults
  <1>6. CASE ReadFails(h)
    BY <1>6 DEF ReadFails, Recv
  <1>7. CASE ReceiverEnds(h)
    BY <1>7 DEF ReceiverEnds, Recv
  <1>8. CASE StartReturns(h)
    BY <1>8 DEF StartReturns, Svc
  <1>9. CASE Shutdown(h)
    BY <1>9 DEF Shutdown, Svc, Sock
  <1>10. CASE CloseSocket(h)
    BY <1>10 DEF CloseSocket, Svc, Sock, Faults
  <1>11. CASE Join(h)
    BY <1>11 DEF Join, Svc
  <1>12. CASE LinkLost(h)
    BY <1>12 DEF LinkLost, Sock, Mishaps
  <1> QED BY <1>1, <1>2, <1>3, <1>4, <1>5, <1>6, <1>7, <1>8, <1>9, <1>10,
             <1>11, <1>12 DEF HandlerStep, ReceiverStep, ServiceStep

LEMMA HandlerStepKeeps ==
    ASSUME Inv, NEW h \in Handlers, HandlerStep(h)
    PROVE  \A k \in Handlers : HandlerInv(k)'
  <1> SUFFICES ASSUME NEW k \in Handlers PROVE HandlerInv(k)'
    OBVIOUS
  <1> USE DEF Inv, TypeOK, Put, Note, callers, Receiver, HandlerInv,
              Unjoined, Reporting, Waiting, Truthful, Unreported
  <1>1. CASE NewSocket(h)
    BY <1>1 DEF NewSocket
  <1>2. CASE Connect(h)
    BY <1>2 DEF Connect
  <1>3. CASE ReportReady(h)
    BY <1>3 DEF ReportReady
  <1>4. CASE TestError(h)
    BY <1>4 DEF TestError, FrameAlive
  <1>5. CASE OpenSerial(h)
    <2>1. CASE /\ sock' = Put(sock, h, "up")
               /\ recv' = Put(recv, h, "reading")
               /\ thread_ready' = Put(thread_ready, h, TRUE)
               /\ UNCHANGED <<ec, met>>
      BY <1>5, <2>1 DEF OpenSerial
    <2>2. CASE /\ sock' = Put(sock, h, "fresh")
               /\ recv' = Put(recv, h, "ending")
               /\ ec' = Put(ec, h, "error")
               /\ met' = met \union {"refused"}
               /\ UNCHANGED thread_ready
      BY <1>5, <2>2 DEF OpenSerial
    <2>3. CASE /\ met' = met \union {"options"}
               /\ UNCHANGED <<sock, recv, thread_ready, ec>>
      BY <1>5, <2>3 DEF OpenSerial
    <2> QED BY <1>5, <2>1, <2>2, <2>3 DEF OpenSerial
  <1>6. CASE ReadFails(h)
    BY <1>6 DEF ReadFails
  <1>7. CASE ReceiverEnds(h)
    BY <1>7 DEF ReceiverEnds
  <1>8. CASE StartReturns(h)
    BY <1>8 DEF StartReturns
  <1>9. CASE Shutdown(h)
    BY <1>9 DEF Shutdown
  <1>10. CASE CloseSocket(h)
    BY <1>10 DEF CloseSocket
  <1>11. CASE Join(h)
    BY <1>11 DEF Join, Joined
  <1>12. CASE LinkLost(h)
    BY <1>12 DEF LinkLost
  <1> QED BY <1>1, <1>2, <1>3, <1>4, <1>5, <1>6, <1>7, <1>8, <1>9, <1>10,
             <1>11, <1>12 DEF HandlerStep, ReceiverStep, ServiceStep

\* Where the owner or the helper waits to destroy a handler, no step of that
\* handler takes the stop back.
LEMMA HandlerStepStopped ==
    ASSUME Inv, NEW h \in Handlers, HandlerStep(h),
           NEW k \in Handlers, Stopped(k)
    PROVE  Stopped(k)'
  <1> USE DEF Inv, TypeOK, Put, Stopped, Stops, Receiver
  <1>1. CASE StartReturns(h)
    BY <1>1 DEF StartReturns
  <1>2. CASE Shutdown(h)
    BY <1>2 DEF Shutdown
  <1>3. CASE CloseSocket(h)
    BY <1>3 DEF CloseSocket
  <1>4. CASE Join(h)
    BY <1>4 DEF Join
  <1>5. CASE ReceiverStep(h) \/ LinkLost(h)
    BY <1>5 DEF ReceiverStep, NewSocket, Connect, ReportReady, TestError,
       OpenSerial, ReadFails, ReceiverEnds, LinkLost
  <1> QED BY <1>1, <1>2, <1>3, <1>4, <1>5 DEF HandlerStep, ServiceStep

-----------------------------------------------------------------------------
(* The steps of the owner, the helper and the client *)

\* Those that make no call on a handler.
Aside ==
    \/ Constructed \/ Reboot \/ RebootReturns \/ HelperGoesOn \/ BootSend
    \/ BootWait \/ BootAnswer \/ SecondSendThrows \/ SendBegins \/ SendEnds

LEMMA AsideKeeps ==
    ASSUME Inv, Aside
    PROVE  Inv' /\ UNCHANGED handlerVars
  <1>1. UNCHANGED handlerVars /\ met \subseteq met'
    BY DEF Aside, Constructed, Reboot, RebootReturns, HelperGoesOn, BootSend,
       BootWait, BootAnswer, SecondSendThrows, SendBegins, SendEnds, HelperStep,
       Note, Alive
  <1>2. \A h \in Handlers : HandlerInv(h)'
    BY <1>1 DEF Inv, HandlerInv, Unjoined, Reporting, Waiting, Truthful,
       handlerVars
  <1>3. app' # "destroying" \/ app' = app
    BY DEF Aside, Constructed, Reboot, RebootReturns, HelperGoesOn, BootSend,
       BootWait, BootAnswer, SecondSendThrows, SendBegins, SendEnds, HelperStep
  <1>4. helper' # "bootGone" \/ helper' = helper
    BY DEF Aside, Constructed, Reboot, RebootReturns, HelperGoesOn, BootSend,
       BootWait, BootAnswer, SecondSendThrows, SendBegins, SendEnds, HelperStep
  <1>5. Alive
    BY DEF Aside, Constructed, Reboot, RebootReturns, HelperGoesOn, BootSend,
       BootWait, BootAnswer, SecondSendThrows, SendBegins, SendEnds, HelperStep
  <1>6. GoneSafely'
    BY <1>1, <1>3, <1>4, <1>5 DEF Inv, GoneSafely, Stopped, handlerVars
  <1>7. TypeOK'
    <2> USE <1>1 DEF Inv, TypeOK, handlerVars, Note, HelperStep
    <2>1. CASE Constructed
      BY <2>1 DEF Constructed, App
    <2>2. CASE Reboot
      <3>1. reboots' \in 0..MaxReboots
        BY <2>2, BoundAssumption DEF Reboot
      <3>2. CASE device = "SOCKET"
        BY <2>2, <3>1, <3>2 DEF Reboot, App, Helper, Mishaps
      <3>3. CASE device # "SOCKET"
        BY <2>2, <3>1, <3>3 DEF Reboot, App, Helper, Mishaps
      <3> QED BY <3>2, <3>3
    <2>3. CASE RebootReturns
      BY <2>3 DEF RebootReturns, App, Helper
    <2>4. CASE HelperGoesOn
      BY <2>4 DEF HelperGoesOn, Helper
    <2>5. CASE BootSend
      BY <2>5 DEF BootSend, Helper, Faults
    <2>6. CASE BootWait \/ BootAnswer \/ SecondSendThrows
      BY <2>6 DEF BootWait, BootAnswer, SecondSendThrows, Helper, Faults
    <2>7. CASE SendBegins \/ SendEnds
      BY <2>7 DEF SendBegins, SendEnds, Mishaps, Faults
    <2> QED BY <2>1, <2>2, <2>3, <2>4, <2>5, <2>6, <2>7 DEF Aside
  <1> QED BY <1>1, <1>2, <1>6, <1>7 DEF Inv

\* Those that start a handler, stop one, or destroy one.
Starting == Construct \/ BootStart \/ MainStart
Stopping == \/ ConstructorThrows \/ Destruct \/ DestroyMembers
            \/ StopMain \/ BootStop \/ BootDestroy
Destroying == Destroyed \/ BootGone

LEMMA StartingKeeps ==
    ASSUME Inv, Starting
    PROVE  Inv'
  <1>1. PICK h \in Handlers : StartCall(h)
    BY DEF Starting, Construct, BootStart, MainStart, Handlers
  <1>2. \A k \in Handlers : HandlerInv(k)'
    BY <1>1, StartCallKeeps
  <1>3. TypeOK'
    <2>1. /\ svc' \in [Handlers -> Svc]
          /\ started' \in [Handlers -> BOOLEAN]
          /\ joinable' \in [Handlers -> BOOLEAN]
          /\ thread_ready' \in [Handlers -> BOOLEAN]
          /\ ec' \in [Handlers -> {"ok", "error"}]
          /\ recv' \in [Handlers -> Recv]
          /\ sock' \in [Handlers -> Sock]
          /\ met' \in SUBSET Mishaps /\ fault' \in Faults
      BY <1>1, StartCallKeeps
    <2> QED BY <2>1, BoundAssumption DEF Starting, Construct, BootStart,
               MainStart, HelperStep, Inv, TypeOK, App, Helper
  <1>4. app' # "destroying" /\ helper' # "bootGone"
    BY DEF Starting, Construct, BootStart, MainStart, HelperStep, Inv, TypeOK
  <1> QED BY <1>2, <1>3, <1>4 DEF Inv, GoneSafely

LEMMA StoppingKeeps ==
    ASSUME Inv, Stopping
    PROVE  Inv' /\ UNCHANGED recv
  <1>1. PICK h \in Handlers : /\ StopCall(h)
                              /\ app' = "destroying" => h = "main"
                              /\ helper' = "bootGone" => h = "boot"
    BY DEF Stopping, ConstructorThrows, Destruct, DestroyMembers, StopMain,
       BootStop, BootDestroy, HelperStep, Handlers, Inv, TypeOK
  <1>2. \A k \in Handlers : HandlerInv(k)'
    BY <1>1, StopCallKeeps
  <1>3. /\ UNCHANGED <<started, joinable, thread_ready, ec, recv, sock, met>>
        /\ svc' \in [Handlers -> Svc] /\ fault' \in Faults
    BY <1>1, StopCallKeeps
  <1>4. TypeOK'
    BY <1>3 DEF Stopping, ConstructorThrows, Destruct, DestroyMembers, StopMain,
       BootStop, BootDestroy, HelperStep, Inv, TypeOK, App, Helper
  <1>5. Alive' => svc'[h] \in Stops
    BY <1>1, StopCallKeeps
  <1>6. GoneSafely'
    BY <1>1, <1>5 DEF GoneSafely, Stopped
  <1> QED BY <1>2, <1>3, <1>4, <1>6 DEF Inv

LEMMA DestroyingKeeps ==
    ASSUME Inv, Destroying
    PROVE  /\ Inv'
           /\ \A h \in Handlers : recv'[h] # recv[h] =>
                                      recv[h] \in {"none", "done"}
  <1>1. PICK h \in Handlers : /\ Gone(h) /\ svc[h] = "idle" /\ Alive
                              /\ UNCHANGED <<met, fault>>
                              /\ ~joinable[h]
    BY DEF Destroying, Destroyed, BootGone, HelperStep, Handlers, Inv,
       GoneSafely, Stopped, Stops
  <1>2. \A k \in Handlers : HandlerInv(k)'
    BY <1>1, GoneKeeps
  <1>3. /\ started' \in [Handlers -> BOOLEAN]
        /\ joinable' \in [Handlers -> BOOLEAN]
        /\ thread_ready' \in [Handlers -> BOOLEAN]
        /\ ec' \in [Handlers -> {"ok", "error"}]
        /\ recv' \in [Handlers -> Recv]
        /\ sock' \in [Handlers -> Sock]
    BY <1>1, GoneKeeps
  <1>4. TypeOK'
    BY <1>1, <1>3 DEF Destroying, Destroyed, BootGone, HelperStep, Gone, Inv,
       TypeOK, App, Helper
  <1>5. app' # "destroying" /\ helper' # "bootGone"
    BY DEF Destroying, Destroyed, BootGone, HelperStep, Inv, TypeOK
  <1>6. \A k \in Handlers : recv'[k] # recv[k] => recv[k] \in {"none", "done"}
    BY <1>1 DEF Gone, Put, Inv, TypeOK, HandlerInv, Unjoined
  <1> QED BY <1>2, <1>4, <1>5, <1>6 DEF Inv, GoneSafely

LEMMA NextSplit ==
    ASSUME Next
    PROVE  \/ \E h \in Handlers : HandlerStep(h)
           \/ Aside \/ Starting \/ Stopping \/ Destroying
  BY DEF Next, HandlerStep, OwnerStep, HelperThread, Aside, Starting, Stopping,
         Destroying

LEMMA InvStep == Inv /\ [Next]_vars => Inv'
  <1> SUFFICES ASSUME Inv, [Next]_vars PROVE Inv'
    OBVIOUS
  <1>1. ASSUME NEW h \in Handlers, HandlerStep(h) PROVE Inv'
    <2>1. TypeOK' /\ UNCHANGED callers /\ Alive
      BY <1>1, HandlerStepType
    <2>2. \A k \in Handlers : HandlerInv(k)'
      BY <1>1, HandlerStepKeeps
    <2>3. \A k \in Handlers : Stopped(k) => Stopped(k)'
      BY <1>1, HandlerStepStopped
    <2>4. "main" \in Handlers /\ "boot" \in Handlers
      BY DEF Handlers
    <2>5. GoneSafely'
      BY <2>1, <2>3, <2>4 DEF Inv, GoneSafely, callers
    <2> QED BY <2>1, <2>2, <2>5 DEF Inv
  <1>2. CASE UNCHANGED vars
    BY <1>2 DEF vars, handlerVars, callers, Inv, TypeOK, HandlerInv, Unjoined,
       Reporting, Waiting, Truthful, GoneSafely, Stopped, Alive
  <1> QED BY <1>1, <1>2, NextSplit, AsideKeeps, StartingKeeps, StoppingKeeps,
             DestroyingKeeps

LEMMA InvHolds == Spec => []Inv
  BY InvInit, InvStep, PTL DEF Spec

\* Every variable of the life cycle keeps its type, and the helper is at work
\* exactly while the caller of Reboot waits for it.
THEOREM TypeCorrect == Spec => []TypeOK
  <1>1. Inv => TypeOK
    BY DEF Inv
  <1> QED BY InvHolds, <1>1, PTL

\* A start that returned true left a receiver on a connection, whatever the
\* other handler and the other threads do.
THEOREM StartTruthfulHolds == Spec => []StartTruthful
  <1>1. Inv => StartTruthful
    BY DEF Inv, HandlerInv, Truthful, StartTruthful
  <1> QED BY InvHolds, <1>1, PTL

\* No step makes a receiver beside another, or destroys a handler whose
\* receiver is not over.
THEOREM OneReceiverHolds == Spec => OneReceiver
  <1> DEFINE Safe == \A h \in Handlers :
                 recv'[h] # recv[h] /\ recv'[h] \in {"new", "none"} =>
                     recv[h] \in {"none", "done"}
  <1>1. Inv /\ [Next]_vars => Safe
    <2> SUFFICES ASSUME Inv, [Next]_vars PROVE Safe
      OBVIOUS
    <2>1. ASSUME NEW h \in Handlers, HandlerStep(h) PROVE Safe
      BY <2>1 DEF HandlerStep, ReceiverStep, ServiceStep, NewSocket, Connect,
         ReportReady, TestError, OpenSerial, ReadFails, ReceiverEnds,
         StartReturns, Shutdown, CloseSocket, Join, LinkLost, Put, Inv, TypeOK
    <2>2. CASE Aside
      BY <2>2, AsideKeeps DEF handlerVars
    <2>3. CASE Starting
      <3>1. PICK h \in Handlers : StartCall(h)
        BY <2>3 DEF Starting, Construct, BootStart, MainStart, Handlers
      <3> QED BY <3>1 DEF StartCall, MayStart, Put, Inv, TypeOK, HandlerInv,
                 Unjoined
    <2>4. CASE Stopping
      BY <2>4, StoppingKeeps
    <2>5. CASE Destroying
      BY <2>5, DestroyingKeeps
    <2>6. CASE UNCHANGED vars
      BY <2>6 DEF vars, handlerVars
    <2> QED BY <2>1, <2>2, <2>3, <2>4, <2>5, <2>6, NextSplit
  <1>2. Inv /\ [Next]_vars => [Safe]_vars
    BY <1>1
  <1> QED BY InvHolds, <1>2, PTL DEF Spec, OneReceiver
-----------------------------------------------------------------------------
(* Where the callers are, and what a behaviour without a mishap has *)

Calm == met \subseteq {"overlap", "stale ec"}
Unbroken == met \subseteq {"overlap"}

\* A receiver that reported has a socket; and while nothing failed, a handler
\* that was started and is not being stopped is connected, with its receiver
\* at work.
Connected(h) ==
    /\ recv[h] \notin {"none", "new"} => sock[h] # "null"
    /\ joinable[h] => recv[h] # "none"
    /\ Calm => ec[h] = "ok"
    /\ joinable[h] /\ svc[h] \notin Stops =>
          /\ Calm /\ recv[h] \notin {"new", "connecting"} => sock[h] = "up"
          /\ Unbroken => /\ recv[h] \in Unreported \union {"ready", "reading"}
                         /\ svc[h] = "idle" => started[h]

\* The owner or the helper left handler h unused, started it, waits for its
\* stop, or stopped it.
Unused(h) == recv[h] = "none" /\ ~joinable[h] /\ svc[h] = "idle"
Started(h) == (Calm => joinable[h]) /\ svc[h] = "idle"
Beginning(h) == (Calm => joinable[h]) /\ svc[h] \in {"idle", "spin"}
AtRest(h) == ~joinable[h] /\ svc[h] = "idle"

Place ==
    /\ app = "none" => Unused("main")
    /\ app = "starting" \/ helper = "restarting" => Beginning("main")
    /\ app = "open" \/ helper \in {"stop", "bootDestroy", "bootGone", "over"}
          => Started("main")
    /\ app \in {"stopping", "destroying"} \/ helper = "stopping"
          => Stopped("main")
    /\ helper \in {"boot", "booting", "send", "sent", "waiting", "answered",
                   "bootStop", "restart"} => AtRest("main")
    /\ helper \in {"none", "stop", "stopping", "boot", "over"} => Unused("boot")
    /\ helper = "booting" => Beginning("boot")
    /\ helper \in {"send", "sent", "waiting", "answered"} => Started("boot")
    /\ helper \in {"bootStop", "bootGone"} => Stopped("boot")
    /\ helper \in {"restart", "restarting", "bootDestroy"} => AtRest("boot")

\* A handler in use has had a receiver, unless a thread could not be made.
Made ==
    /\ app # "none" => recv["main"] # "none" \/ "no thread" \in met
    /\ helper \notin {"none", "stop", "stopping", "boot", "over"} =>
          recv["boot"] # "none" \/ "no thread" \in met

Overlapping ==
    client = "sending" => \/ app = "open"
                          \/ app = "rebooting" /\ "overlap" \in met

Course == /\ \A h \in Handlers : Connected(h)
          /\ Alive => Place /\ Made /\ Overlapping
          /\ FaultHasCause

LEMMA CourseInit == Init => Course
  BY DEF Init, Course, Connected, Calm, Unbroken, Stops, Unreported, Alive, Place,
         Made, Overlapping, FaultHasCause, Unused, Handlers

-----------------------------------------------------------------------------
(* The steps of a handler *)

\* How far the call in progress can come in a step.
LEMMA HandlerStepCalls ==
    ASSUME Inv, NEW h \in Handlers, HandlerStep(h), NEW k \in Handlers
    PROVE  /\ recv'[k] = "none" <=> recv[k] = "none"
           /\ joinable'[k] => joinable[k]
           /\ \/ svc'[k] = svc[k] /\ joinable'[k] = joinable[k]
              \/ svc[k] = "spin" /\ svc'[k] = "idle" /\ joinable'[k] = joinable[k]
              \/ svc[k] \in Stops /\ svc'[k] \in Stops
                 /\ joinable'[k] = joinable[k]
              \/ svc[k] \in Stops /\ svc'[k] = "idle" /\ ~joinable'[k]
  <1> USE DEF Inv, TypeOK, Put, Receiver, Stops
  <1>1. CASE NewSocket(h) \/ Connect(h) \/ ReportReady(h) \/ TestError(h)
             \/ OpenSerial(h) \/ ReadFails(h) \/ ReceiverEnds(h) \/ LinkLost(h)
    <2>1. UNCHANGED <<svc, joinable>>
      BY <1>1 DEF NewSocket, Connect, ReportReady, TestError, OpenSerial,
         ReadFails, ReceiverEnds, LinkLost
    <2>2. recv'[k] = "none" <=> recv[k] = "none"
      BY <1>1 DEF NewSocket, Connect, ReportReady, TestError, OpenSerial,
         ReadFails, ReceiverEnds, LinkLost
    <2> QED BY <2>1, <2>2
  <1>2. CASE StartReturns(h)
    BY <1>2 DEF StartReturns
  <1>3. CASE Shutdown(h)
    BY <1>3 DEF Shutdown
  <1>4. CASE CloseSocket(h)
    BY <1>4 DEF CloseSocket
  <1>5. CASE Join(h)
    BY <1>5 DEF Join
  <1> QED BY <1>1, <1>2, <1>3, <1>4, <1>5
          DEF HandlerStep, ReceiverStep, ServiceStep

LEMMA HandlerStepConnected ==
    ASSUME Inv, Course, NEW h \in Handlers, HandlerStep(h), NEW k \in Handlers
    PROVE  Connected(k)' /\ met \subseteq met'
  <1> USE DEF Inv, TypeOK, Put, Note, Receiver, HandlerInv, Reporting, Waiting,
              Unreported, Stops, Course, Connected, Calm, Unbroken
  <1>1. CASE NewSocket(h)
    BY <1>1 DEF NewSocket
  <1>2. CASE Connect(h)
    <2>1. CASE sock' = Put(sock, h, "up") /\ UNCHANGED <<ec, met>>
      BY <1>2, <2>1 DEF Connect
    <2>2. CASE sock' = Put(sock, h, "failed") /\ met' = met \union {"refused"}
      <3>1. met \subseteq met' /\ ~Calm' /\ ~Unbroken'
        BY <2>2
      <3> QED BY <1>2, <2>2, <3>1 DEF Connect
    <2> QED BY <1>2, <2>1, <2>2 DEF Connect
  <1>3. CASE ReportReady(h)
    BY <1>3 DEF ReportReady
  <1>4. CASE TestError(h)
    <2>1. CASE FrameAlive(h)
      BY <1>4, <2>1 DEF TestError, FrameAlive
    <2>2. CASE ~FrameAlive(h)
      <3>1. met \subseteq met' /\ ~Unbroken' /\ (Calm' => Calm)
        <4>1. met' = met \union {"stale ec"}
          BY <1>4, <2>2 DEF TestError
        <4>2. "stale ec" \in met' /\ "stale ec" # "overlap"
          BY <4>1
        <4> QED BY <4>1, <4>2
      <3>2. /\ UNCHANGED <<svc, started, joinable, ec, sock>>
            /\ recv[h] = "ready"
            /\ \E next \in {"reading", "ending"} : recv' = Put(recv, h, next)
        BY <1>4, <2>2 DEF TestError
      <3> HIDE DEF Calm, Unbroken
      <3> QED BY <3>1, <3>2
    <2> QED BY <2>1, <2>2
  <1>5. CASE OpenSerial(h)
    <2>1. CASE /\ sock' = Put(sock, h, "up")
               /\ recv' = Put(recv, h, "reading")
               /\ UNCHANGED <<ec, met>>
      BY <1>5, <2>1 DEF OpenSerial
    <2>2. CASE \/ /\ sock' = Put(sock, h, "fresh")
                  /\ recv' = Put(recv, h, "ending")
                  /\ met' = met \union {"refused"}
               \/ /\ met' = met \union {"options"}
                  /\ UNCHANGED <<sock, recv, ec>>
      <3>1. met \subseteq met' /\ ~Calm' /\ ~Unbroken'
        <4>1. met \subseteq met' /\ ("refused" \in met' \/ "options" \in met')
          BY <2>2
        <4>2. /\ "refused" \notin {"overlap", "stale ec"}
              /\ "options" \notin {"overlap", "stale ec"}
          OBVIOUS
        <4> QED BY <4>1, <4>2
      <3>2. UNCHANGED <<svc, joinable>> /\ recv[h] = "new"
        BY <1>5 DEF OpenSerial
      <3> HIDE DEF Calm, Unbroken
      <3> QED BY <2>2, <3>1, <3>2
    <2> QED BY <1>5, <2>1, <2>2 DEF OpenSerial
  <1>6. CASE ReadFails(h)
    BY <1>6 DEF ReadFails
  <1>7. CASE ReceiverEnds(h)
    BY <1>7 DEF ReceiverEnds
  <1>8. CASE StartReturns(h)
    BY <1>8 DEF StartReturns
  <1>9. CASE Shutdown(h)
    BY <1>9 DEF Shutdown
  <1>10. CASE CloseSocket(h)
    <2>1. CASE sock' = Put(sock, h, "closed") /\ svc' = Put(svc, h, "joining")
      BY <1>10, <2>1 DEF CloseSocket
    <2>2. CASE UNCHANGED <<sock, svc>>
      BY <1>10, <2>2 DEF CloseSocket
    <2> QED BY <1>10, <2>1, <2>2 DEF CloseSocket
  <1>11. CASE Join(h)
    BY <1>11 DEF Join
  <1>12. CASE LinkLost(h)
    BY <1>12 DEF LinkLost
  <1> QED BY <1>1, <1>2, <1>3, <1>4, <1>5, <1>6, <1>7, <1>8, <1>9, <1>10,
             <1>11, <1>12 DEF HandlerStep, ReceiverStep, ServiceStep

LEMMA HandlerStepCourse ==
    ASSUME Inv, Course, NEW h \in Handlers, HandlerStep(h)
    PROVE  Course'
  <1>1. UNCHANGED callers /\ Alive
    BY HandlerStepType
  <1>2. "main" \in Handlers /\ "boot" \in Handlers
    BY DEF Handlers
  <1>3. \A k \in Handlers : Connected(k)'
    BY HandlerStepConnected
  <1>4. met \subseteq met'
    BY <1>2, HandlerStepConnected
  <1>5. \A k \in Handlers : /\ Unused(k) => Unused(k)'
                            /\ Started(k) => Started(k)'
                            /\ Beginning(k) => Beginning(k)'
                            /\ AtRest(k) => AtRest(k)'
                            /\ Stopped(k) => Stopped(k)'
    BY <1>4, HandlerStepCalls
       DEF Unused, Started, Beginning, AtRest, Stopped, Stops, Calm
  <1>6. Place'
    BY <1>1, <1>2, <1>5 DEF Course, Place, callers
  <1>7. Made'
    BY <1>1, <1>2, <1>4, HandlerStepCalls DEF Course, Made, callers
  <1>8. Overlapping'
    BY <1>1, <1>4 DEF Course, Overlapping, callers
  <1>9. FaultHasCause'
    <2>1. CASE NewSocket(h)
      <3>1. svc[h] = "spin"
        BY <2>1 DEF NewSocket, Receiver, Inv, HandlerInv, Reporting, Unreported
      <3>2. h = "main" /\ client = "sending" => "overlap" \in met
        BY <1>1, <3>1 DEF Course, Place, Started, Overlapping
      <3> QED BY <1>1, <2>1, <3>2 DEF NewSocket, FaultHasCause, Alive
    <2>2. CASE OpenSerial(h)
      <3>1. fault' = fault \/ (fault' = "terminate" /\ "options" \in met')
        BY <2>2 DEF OpenSerial, Note
      <3>2. "options" \in met' => met' \ {"stale ec"} # {}
        <4>1. "options" # "stale ec"
          OBVIOUS
        <4> QED BY <4>1
      <3> QED BY <1>1, <3>1, <3>2 DEF FaultHasCause, Alive
    <2>3. CASE CloseSocket(h)
      BY <1>1, <2>3 DEF CloseSocket, FaultHasCause, Alive
    <2>4. fault' = "none" => FaultHasCause'
      BY DEF FaultHasCause
    <2> QED BY <1>1, <2>1, <2>2, <2>3, <2>4
            DEF HandlerStep, ReceiverStep, ServiceStep, Alive, Connect,
                ReportReady, TestError, ReadFails, ReceiverEnds, StartReturns,
                Shutdown, Join, LinkLost
  <1> QED BY <1>3, <1>6, <1>7, <1>8, <1>9 DEF Course

-----------------------------------------------------------------------------
(* The steps of the callers *)

LEMMA AsideCourse ==
    ASSUME Inv, Course, Aside
    PROVE  Course'
  <1>1. UNCHANGED handlerVars /\ met \subseteq met' /\ Alive
    BY DEF Aside, Constructed, Reboot, RebootReturns, HelperGoesOn, BootSend,
       BootWait, BootAnswer, SecondSendThrows, SendBegins, SendEnds, HelperStep,
       Note, Alive
  <1>2. \A k \in Handlers : Connected(k)'
    BY <1>1 DEF Course, Connected, Calm, Unbroken, handlerVars
  <1> USE <1>1 DEF handlerVars, Note, HelperStep, Course, Inv, TypeOK
  <1>3. Place'
    <2> USE DEF Place, Unused, Started, Beginning, AtRest, Stopped, Stops, Calm
    <2>1. CASE Constructed
      BY <2>1 DEF Constructed
    <2>2. CASE Reboot
      BY <2>2 DEF Reboot
    <2>3. CASE RebootReturns
      BY <2>3 DEF RebootReturns
    <2>4. CASE HelperGoesOn
      BY <2>4 DEF HelperGoesOn
    <2>5. CASE BootSend
      BY <2>5 DEF BootSend
    <2>6. CASE BootWait \/ BootAnswer \/ SecondSendThrows
      BY <2>6 DEF BootWait, BootAnswer, SecondSendThrows
    <2>7. CASE SendBegins \/ SendEnds
      BY <2>7 DEF SendBegins, SendEnds
    <2> QED BY <2>1, <2>2, <2>3, <2>4, <2>5, <2>6, <2>7 DEF Aside
  <1>4. Made' /\ Overlapping'
    BY DEF Made, Overlapping, Aside, Constructed, Reboot, RebootReturns,
       HelperGoesOn, BootSend, BootWait, BootAnswer, SecondSendThrows,
       SendBegins, SendEnds
  <1>5. FaultHasCause'
    <2>1. CASE BootSend \/ SecondSendThrows
      <3>1. helper \in {"send", "answered"}
        BY <2>1 DEF BootSend, SecondSendThrows
      <3>2. sock["boot"] = "null" => "no thread" \in met
        BY <3>1 DEF Place, Started, Made, Connected, Handlers, HandlerInv,
           Reporting, Unreported
      <3>3. Calm => sock["boot"] = "up"
        BY <3>1 DEF Place, Started, Made, Connected, Handlers, HandlerInv,
           Reporting, Unreported, Stops, Calm
      <3> QED BY <2>1, <3>2, <3>3 DEF BootSend, SecondSendThrows, SendThrows,
                 FaultHasCause, Alive, Calm
    <2>2. CASE SendEnds
      <3>1. Calm /\ "overlap" \notin met => sock["main"] = "up"
        BY <2>2 DEF SendEnds, Place, Started, Overlapping, Connected, Handlers,
           HandlerInv, Reporting, Unreported, Stops
      <3>2. fault' = "terminate" => met' \ {"stale ec"} # {}
        <4>1. fault' = "terminate" => ~Calm \/ "overlap" \in met
          BY <2>2, <3>1 DEF SendEnds, SendThrows, Alive
        <4>2. ~Calm \/ "overlap" \in met => met' \ {"stale ec"} # {}
          <5>1. "overlap" # "stale ec"
            OBVIOUS
          <5> QED BY <1>1, <5>1 DEF Calm
        <4> QED BY <4>1, <4>2
      <3>3. fault' \in {"none", "terminate"}
        BY <2>2 DEF SendEnds, Alive
      <3> QED BY <3>2, <3>3 DEF FaultHasCause
    <2> QED BY <2>1, <2>2 DEF FaultHasCause, Alive, Aside, Constructed, Reboot,
               RebootReturns, HelperGoesOn, BootWait, BootAnswer, SendBegins
  <1> QED BY <1>2, <1>3, <1>4, <1>5

\* A start is called on a handler that has no thread.
LEMMA StartCallCourse ==
    ASSUME Inv, Course, NEW h \in Handlers, StartCall(h), AtRest(h)
    PROVE  /\ \A k \in Handlers : Connected(k)'
           /\ Beginning(h)' /\ (recv'[h] # "none" \/ "no thread" \in met')
           /\ \A k \in Handlers : k # h => /\ joinable'[k] = joinable[k]
                                           /\ svc'[k] = svc[k]
                                           /\ recv'[k] = recv[k]
           /\ met \subseteq met' /\ UNCHANGED fault
  <1> USE DEF Inv, TypeOK, StartCall, AtRest, MayStart, Put, Note
  <1>1. CASE /\ svc' = Put(svc, h, "spin") /\ recv' = Put(recv, h, "new")
             /\ joinable' = Put(joinable, h, TRUE) /\ UNCHANGED met
    <2>1. \A k \in Handlers : Connected(k)'
      BY <1>1 DEF Course, Connected, Calm, Unbroken, Stops, Unreported
    <2>2. Beginning(h)' /\ recv'[h] # "none"
      BY <1>1 DEF Beginning
    <2> QED BY <1>1, <2>1, <2>2
  <1>2. CASE met' = met \union {"no thread"} /\ UNCHANGED <<svc, recv, joinable>>
    <2>1. met \subseteq met' /\ "no thread" \in met' /\ ~Calm' /\ ~Unbroken'
      BY <1>2 DEF Calm, Unbroken
    <2>2. \A k \in Handlers : Connected(k)'
      BY <1>2, <2>1 DEF Course, Connected
    <2>3. Beginning(h)'
      BY <1>2, <2>1 DEF Beginning
    <2> QED BY <1>2, <2>1, <2>2, <2>3
  <1> QED BY <1>1, <1>2

LEMMA StartingCourse ==
    ASSUME Inv, Course, Starting
    PROVE  Course'
  <1> USE DEF HelperStep, Course, Inv, TypeOK
  <1>1. CASE Construct
    <2>1. StartCall("main") /\ AtRest("main") /\ "main" \in Handlers
      BY <1>1 DEF Construct, StartCall, Place, Unused, AtRest, Handlers
    <2>2. Place'
      BY <1>1, <2>1, StartCallCourse DEF Construct, Place, Handlers, Unused,
         StartCall
    <2>3. Made' /\ Overlapping' /\ FaultHasCause'
      BY <1>1, <2>1, StartCallCourse DEF Construct, Made, Overlapping, Handlers,
         FaultHasCause, StartCall
    <2> QED BY <2>1, <2>2, <2>3, StartCallCourse
  <1>2. CASE BootStart
    <2>1. StartCall("boot") /\ AtRest("boot") /\ "boot" \in Handlers
      BY <1>2 DEF BootStart, StartCall, Place, Unused, AtRest, Handlers
    <2>2. Place'
      BY <1>2, <2>1, StartCallCourse DEF BootStart, Place, Handlers, AtRest,
         StartCall
    <2>3. Made' /\ Overlapping' /\ FaultHasCause'
      BY <1>2, <2>1, StartCallCourse DEF BootStart, Made, Overlapping, Handlers,
         FaultHasCause, StartCall
    <2> QED BY <2>1, <2>2, <2>3, StartCallCourse
  <1>3. CASE MainStart
    <2>1. StartCall("main") /\ AtRest("main") /\ "main" \in Handlers
      BY <1>3 DEF MainStart, StartCall, Place, AtRest, Handlers
    <2>2. Place'
      BY <1>3, <2>1, StartCallCourse DEF MainStart, Place, Handlers, AtRest,
         StartCall
    <2>3. Made' /\ Overlapping' /\ FaultHasCause'
      BY <1>3, <2>1, StartCallCourse DEF MainStart, Made, Overlapping, Handlers,
         FaultHasCause, StartCall
    <2> QED BY <2>1, <2>2, <2>3, StartCallCourse
  <1> QED BY <1>1, <1>2, <1>3 DEF Starting

\* A stop is called on a handler whose starts and stops have returned.
LEMMA StopCallCourse ==
    ASSUME Inv, Course, NEW h \in Handlers, StopCall(h),
           recv[h] # "none" \/ "no thread" \in met
    PROVE  /\ \A k \in Handlers : Connected(k)'
           /\ Alive' => Stopped(h)'
           /\ \A k \in Handlers : k # h => svc'[k] = svc[k]
           /\ UNCHANGED <<started, joinable, recv, met>>
           /\ FaultHasCause'
  <1> USE DEF Inv, TypeOK, StopCall, Put
  <1>1. \A k \in Handlers : Connected(k)'
    BY DEF Course, Connected, Calm, Unbroken, Stops, Unreported
  <1>2. sock[h] = "null" => "no thread" \in met
    BY DEF Course, Connected, HandlerInv, Reporting, Unreported
  <1>3. FaultHasCause'
    BY <1>2 DEF Course, FaultHasCause, Alive
  <1>4. Alive' => Stopped(h)'
    BY DEF Alive, Stopped, Stops
  <1> QED BY <1>1, <1>3, <1>4

LEMMA StoppingCourse ==
    ASSUME Inv, Course, Stopping
    PROVE  Course'
  <1> USE DEF HelperStep, Course, Inv, TypeOK
  <1>1. CASE ConstructorThrows \/ Destruct \/ DestroyMembers \/ StopMain
    <2>1. /\ StopCall("main") /\ "main" \in Handlers
          /\ recv["main"] # "none" \/ "no thread" \in met
      BY <1>1 DEF ConstructorThrows, Destruct, DestroyMembers, StopMain,
         StopCall, Made, Handlers
    <2>2. Alive' => Place'
      BY <1>1, <2>1, StopCallCourse DEF ConstructorThrows, Destruct,
         DestroyMembers, StopMain, StopCall, Place, Handlers, Unused
    <2>3. Made' /\ (Alive' => Overlapping')
      BY <1>1, <2>1, StopCallCourse DEF ConstructorThrows, Destruct,
         DestroyMembers, StopMain, StopCall, Made, Overlapping
    <2> QED BY <2>1, <2>2, <2>3, StopCallCourse
  <1>2. CASE BootStop \/ BootDestroy
    <2>1. /\ StopCall("boot") /\ "boot" \in Handlers
          /\ recv["boot"] # "none" \/ "no thread" \in met
      BY <1>2 DEF BootStop, BootDestroy, StopCall, Made, Handlers
    <2>2. Alive' => Place'
      BY <1>2, <2>1, StopCallCourse DEF BootStop, BootDestroy, StopCall, Place,
         Handlers, AtRest, Started, Calm, Beginning
    <2>3. Made' /\ (Alive' => Overlapping')
      BY <1>2, <2>1, StopCallCourse DEF BootStop, BootDestroy, StopCall, Made,
         Overlapping
    <2> QED BY <2>1, <2>2, <2>3, StopCallCourse
  <1> QED BY <1>1, <1>2 DEF Stopping

LEMMA DestroyingCourse ==
    ASSUME Inv, Course, Destroying
    PROVE  Course'
  <1> USE DEF HelperStep, Course, Inv, TypeOK, Gone, Put, Destroying, Destroyed,
              BootGone
  <1>1. \A k \in Handlers : Connected(k)'
    <2>1. PICK h \in Handlers : Gone(h) /\ UNCHANGED met
      BY DEF Handlers
    <2>2. ASSUME NEW k \in Handlers, k = h PROVE Connected(k)'
      BY <2>1, <2>2 DEF Connected
    <2>3. ASSUME NEW k \in Handlers, k # h PROVE Connected(k)'
      <3>1. UNCHANGED <<recv[k], sock[k], joinable[k], ec[k], svc[k],
                        started[k]>>
        BY <2>1, <2>3
      <3>2. Connected(k) /\ (Calm' <=> Calm) /\ (Unbroken' <=> Unbroken)
        BY <2>1 DEF Calm, Unbroken
      <3> HIDE DEF HelperStep, Course, Inv, TypeOK, Gone, Put, Destroying,
                   Destroyed, BootGone
      <3> QED BY <3>1, <3>2 DEF Connected
    <2> QED BY <2>2, <2>3
  <1>2. Place'
    BY DEF Place, Unused, Started, Beginning, AtRest, Stopped, Stops, Calm,
       Handlers
  <1>3. Made' /\ Overlapping' /\ FaultHasCause'
    BY DEF Made, Overlapping, FaultHasCause, Handlers
  <1> QED BY <1>1, <1>2, <1>3

\* Without a failure an open interface is connected, and stays so in a step
\* that ends the process.
LEMMA RestoredStep ==
    ASSUME Inv, Course, Inv', Course', RebootRestores, Next
    PROVE  RebootRestores'
  <1>1. CASE Alive'
    BY <1>1 DEF Inv, TypeOK, Course, Place, Started, Unused, Connected, Calm,
       Unbroken, Handlers, HandlerInv, Reporting, Unreported, Stops,
       RebootRestores
  <1>2. CASE ~Alive'
    <2>1. ASSUME NEW h \in Handlers, HandlerStep(h) PROVE RebootRestores'
      <3>1. UNCHANGED callers /\ Alive
        BY <2>1, HandlerStepType
      <3>2. CASE NewSocket(h)
        <4>1. h = "main" /\ svc[h] = "spin"
          BY <1>2, <3>1, <3>2 DEF NewSocket, Receiver, Inv, HandlerInv,
             Reporting, Unreported, Alive
        <4> QED BY <3>1, <4>1 DEF Course, Place, Started, callers,
                   RebootRestores
      <3>3. CASE OpenSerial(h)
        <4>1. "options" \in met'
          BY <1>2, <3>1, <3>3 DEF OpenSerial, Note, Alive
        <4> QED BY <4>1 DEF RebootRestores
      <3>4. CASE CloseSocket(h)
        BY <1>2, <3>1, <3>4 DEF CloseSocket, Alive, callers, RebootRestores
      <3> QED BY <1>2, <2>1, <3>1, <3>2, <3>3, <3>4
              DEF HandlerStep, ReceiverStep, ServiceStep, Alive, Connect,
                  ReportReady, TestError, ReadFails, ReceiverEnds, StartReturns,
                  Shutdown, Join, LinkLost
    <2>2. CASE Aside
      BY <1>2, <2>2 DEF Aside, Constructed, Reboot, RebootReturns, HelperGoesOn,
         BootSend, BootWait, BootAnswer, SecondSendThrows, SendBegins, SendEnds,
         HelperStep, Alive, handlerVars, RebootRestores
    <2>3. CASE Starting
      BY <1>2, <2>3 DEF Starting, Construct, BootStart, MainStart, StartCall,
         Alive
    <2>4. CASE Stopping
      BY <2>4 DEF Stopping, ConstructorThrows, Destruct, DestroyMembers,
         StopMain, BootStop, BootDestroy, HelperStep, Inv, TypeOK,
         RebootRestores
    <2>5. CASE Destroying
      BY <1>2, <2>5 DEF Destroying, Destroyed, BootGone, HelperStep, Alive
    <2> QED BY <2>1, <2>2, <2>3, <2>4, <2>5, NextSplit
  <1> QED BY <1>1, <1>2

LEMMA CourseHolds == Spec => [](Inv /\ Course /\ RebootRestores)
  <1>1. Init => RebootRestores
    BY DEF Init, RebootRestores
  <1>2. Inv /\ Course /\ RebootRestores /\ [Next]_vars
            => Course' /\ RebootRestores'
    <2> SUFFICES ASSUME Inv, Course, RebootRestores, [Next]_vars
                 PROVE  Course' /\ RebootRestores'
      OBVIOUS
    <2>1. CASE UNCHANGED vars
      <3>1. UNCHANGED <<handlerVars, callers, met, fault>>
        BY <2>1 DEF vars
      <3>2. \A h \in Handlers : Connected(h)'
        BY <3>1 DEF handlerVars, Course, Connected, Calm, Unbroken
      <3>3. Place' <=> Place
        BY <3>1 DEF handlerVars, callers, Place, Unused, Started, Beginning,
           AtRest, Stopped, Calm
      <3>4. /\ Made' <=> Made
            /\ Overlapping' <=> Overlapping
            /\ RebootRestores'
        BY <3>1 DEF handlerVars, callers, Made, Overlapping, RebootRestores
      <3>5. FaultHasCause'
        BY <3>1 DEF Course, FaultHasCause
      <3> QED BY <3>1, <3>2, <3>3, <3>4, <3>5 DEF Course, Alive
    <2>2. CASE Next
      <3>1. Course'
        BY <2>2, NextSplit, HandlerStepCourse, AsideCourse, StartingCourse,
           StoppingCourse, DestroyingCourse
      <3> QED BY <2>2, <3>1, InvStep, RestoredStep
    <2> QED BY <2>1, <2>2
  <1> QED BY InvInit, InvStep, CourseInit, <1>1, <1>2, PTL DEF Spec

\* The process ends only after a mishap of the kind that can end it so, for
\* any number of interfaces and reboots.
THEOREM FaultHasCauseHolds == Spec => []FaultHasCause
  <1>1. Course => FaultHasCause
    BY DEF Course
  <1> QED BY CourseHolds, <1>1, PTL

\* A Reboot that met no failure leaves the interface as connected as it was.
THEOREM RebootRestoresHolds == Spec => []RebootRestores
  BY CourseHolds, PTL

\* Whoever makes a call on a handler finds the last one returned: the owner and
\* the helper never start or stop the same handler at once, though nothing in
\* start_recv_thread or stop_recv_thread keeps them apart.
OneCallAtATime ==
    Alive =>
        /\ app = "none" \/ (app = "open" /\ helper = "none")
              => svc["main"] = "idle"
        /\ helper \in {"stop", "restart"} => svc["main"] = "idle"
        /\ helper \in {"boot", "answered", "bootDestroy"}
              => svc["boot"] = "idle"
        /\ helper = "over" => /\ svc["main"] = "idle" /\ svc["boot"] = "idle"
                              /\ recv["boot"] = "none"

THEOREM OneCallAtATimeHolds == Spec => []OneCallAtATime
  <1>1. Inv /\ Course => OneCallAtATime
    BY DEF Inv, TypeOK, Course, Place, Unused, Started, AtRest, OneCallAtATime
  <1> QED BY CourseHolds, <1>1, PTL

-----------------------------------------------------------------------------
(* What a start and a stop wait for *)

\* A starter that still waits has a receiver on its way to report, or one that
\* failed to open the port; a stop that joins has closed the socket; and a
\* thread to be joined was made.
SpinGoes(h) ==
    svc[h] = "spin" =>
        \/ thread_ready[h] \/ recv[h] \in Unreported
        \/ /\ device = "SERIAL" /\ sock[h] = "fresh" /\ ec[h] = "error"
           /\ recv[h] \in {"ending", "done"}

Going(h) ==
    /\ SpinGoes(h)
    /\ svc[h] = "joining" => sock[h] = "closed"
    /\ joinable[h] => recv[h] # "none"

LEMMA GoingHandlerStep ==
    ASSUME Inv, NEW h \in Handlers, HandlerStep(h),
           NEW k \in Handlers, Going(k)
    PROVE  Going(k)'
  <1> USE DEF Inv, TypeOK, Put, Receiver, HandlerInv, Reporting, Unreported,
              Going, SpinGoes, callers
  <1>1. CASE NewSocket(h)
    <2>1. /\ recv' = Put(recv, h, "connecting") /\ svc[h] = "spin"
          /\ sock' = Put(sock, h, "fresh")
          /\ UNCHANGED <<svc, joinable, thread_ready, ec, device>>
      BY <1>1 DEF NewSocket
    <2> QED BY <2>1
  <1>2. CASE Connect(h)
    BY <1>2 DEF Connect
  <1>3. CASE ReportReady(h)
    BY <1>3 DEF ReportReady
  <1>4. CASE TestError(h)
    BY <1>4 DEF TestError, FrameAlive
  <1>5. CASE OpenSerial(h)
    BY <1>5 DEF OpenSerial
  <1>6. CASE ReadFails(h)
    BY <1>6 DEF ReadFails
  <1>7. CASE ReceiverEnds(h)
    BY <1>7 DEF ReceiverEnds
  <1>8. CASE StartReturns(h)
    BY <1>8 DEF StartReturns
  <1>9. CASE Shutdown(h)
    BY <1>9 DEF Shutdown
  <1>10. CASE CloseSocket(h)
    <2>1. UNCHANGED <<joinable, thread_ready, ec, recv, device>>
      BY <1>10 DEF CloseSocket
    <2>2. CASE sock' = Put(sock, h, "closed") /\ svc' = Put(svc, h, "joining")
      BY <1>10, <2>1, <2>2 DEF CloseSocket
    <2>3. CASE UNCHANGED <<sock, svc>>
      BY <2>1, <2>3
    <2> QED BY <1>10, <2>2, <2>3 DEF CloseSocket
  <1>11. CASE Join(h)
    BY <1>11 DEF Join
  <1>12. CASE LinkLost(h)
    BY <1>12 DEF LinkLost
  <1> QED BY <1>1, <1>2, <1>3, <1>4, <1>5, <1>6, <1>7, <1>8, <1>9, <1>10,
             <1>11, <1>12 DEF HandlerStep, ReceiverStep, ServiceStep

LEMMA GoingStep ==
    ASSUME Inv, [Next]_vars, \A k \in Handlers : Going(k)
    PROVE  \A k \in Handlers : Going(k)'
  <1> SUFFICES ASSUME NEW k \in Handlers PROVE Going(k)'
    OBVIOUS
  <1>1. ASSUME NEW h \in Handlers, HandlerStep(h) PROVE Going(k)'
    BY <1>1, GoingHandlerStep
  <1>2. CASE Aside
    <2>1. UNCHANGED handlerVars
      BY <1>2, AsideKeeps
    <2>2. UNCHANGED device
      BY <1>2 DEF Aside, Constructed, Reboot, RebootReturns,
         HelperGoesOn, BootSend, BootWait, BootAnswer, SecondSendThrows,
         SendBegins, SendEnds, HelperStep
    <2> QED BY <2>1, <2>2 DEF handlerVars, Going, SpinGoes
  <1>3. CASE Starting
    <2>1. PICK h \in Handlers : StartCall(h)
      BY <1>3 DEF Starting, Construct, BootStart, MainStart, Handlers
    <2>2. UNCHANGED device
      BY <1>3 DEF Starting, Construct, BootStart, MainStart, HelperStep
    <2>3. CASE /\ svc' = Put(svc, h, "spin") /\ recv' = Put(recv, h, "new")
               /\ joinable' = Put(joinable, h, TRUE)
               /\ thread_ready' = Put(thread_ready, h, FALSE)
      <3>1. ec' = Put(ec, h, "ok") /\ UNCHANGED sock
        BY <2>1 DEF StartCall
      <3> QED BY <2>2, <2>3, <3>1 DEF Put, Inv, TypeOK, Going, SpinGoes,
                 Unreported
    <2>4. CASE UNCHANGED <<svc, recv, joinable>>
      <3>1. /\ svc[h] = "idle" /\ ec' = Put(ec, h, "ok") /\ UNCHANGED sock
            /\ \/ thread_ready' = thread_ready
               \/ thread_ready' = Put(thread_ready, h, FALSE)
        BY <2>1 DEF StartCall
      <3> QED BY <2>2, <2>4, <3>1 DEF Put, Inv, TypeOK, Going, SpinGoes
    <2> QED BY <2>1, <2>3, <2>4 DEF StartCall, MayStart
  <1>4. CASE Stopping
    <2>1. PICK h \in Handlers : StopCall(h)
      BY <1>4 DEF Stopping, ConstructorThrows, Destruct, DestroyMembers,
         StopMain, BootStop, BootDestroy, Handlers
    <2>2. UNCHANGED device
      BY <1>4 DEF Stopping, ConstructorThrows, Destruct, DestroyMembers,
         StopMain, BootStop, BootDestroy, HelperStep
    <2>3. /\ svc[h] = "idle"
          /\ \/ UNCHANGED svc
             \/ svc' = Put(svc, h, "shutdown") \/ svc' = Put(svc, h, "closing")
          /\ UNCHANGED <<joinable, thread_ready, ec, recv, sock>>
      BY <2>1 DEF StopCall
    <2> QED BY <2>2, <2>3 DEF Put, Inv, TypeOK, Going, SpinGoes
  <1>5. CASE Destroying
    <2>1. PICK h \in Handlers : Gone(h) /\ svc[h] = "idle"
      BY <1>5 DEF Destroying, Destroyed, BootGone, Handlers
    <2>2. UNCHANGED device
      BY <1>5 DEF Destroying, Destroyed, BootGone, HelperStep
    <2> QED BY <2>1, <2>2 DEF Gone, Put, Inv, TypeOK, Going, SpinGoes
  <1>6. CASE UNCHANGED vars
    BY <1>6 DEF vars, handlerVars, callers, Going, SpinGoes
  <1> QED BY <1>1, <1>2, <1>3, <1>4, <1>5, <1>6, NextSplit

\* No call waits for a thread that cannot come: while a start spins, its
\* receiver has reported or is about to, and while a stop joins, the receiver
\* is over, about to end, or in a read that the closed socket fails.  The one
\* wait for nobody is a start on a serial port that could not be opened.
CallsGoOn ==
    \A h \in Handlers :
        /\ SpinGoes(h)
        /\ svc[h] = "joining" =>
              \/ Joined(h) \/ recv[h] \in {"ready", "ending"}
              \/ recv[h] = "reading" /\ sock[h] # "up"

THEOREM CallsGoOnHolds == Spec => []CallsGoOn
  <1> DEFINE AllGoing == \A h \in Handlers : Going(h)
  <1>1. Init => AllGoing
    BY DEF Init, Going, SpinGoes
  <1>2. Inv /\ AllGoing /\ [Next]_vars => AllGoing'
    BY GoingStep
  <1>3. Inv /\ AllGoing => CallsGoOn
    BY DEF Inv, TypeOK, Recv, HandlerInv, Reporting, Unreported, Going, Joined,
       CallsGoOn
  <1> HIDE DEF AllGoing
  <1> QED BY InvHolds, <1>1, <1>2, <1>3, PTL DEF Spec
=============================================================================
