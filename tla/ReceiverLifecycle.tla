-------------------------- MODULE ReceiverLifecycle --------------------------
(***************************************************************************)
(* The receiver thread of a CmdHandler, from start_recv_thread to          *)
(* stop_recv_thread, and what uses it: the constructor and destructor of   *)
(* RfidInterface, Reboot with its helper thread, and a command another     *)
(* thread of the application sends on the same interface.                  *)
(*                                                                         *)
(* Handler "main" is the interface's own; "boot" is the second connection, *)
(* to port 23, that RebootHelpThread makes and destroys.  start and stop   *)
(* are called by one thread at a time on a handler (the caller of Reboot   *)
(* waits for the helper), so the call in progress is svc[h].               *)
(*                                                                         *)
(* The io_service, and the reactor in it, live in the receiver thread: a   *)
(* stop that closes an open socket after that thread is over uses a        *)
(* reactor that was freed.  Undefined behaviour ends the behaviour with    *)
(* its name in fault, or, for the freed reactor, may also pass unseen.     *)
(***************************************************************************)
EXTENDS Integers, FiniteSets

CONSTANTS
    MaxOpens,      \* bound: RfidInterface objects made in one behaviour
    MaxReboots     \* bound: calls of Reboot in one behaviour

ASSUME BoundAssumption == MaxOpens \in Nat /\ MaxReboots \in Nat

Handlers == {"main", "boot"}

VARIABLES
    device,        \* ReaderSettings::type
    app,           \* where the thread that owns the interface is
    helper,        \* where RebootHelpThread is
    svc,           \* per handler: the start or stop in progress
    started,       \* per handler: its last start returned true, no stop since
    joinable,      \* per handler: receive_thread.joinable()
    thread_ready,  \* per handler
    ec,            \* per handler: the error_code in the starter's frame
    recv,          \* per handler: where the receiver thread is
    sock,          \* per handler: asio_socket or asio_serial
    client,        \* the other thread: idle, or in CmdHandler::send
    told,          \* what the last Reboot returned or "threw", "nothing" before
    opens,         \* objects made
    reboots,       \* calls of Reboot
    met,           \* history: the mishaps of this behaviour
    fault          \* "none", or how the process ended

handlerVars == <<svc, started, joinable, thread_ready, ec, recv, sock>>
callers == <<device, app, helper, client, told, opens, reboots>>
vars == <<handlerVars, callers, met, fault>>

Svc == {"idle", "spin", "shutdown", "closing", "joining"}
Recv == {"none", "new", "connecting", "connected", "ready", "reading",
         "ending", "done"}
Sock == {"null", "fresh", "failed", "up", "lost", "shut", "closed"}
App == {"none", "starting", "open", "rebooting", "stopping", "destroying"}
Helper == {"none", "stop", "stopping", "boot", "booting", "send", "sent",
           "waiting", "answered", "bootStop", "restart", "restarting",
           "bootDestroy", "bootGone", "over"}
Mishaps == {"refused",     \* a connection was not made
            "lost",        \* a connection broke, or the reader closed it
            "no thread",   \* std::thread could not be made
            "options",     \* a serial port without those options
            "stale ec",    \* the error code was read in a frame left behind
            "overlap"}     \* a command was sent while Reboot was at work
Faults == {"none", "terminate", "null pointer", "freed reactor",
           "socket replaced"}

\* The socket is open: the reactor knows its descriptor.
IsOpen(h) == sock[h] \in {"up", "lost", "shut", "failed"}

Put(f, h, v) == [f EXCEPT ![h] = v]

Init ==
    /\ device \in {"SOCKET", "SERIAL"}
    /\ app = "none" /\ helper = "none" /\ client = "idle"
    /\ svc = [h \in Handlers |-> "idle"]
    /\ started = [h \in Handlers |-> FALSE]
    /\ joinable = [h \in Handlers |-> FALSE]
    /\ thread_ready = [h \in Handlers |-> FALSE]
    /\ ec = [h \in Handlers |-> "ok"]
    /\ recv = [h \in Handlers |-> "none"]
    /\ sock = [h \in Handlers |-> "null"]
    /\ told = "nothing" /\ opens = 0 /\ reboots = 0
    /\ met = {} /\ fault = "none"

Alive == fault = "none"

Note(what) == met' = met \union {what}

-----------------------------------------------------------------------------
(* start_recv_thread_with_socket and start_recv_thread_with_serial *)

MayStart(h) == ~joinable[h]

\* The first part, as the caller makes it: the refusal of a second start, or
\* the new thread; std::thread may throw, which start catches.
StartCall(h) ==
    /\ Alive /\ svc[h] = "idle"
    /\ IF MayStart(h)
       THEN \/ /\ svc' = Put(svc, h, "spin")
               /\ recv' = Put(recv, h, "new")
               /\ joinable' = Put(joinable, h, TRUE)
               /\ started' = Put(started, h, FALSE)
               /\ UNCHANGED met
            \/ /\ started' = Put(started, h, FALSE)
               /\ Note("no thread")
               /\ UNCHANGED <<svc, recv, joinable>>
       ELSE /\ started' = Put(started, h, FALSE)
            /\ UNCHANGED <<svc, recv, joinable, met>>
    /\ thread_ready' = IF MayStart(h) THEN Put(thread_ready, h, FALSE)
                       ELSE thread_ready
    /\ ec' = Put(ec, h, "ok")
    /\ UNCHANGED <<sock, fault>>

EcIgnoredSlip(h) ==
    /\ Alive /\ svc[h] = "spin" /\ thread_ready[h]
    /\ started' = Put(started, h, TRUE)
    /\ svc' = Put(svc, h, "idle")
    /\ UNCHANGED <<joinable, thread_ready, ec, recv, sock, callers, met, fault>>

\* The starter sees thread_ready and returns; its frame, with ec, is gone.
StartReturns(h) ==
    /\ Alive /\ svc[h] = "spin" /\ thread_ready[h]
    /\ started' = Put(started, h, ec[h] = "ok")
    /\ svc' = Put(svc, h, "idle")
    /\ UNCHANGED <<joinable, thread_ready, ec, recv, sock, callers, met, fault>>

FrameAlive(h) == svc[h] = "spin"

-----------------------------------------------------------------------------
(* The receiver: reply_thread_func *)

Receiver(h, from) == Alive /\ recv[h] = from

\* asio_socket = make_shared(...), while another thread may be using it.
NewSocket(h) ==
    /\ Receiver(h, "new") /\ device = "SOCKET"
    /\ recv' = Put(recv, h, "connecting")
    /\ sock' = Put(sock, h, "fresh")
    /\ fault' = IF h = "main" /\ client = "sending" THEN "socket replaced"
                ELSE fault
    /\ UNCHANGED <<svc, started, joinable, thread_ready, ec, callers, met>>

Connect(h) ==
    /\ Receiver(h, "connecting")
    /\ recv' = Put(recv, h, "connected")
    /\ \/ sock' = Put(sock, h, "up") /\ UNCHANGED <<ec, met>>
       \/ /\ sock' = Put(sock, h, "failed")
          /\ ec' = Put(ec, h, "error")
          /\ Note("refused")
    /\ UNCHANGED <<svc, started, joinable, thread_ready, callers, fault>>

ReportReadySlip(h) ==
    /\ Receiver(h, "connected") /\ ec[h] = "ok"
    /\ thread_ready' = Put(thread_ready, h, TRUE)
    /\ recv' = Put(recv, h, "ready")
    /\ UNCHANGED <<svc, started, joinable, ec, sock, callers, met, fault>>

ReportReady(h) ==
    /\ Receiver(h, "connected")
    /\ thread_ready' = Put(thread_ready, h, TRUE)
    /\ recv' = Put(recv, h, "ready")
    /\ UNCHANGED <<svc, started, joinable, ec, sock, callers, met, fault>>

\* ec_ptr->value(): the starter may have returned, and anything is there.
TestError(h) ==
    /\ Receiver(h, "ready")
    /\ IF FrameAlive(h)
       THEN /\ recv' = Put(recv, h, IF ec[h] = "ok" THEN "reading"
                                    ELSE "ending")
            /\ UNCHANGED met
       ELSE /\ \E next \in {"reading", "ending"} : recv' = Put(recv, h, next)
            /\ Note("stale ec")
    /\ UNCHANGED <<svc, started, joinable, thread_ready, ec, sock, callers,
                   fault>>

\* reply_thread_func_serial: open, options, read, report.  Where open fails
\* the thread returns without reporting.
OpenSerial(h) ==
    /\ Receiver(h, "new") /\ device = "SERIAL"
    /\ \/ /\ sock' = Put(sock, h, "up")
          /\ recv' = Put(recv, h, "reading")
          /\ thread_ready' = Put(thread_ready, h, TRUE)
          /\ UNCHANGED <<ec, met, fault>>
       \/ /\ sock' = Put(sock, h, "fresh")
          /\ recv' = Put(recv, h, "ending")
          /\ ec' = Put(ec, h, "error")
          /\ Note("refused")
          /\ UNCHANGED <<thread_ready, fault>>
       \/ /\ fault' = "terminate"
          /\ Note("options")
          /\ UNCHANGED <<sock, recv, thread_ready, ec>>
    /\ UNCHANGED <<svc, started, joinable, callers>>

\* The pending read completes with an error: the callback asks for no more,
\* and run() is out of work.  A socket that was never connected fails so too.
ReadFails(h) ==
    /\ Receiver(h, "reading") /\ sock[h] # "up"
    /\ recv' = Put(recv, h, "ending")
    /\ UNCHANGED <<svc, started, joinable, thread_ready, ec, sock, callers, met,
                   fault>>

\* The thread function returns: the io_service is destroyed.
ReceiverEnds(h) ==
    /\ Receiver(h, "ending")
    /\ recv' = Put(recv, h, "done")
    /\ UNCHANGED <<svc, started, joinable, thread_ready, ec, sock, callers, met,
                   fault>>

\* The reader closes the connection, or the network does.
LinkLost(h) ==
    /\ Alive /\ sock[h] = "up"
    /\ sock' = Put(sock, h, "lost")
    /\ Note("lost")
    /\ UNCHANGED <<svc, started, joinable, thread_ready, ec, recv, callers,
                   fault>>

-----------------------------------------------------------------------------
(* stop_recv_thread *)

\* Waiting for the thread before its read is made to fail.
JoinFirstSlip(h) ==
    /\ Alive /\ svc[h] = "idle"
    /\ IF sock[h] = "null" \/ recv[h] = "reading"
       THEN /\ svc' = Put(svc, h, "joining")
            /\ UNCHANGED fault
       ELSE /\ svc' = Put(svc, h, "shutdown")
            /\ UNCHANGED fault
    /\ UNCHANGED <<started, joinable, thread_ready, ec, recv, sock, met>>

\* The pointer is null when no thread ever made a socket.
StopCall(h) ==
    /\ Alive /\ svc[h] = "idle"
    /\ IF sock[h] = "null"
       THEN fault' = "null pointer" /\ UNCHANGED svc
       ELSE /\ svc' = Put(svc, h, IF device = "SOCKET" THEN "shutdown"
                                  ELSE "closing")
            /\ UNCHANGED fault
    /\ UNCHANGED <<started, joinable, thread_ready, ec, recv, sock, met>>

Shutdown(h) ==
    /\ Alive /\ svc[h] = "shutdown"
    /\ sock' = Put(sock, h, IF sock[h] \in {"up", "lost"} THEN "shut"
                            ELSE sock[h])
    /\ svc' = Put(svc, h, "closing")
    /\ UNCHANGED <<started, joinable, thread_ready, ec, recv, callers, met,
                   fault>>

CloseSocket(h) ==
    /\ Alive /\ svc[h] = "closing"
    /\ \/ /\ sock' = Put(sock, h, "closed")
          /\ svc' = Put(svc, h, "joining")
          /\ UNCHANGED fault
       \/ /\ IsOpen(h) /\ recv[h] = "done"
          /\ fault' = "freed reactor"
          /\ UNCHANGED <<sock, svc>>
    /\ UNCHANGED <<started, joinable, thread_ready, ec, recv, callers, met>>

\* join; of a thread that is not joinable it throws, which stop catches.
JoinedSlip(h) == TRUE
Joined(h) == ~joinable[h] \/ recv[h] = "done"

Join(h) ==
    /\ Alive /\ svc[h] = "joining" /\ Joined(h)
    /\ joinable' = Put(joinable, h, FALSE)
    /\ started' = Put(started, h, FALSE)
    /\ svc' = Put(svc, h, "idle")
    /\ UNCHANGED <<thread_ready, ec, recv, sock, callers, met, fault>>

-----------------------------------------------------------------------------
(* The interface's own thread *)

\* The constructor; RFOpen catches what it throws.
Construct ==
    /\ app = "none" /\ opens < MaxOpens
    /\ StartCall("main")
    /\ app' = "starting" /\ opens' = opens + 1
    /\ UNCHANGED <<device, helper, client, told, reboots>>

Constructed ==
    /\ Alive /\ app = "starting" /\ svc["main"] = "idle" /\ started["main"]
    /\ app' = "open"
    /\ UNCHANGED <<handlerVars, device, helper, client, told, opens, reboots,
                   met, fault>>

\* connection error: the members are destroyed, ~CmdHandler stops.
ConstructorThrows ==
    /\ app = "starting" /\ svc["main"] = "idle" /\ ~started["main"]
    /\ StopCall("main")
    /\ app' = "destroying"
    /\ UNCHANGED <<device, helper, client, told, opens, reboots>>

\* ~RfidInterface stops the service, and then its members are destroyed.  No
\* other thread may use an interface that is being destroyed.
Destruct ==
    /\ app = "open" /\ client = "idle"
    /\ StopCall("main")
    /\ app' = "stopping"
    /\ UNCHANGED <<device, helper, client, told, opens, reboots>>

DestroyMembers ==
    /\ app = "stopping"
    /\ StopCall("main")
    /\ app' = "destroying"
    /\ UNCHANGED <<device, helper, client, told, opens, reboots>>

\* The handler is gone; a next object has one of its own.
Gone(h) ==
    /\ started' = Put(started, h, FALSE)
    /\ joinable' = Put(joinable, h, FALSE)
    /\ thread_ready' = Put(thread_ready, h, FALSE)
    /\ ec' = Put(ec, h, "ok")
    /\ recv' = Put(recv, h, "none")
    /\ sock' = Put(sock, h, "null")
    /\ UNCHANGED svc

Destroyed ==
    /\ Alive /\ app = "destroying" /\ svc["main"] = "idle"
    /\ Gone("main")
    /\ app' = "none" /\ told' = "nothing"
    /\ UNCHANGED <<device, helper, client, opens, reboots, met, fault>>

\* Reboot: a serial reader is refused, else the helper is started.  Where
\* std::thread cannot make it, what it throws leaves Reboot before anything
\* else was done.
Reboot ==
    /\ Alive /\ app = "open" /\ reboots < MaxReboots
    /\ reboots' = reboots + 1
    /\ \/ /\ device = "SOCKET"
          /\ app' = "rebooting" /\ helper' = "stop" /\ UNCHANGED told
          /\ IF client = "sending" THEN Note("overlap") ELSE UNCHANGED met
       \/ /\ device = "SOCKET" /\ told' = "threw"
          /\ UNCHANGED <<app, helper, met>>
       \/ /\ device # "SOCKET" /\ told' = "RFID_ERR_CMD_DEVICE_NOT_SUPPORT"
          /\ UNCHANGED <<app, helper, met>>
    /\ UNCHANGED <<handlerVars, device, client, opens, fault>>

NotAwaitedSlip ==
    /\ Alive /\ app = "rebooting"
    /\ app' = "open" /\ told' = "RFID_OK"
    /\ UNCHANGED <<handlerVars, device, helper, client, opens, reboots, met,
                   fault>>

\* After its count down the caller joins the helper.
RebootReturns ==
    /\ Alive /\ app = "rebooting" /\ helper = "over"
    /\ app' = "open" /\ helper' = "none" /\ told' = "RFID_OK"
    /\ UNCHANGED <<handlerVars, device, client, opens, reboots, met, fault>>

-----------------------------------------------------------------------------
(* RebootHelpThread *)

HelperStep(from, to) ==
    /\ Alive /\ helper = from
    /\ helper' = to
    /\ UNCHANGED <<device, app, client, told, opens, reboots>>

StopMain == HelperStep("stop", "stopping") /\ StopCall("main")

BootStartSlip == HelperStep("boot", "booting")
                 /\ UNCHANGED <<handlerVars, met, fault>>
BootStart == HelperStep("boot", "booting") /\ StartCall("boot")

MainStartSlip == HelperStep("restart", "restarting")
                 /\ UNCHANGED <<handlerVars, met, fault>>
MainStart == HelperStep("restart", "restarting") /\ StartCall("main")

BootStop == HelperStep("answered", "bootStop") /\ StopCall("boot")

BootDestroy == HelperStep("bootDestroy", "bootGone") /\ StopCall("boot")

BootGone ==
    /\ HelperStep("bootGone", "over") /\ svc["boot"] = "idle"
    /\ Gone("boot")
    /\ UNCHANGED <<met, fault>>

\* The helper waits for the start or stop it made to return, and ignores what
\* a start returned.
HelperGoesOn ==
    /\ \/ HelperStep("stopping", "boot") /\ svc["main"] = "idle"
       \/ HelperStep("booting", "send") /\ svc["boot"] = "idle"
       \/ HelperStep("bootStop", "restart") /\ svc["boot"] = "idle"
       \/ HelperStep("restarting", "bootDestroy") /\ svc["main"] = "idle"
    /\ UNCHANGED <<handlerVars, met, fault>>

\* CmdHandler::send on handler h: it throws unless the connection is up; on
\* one that was lost it may still go through.
SendWorks(h) == sock[h] \in {"up", "lost"}
SendThrows(h) == sock[h] \notin {"up", "null"}

\* bootConnQueue.send(bootCmd1): the observer is attached, the bytes go out.
\* An exception leaves the thread function and ends the process; where the
\* boot connection never had a thread there is no socket to send on.
BootSend ==
    \/ /\ HelperStep("send", "sent") /\ SendWorks("boot")
       /\ UNCHANGED <<handlerVars, met, fault>>
    \/ /\ HelperStep("send", "send") /\ SendThrows("boot")
       /\ fault' = "terminate"
       /\ UNCHANGED <<handlerVars, met>>
    \/ /\ HelperStep("send", "send") /\ sock["boot"] = "null"
       /\ fault' = "null pointer"
       /\ UNCHANGED <<handlerVars, met>>

\* SendSyncObserver::wait, with no predicate and no watch dog.
BootWait ==
    /\ HelperStep("sent", "waiting")
    /\ UNCHANGED <<handlerVars, met, fault>>

\* A packet from the boot connection: update() notifies whoever waits, and
\* the helper sends bootCmd2.  One that comes before the wait wakes nobody and
\* leaves no trace: that is a stuttering step.
BootAnswer ==
    /\ recv["boot"] = "reading" /\ sock["boot"] = "up"
    /\ HelperStep("waiting", "answered")
    /\ UNCHANGED <<handlerVars, met, fault>>

\* send_no_wait(bootCmd2) may throw too.
SecondSendThrows ==
    /\ HelperStep("answered", "answered") /\ SendThrows("boot")
    /\ fault' = "terminate"
    /\ UNCHANGED <<handlerVars, met>>

-----------------------------------------------------------------------------
(* A command of another thread, on the main handler *)

SendBegins ==
    /\ Alive /\ app \in {"open", "rebooting"} /\ client = "idle"
    /\ client' = "sending"
    /\ IF app = "rebooting" THEN Note("overlap") ELSE UNCHANGED met
    /\ UNCHANGED <<handlerVars, device, app, helper, told, opens, reboots,
                   fault>>

\* Where send throws, the command is unwound with its watch dog thread still
\* running, which ends the process.
SendEnds ==
    /\ Alive /\ client = "sending"
    /\ client' = "idle"
    /\ \/ SendWorks("main") /\ UNCHANGED fault
       \/ SendThrows("main") /\ fault' = "terminate"
    /\ UNCHANGED <<handlerVars, device, app, helper, told, opens, reboots, met>>

-----------------------------------------------------------------------------
ReceiverStep(h) ==
    \/ NewSocket(h) \/ Connect(h) \/ ReportReady(h) \/ TestError(h)
    \/ OpenSerial(h) \/ ReadFails(h) \/ ReceiverEnds(h)

ServiceStep(h) ==
    StartReturns(h) \/ Shutdown(h) \/ CloseSocket(h) \/ Join(h)

\* What the owner must go on with once it began.
OwnerStep ==
    \/ Constructed \/ ConstructorThrows \/ DestroyMembers \/ Destroyed
    \/ RebootReturns

HelperThread ==
    \/ StopMain \/ BootStart \/ MainStart \/ BootStop \/ BootDestroy
    \/ BootGone \/ HelperGoesOn \/ BootSend \/ BootWait \/ SecondSendThrows

Next ==
    \/ \E h \in Handlers : ReceiverStep(h) \/ ServiceStep(h) \/ LinkLost(h)
    \/ Construct \/ Destruct \/ Reboot \/ OwnerStep
    \/ HelperThread \/ BootAnswer
    \/ SendBegins \/ SendEnds

Spec == Init /\ [][Next]_vars

\* Every thread goes on while it can; connect and open come to an end.  The
\* reader need not answer, and nobody must call anything.
Fairness ==
    /\ \A h \in Handlers : /\ WF_vars(ReceiverStep(h))
                           /\ WF_vars(ServiceStep(h))
    /\ WF_vars(OwnerStep)
    /\ WF_vars(HelperThread)

FairSpec == Spec /\ Fairness

-----------------------------------------------------------------------------
(* Properties *)

\* Every variable keeps its type, and there is a helper exactly while the
\* owner is in Reboot.
TypeOK ==
    /\ device \in {"SOCKET", "SERIAL"}
    /\ app \in App /\ helper \in Helper /\ client \in {"idle", "sending"}
    /\ svc \in [Handlers -> Svc]
    /\ started \in [Handlers -> BOOLEAN] /\ joinable \in [Handlers -> BOOLEAN]
    /\ thread_ready \in [Handlers -> BOOLEAN]
    /\ ec \in [Handlers -> {"ok", "error"}]
    /\ recv \in [Handlers -> Recv] /\ sock \in [Handlers -> Sock]
    /\ told \in {"nothing", "RFID_OK", "threw",
                 "RFID_ERR_CMD_DEVICE_NOT_SUPPORT"}
    /\ opens \in 0..MaxOpens /\ reboots \in 0..MaxReboots
    /\ met \in SUBSET Mishaps /\ fault \in Faults
    /\ helper # "none" <=> app = "rebooting"

\* A handler has one receiver thread at most, whoever starts and stops it: a
\* new one is made, and the handler is destroyed, only when the last is over.
\* (Two would share buffer and receive_buffer; std::thread, destroyed while
\* its thread runs, ends the process.)
OneReceiver ==
    [][\A h \in Handlers :
          recv'[h] # recv[h] /\ recv'[h] \in {"new", "none"} =>
              recv[h] \in {"none", "done"}]_vars

\* A start that returned true left a connection with a receiver on it, until
\* the link breaks or the service is stopped; the exception is the error code
\* the receiver may read after the starter's frame is gone.
StartTruthful ==
    \A h \in Handlers :
        started[h] /\ svc[h] = "idle" =>
            /\ sock[h] \in {"up", "lost"}
            /\ \/ recv[h] \in {"ready", "reading"}
               \/ sock[h] = "lost" \/ "stale ec" \in met

\* The process ends only after a mishap that can end it: a socket is replaced
\* under a command only when the command overlaps Reboot, a null pointer is
\* used only where a thread could not be made, and what terminate() is called
\* for never happens with every connection up and commands kept off Reboot.
FaultHasCause ==
    /\ fault = "null pointer" => "no thread" \in met
    /\ fault = "socket replaced" => "overlap" \in met
    /\ fault = "terminate" => met \ {"stale ec"} # {}

\* A Reboot that met no failure leaves the interface connected, with its
\* receiver reading, as it was before (RFID_OK alone does not say so).
RebootRestores ==
    app = "open" /\ told = "RFID_OK" /\ met \subseteq {"overlap"} =>
        /\ started["main"] /\ sock["main"] = "up"
        /\ recv["main"] \in {"ready", "reading"}
        /\ recv["boot"] = "none"

\* Every start and every stop returns, but for a start on a serial port that
\* cannot be opened: its receiver is over and the starter sleeps for ever.
CallsEnd ==
    \A h \in Handlers :
        <>[](Alive /\ svc[h] # "idle") =>
            <>[](device = "SERIAL" /\ svc[h] = "spin" /\ recv[h] = "done")

\* There is one place where Reboot can stay for ever: the wait for the boot
\* connection's answer.
RebootEnds ==
    <>[](Alive /\ app = "rebooting") => <>[](helper = "waiting")
=============================================================================
