----------------------------- MODULE PrintServer -----------------------------
(***************************************************************************)
(* dashprint with one printer: the single thread that runs the io_service  *)
(* (src/main.cpp) executes the handlers of Printer and the requests of the *)
(* REST API (src/api/PrintApi.cpp) one at a time, in whatever order they   *)
(* become ready, while timers expire and the printer, its firmware and     *)
(* the link to it do what they do.                                         *)
(***************************************************************************)
EXTENDS Firmware

CONSTANTS
    InitPath,       \* the printer's device path at the start
    Devices,        \* what may be found at the other end of the path
    MaxBacklog,     \* how many handlers may wait when a timer expires
    Budget          \* how often each kind of event, and all, may happen

Kinds == {"corrupt", "lose", "doubleOk", "fail", "reboot", "stall", "plug",
          "start", "stop", "settings", "path", "gcode", "temps", "poll",
          "submit", "resume", "pause", "cancel", "reset"}

Budgets == [Kinds \cup {"all"} -> Nat]

ASSUME BudgetAssumption == Budget \in Budgets
ASSUME ServerAssumption ==
    /\ InitPath \in Paths /\ MaxBacklog \in Nat
    /\ Devices \subseteq {"present", "absent", "refusing"}

VARIABLES
    printer,    \* the Printer and what the system holds for it
    fw,         \* the firmware's state
    printed,    \* the lines of the job the firmware has executed, in order
    left        \* how much of Budget is left

vars == << printer, fw, printed, left >>

Init ==
    /\ printer = NewPrinter(InitPath)
    /\ fw = PoweredUp
    /\ printed = << >>
    /\ left = Budget

Spend(kind) ==
    /\ left[kind] > 0 /\ left["all"] > 0
    /\ left' = [left EXCEPT ![kind] = @ - 1, !["all"] = @ - 1]

-----------------------------------------------------------------------------
(* The io_service runs the first ready handler. *)

Due(h) == printer.io # << >> /\ Head(printer.io).h = h
Taken == [printer EXCEPT !.io = Tail(@)]

RunHandler(h, result) ==
    /\ ~printer.halted
    /\ Due(h)
    /\ printer' = result
    /\ UNCHANGED << fw, printed, left >>

RunSend == RunHandler("send", Send(Taken, Head(printer.io).cmd))
RunReadDone == RunHandler("readOk", ReadDone(Taken))
RunReadError == RunHandler("readErr", LoseConnection(Taken))
RunWriteError == RunHandler("writeErr", LoseConnection(Taken))
RunConnected == RunHandler("connectOk", ConnectDone(Taken, TRUE))
RunConnectFailed == RunHandler("connectErr", ConnectDone(Taken, FALSE))
RunConnectTimeout == RunHandler("connTimeout", ConnectTimeout(Taken))
RunTimeoutCheck == RunHandler("check", TimeoutCheck(Taken))
RunReconnect == RunHandler("reconnect", DoConnect(Taken))
RunInitialize == RunHandler("init", Initialize(Taken))
RunGetTemperature == RunHandler("temp", GetTemperature(Taken))

RunIo ==
    \/ RunSend \/ RunReadDone \/ RunReadError \/ RunWriteError
    \/ RunConnected \/ RunConnectFailed \/ RunConnectTimeout
    \/ RunTimeoutCheck \/ RunReconnect \/ RunInitialize \/ RunGetTemperature

-----------------------------------------------------------------------------
(***************************************************************************)
(* Timers expire: the wait completes, its handler is ready.  The shortest  *)
(* wait is a second, and a handler takes far less: when a timer expires,   *)
(* at most MaxBacklog handlers that became ready before it still wait, and *)
(* none of them is left from the timer's last wait.                        *)
(***************************************************************************)
Timely(h) == Len(printer.io) <= MaxBacklog /\ ~Ready(printer, h)

ReconnectTimerExpires ==
    /\ printer.reconnectTimer # "idle" /\ Timely(printer.reconnectTimer)
    /\ printer' = [Post(printer, printer.reconnectTimer)
                     EXCEPT !.reconnectTimer = "idle"]
    /\ UNCHANGED << fw, printed, left >>

(* Something is on its way from or to the printer. *)
InTransit ==
    printer.tx # << >> \/ printer.wire # << >> \/ Ready(printer, "readOk")

(* Silence is measured from the last line or write. *)
CheckTimerExpires ==
    /\ printer.timeoutTimer = "check" /\ Timely("check")
    /\ printer' = [Post(printer, "check")
                     EXCEPT !.timeoutTimer = "idle",
                            !.quiet = IF InTransit \/ @ = QuietLimit THEN @
                                      ELSE @ + 1]
    /\ UNCHANGED << fw, printed, left >>

(* The printer takes longer than DATA_TIMEOUT over a command. *)
PrinterStalls ==
    /\ printer.timeoutTimer = "check" /\ Timely("check")
    /\ InTransit
    /\ Spend("stall")
    /\ printer' = [Post(printer, "check")
                     EXCEPT !.timeoutTimer = "idle", !.quiet = QuietLimit]
    /\ UNCHANGED << fw, printed >>

ConnectTimerExpires ==
    /\ printer.timeoutTimer = "connect" /\ Timely("connTimeout")
    /\ printer' = [Post(printer, "connTimeout") EXCEPT !.timeoutTimer = "idle"]
    /\ UNCHANGED << fw, printed, left >>

TemperatureTimerExpires ==
    /\ printer.tempTimer /\ Timely("temp")
    /\ Spend("poll")
    /\ printer' = [Post(printer, "temp") EXCEPT !.tempTimer = FALSE]
    /\ UNCHANGED << fw, printed >>

-----------------------------------------------------------------------------
(* The port and the link. *)

(* A read completes with the lines that have arrived. *)
LinesArrive ==
    /\ Writable(printer)
    /\ printer.reads > 0
    /\ \E k \in 1..Len(printer.wire) :
         printer' = [Post(printer, "readOk")
                       EXCEPT !.reads = @ - 1,
                              !.rx = @ \o SubSeq(printer.wire, 1, k),
                              !.wire = SubSeq(@, k + 1, Len(@))]
    /\ UNCHANGED << fw, printed, left >>

ReadFails ==
    /\ \/ printer.port = "dead"
       \/ printer.port = "stuck" /\ printer.device = "absent"
    /\ printer.reads > 0
    /\ printer' = [Post(printer, "readErr") EXCEPT !.reads = @ - 1]
    /\ UNCHANGED << fw, printed, left >>

(* The kernel establishes the TCP connection, and what waited is written. *)
Established ==
    /\ printer.port = "opening"
    /\ printer.device = "present"
    /\ printer' = [(IF printer.connecting THEN Post(printer, "connectOk")
                    ELSE printer)
                     EXCEPT !.port = "open", !.connecting = FALSE,
                            !.tx = @ \o printer.held, !.held = << >>]
    /\ UNCHANGED << fw, printed, left >>

(* It learns that it cannot. *)
Refused ==
    /\ printer.port = "opening"
    /\ printer.device # "present"
    /\ printer' = FailWaiting(
                     [(IF printer.connecting THEN Post(printer, "connectErr")
                       ELSE printer)
                        EXCEPT !.port = "refused", !.connecting = FALSE])
    /\ UNCHANGED << fw, printed, left >>

(* The device goes, comes back or starts to reject its settings. *)
Replug ==
    /\ Spend("plug")
    /\ \E d \in Devices \ {printer.device} :
         printer' = IF d # "absent" THEN [printer EXCEPT !.device = d]
                    ELSE [printer EXCEPT !.device = d, !.tx = << >>,
                            !.wire = << >>,
                            !.port = IF @ = "open" THEN "dead" ELSE @]
    /\ UNCHANGED << fw, printed >>

LoseFrame ==
    /\ printer.tx # << >>
    /\ Spend("lose")
    /\ printer' = [printer EXCEPT !.tx = Tail(@)]
    /\ UNCHANGED << fw, printed >>

-----------------------------------------------------------------------------
(* The firmware takes the next frame. *)

JobLine(text) == \E i \in DOMAIN JobFile : JobFile[i] = text

TakeFrame(lines) ==
    printer' = [Reply(printer, lines) EXCEPT !.tx = Tail(@)]

(* printed keeps at most one line more than the job has. *)
Execute(frame) ==
    /\ fw' = Executed(fw, frame)
    /\ printed' = IF JobLine(frame.text) /\ Len(printed) <= Len(JobFile)
                    THEN Append(printed, frame.text) ELSE printed

FirmwareExecutes ==
    /\ printer.tx # << >>
    /\ LET frame == Head(printer.tx)
       IN  IF InSequence(fw, frame)
             THEN /\ Execute(frame)
                  /\ TakeFrame(Acknowledgement(frame))
             ELSE /\ TakeFrame(Refusal(fw))
                  /\ UNCHANGED << fw, printed >>
    /\ UNCHANGED left

(* A frame arrives damaged; one without a checksum is an unknown command. *)
FrameCorrupted ==
    /\ printer.tx # << >>
    /\ Spend("corrupt")
    /\ TakeFrame(IF Head(printer.tx).n = NoLine THEN << Line("ok") >>
                 ELSE Refusal(fw))
    /\ UNCHANGED << fw, printed >>

(* A command is confirmed twice. *)
FirmwareOverconfirms ==
    /\ printer.tx # << >>
    /\ InSequence(fw, Head(printer.tx))
    /\ Spend("doubleOk")
    /\ Execute(Head(printer.tx))
    /\ TakeFrame(Acknowledgement(Head(printer.tx)) \o << Line("ok") >>)

(* A command fails with an error that is not about the transmission. *)
FirmwareFails ==
    /\ printer.tx # << >>
    /\ InSequence(fw, Head(printer.tx))
    /\ Spend("fail")
    /\ fw' = Executed(fw, Head(printer.tx))
    /\ TakeFrame(<< Line("error"), Line("ok") >>)
    /\ UNCHANGED printed

FirmwareReboots ==
    /\ Spend("reboot")
    /\ fw' = PoweredUp
    /\ printer' = [Reply(printer, << Line("start") >>) EXCEPT !.tx = << >>]
    /\ UNCHANGED printed

-----------------------------------------------------------------------------
(* Requests of the REST API, each a handler of its own. *)

Request(kind, result) ==
    /\ ~printer.halted
    /\ Spend(kind)
    /\ printer' = result
    /\ UNCHANGED fw

(* configurePrinterFromJson: "stopped", or any other setting. *)
StartPrinter ==
    /\ printer.state = "Stopped"
    /\ Request("start", Start(printer))
    /\ UNCHANGED printed

StopPrinter ==
    /\ printer.state # "Stopped"
    /\ Request("stop", Stop(printer))
    /\ UNCHANGED printed

ChangeSettings ==
    /\ Request("settings", DeviceSettingsChanged(printer))
    /\ UNCHANGED printed

ChangePath ==
    /\ \E path \in Paths \ {printer.path} :
         Request("path",
                 DeviceSettingsChanged([printer EXCEPT !.path = path]))
    /\ UNCHANGED printed

(* restSubmitGcode, with a command that printed tells from the job's *)
SubmitGcode ==
    /\ printer.state = "Connected"
    /\ \E text \in {u \in UserTexts : ~JobLine(u)} :
         Request("gcode", SendCommand(printer, text, "none"))
    /\ UNCHANGED printed

(* restSetPrinterTemperatures *)
SetTemperature ==
    /\ printer.state = "Connected"
    /\ Request("temps", SendCommand(printer, "M104", "client"))
    /\ UNCHANGED printed

(* restSubmitJob, which starts the job unless told not to *)
SubmitJob ==
    /\ printer.job.st \notin {"Running", "Paused"}
    /\ \E start \in BOOLEAN :
         /\ Request("submit", IF start THEN JobStart(SetPrintJob(printer))
                              ELSE SetPrintJob(printer))
         /\ printed' = << >>

(* restModifyJob *)
ResumeJob ==
    /\ printer.job.st \notin {"None", "Running"}
    /\ Request("resume", JobStart(printer))
    /\ printed' = IF printer.job.st = "Paused" THEN printed ELSE << >>

PauseJob ==
    /\ printer.job.st = "Running"
    /\ Request("pause", JobPause(printer))
    /\ UNCHANGED printed

CancelJob ==
    /\ printer.job.st \in {"Running", "Paused"}
    /\ Request("cancel", JobStop(printer))
    /\ UNCHANGED printed

(* restPrinterReset *)
ResetRequest ==
    /\ printer.state = "Error"
    /\ Request("reset", ResetPrinter(printer))
    /\ UNCHANGED printed

-----------------------------------------------------------------------------
Timers ==
    \/ ReconnectTimerExpires \/ CheckTimerExpires \/ ConnectTimerExpires
    \/ PrinterStalls \/ TemperatureTimerExpires

Link ==
    \/ LinesArrive \/ ReadFails \/ Established \/ Refused \/ Replug
    \/ LoseFrame

FirmwareStep ==
    \/ FirmwareExecutes \/ FrameCorrupted \/ FirmwareOverconfirms
    \/ FirmwareFails \/ FirmwareReboots

Requests ==
    \/ StartPrinter \/ StopPrinter \/ ChangeSettings \/ ChangePath
    \/ SubmitGcode \/ SetTemperature \/ SubmitJob \/ ResumeJob \/ PauseJob
    \/ CancelJob \/ ResetRequest

Next == RunIo \/ Timers \/ Link \/ FirmwareStep \/ Requests

Spec == Init /\ [][Next]_vars

(***************************************************************************)
(* The thread keeps running handlers, timers expire, and the kernel and    *)
(* the printer get to what is in transit.  Nothing else has to happen.     *)
(***************************************************************************)
Fairness ==
    /\ WF_vars(RunIo)
    /\ WF_vars(ReconnectTimerExpires)
    /\ WF_vars(CheckTimerExpires)
    /\ WF_vars(ConnectTimerExpires)
    /\ WF_vars(LinesArrive)
    /\ WF_vars(ReadFails)
    /\ WF_vars(Established)
    /\ WF_vars(Refused)
    /\ WF_vars(FirmwareExecutes)

FairSpec == Spec /\ Fairness

-----------------------------------------------------------------------------
(* Every field keeps its type; no line number exceeds MAX_LINENO. *)
TypeOK ==
    /\ printer \in Printers
    /\ fw \in Firmwares
    /\ printed \in Seq(Texts)
    /\ left \in Budgets

(***************************************************************************)
(* An open port always has a read outstanding or its completion ready, so  *)
(* no answer of the printer is left unread: every path through readDone    *)
(* ends in doRead or gives the port up.                                    *)
(***************************************************************************)
ListensOn(p) ==
    \/ p.reads > 0
    \/ Ready(p, "readOk")
    \/ Ready(p, "readErr")

Listening == printer.port \in {"open", "dead"} => ListensOn(printer)

(***************************************************************************)
(* An open port is under the watch of the timeout check: a printer that    *)
(* goes silent while a command is pending is noticed, although reset(),    *)
(* doConnect() and the check itself all stop the timer and start it anew.  *)
(***************************************************************************)
WatchedBy(p) == p.timeoutTimer = "check" \/ Ready(p, "check")

Watched == printer.port \in {"open", "dead"} => WatchedBy(printer)

(***************************************************************************)
(* A printer that is not stopped and has no connection is about to get     *)
(* one: a connect is under way, the timer that retries runs, or a handler  *)
(* that does either is ready.  The timer is shared with the wait for the   *)
(* printer to boot, and each of the two can cancel the other.              *)
(***************************************************************************)
Retries(p) ==
    \/ p.reconnectTimer = "reconnect"
    \/ p.connecting
    \/ \E h \in {"reconnect", "readErr", "writeErr", "connectErr",
                 "connectOk"} : Ready(p, h)

Maintained ==
    printer.state # "Stopped" /\ printer.port \notin {"open", "dead"} =>
        Retries(printer)

(***************************************************************************)
(* Over any link, a printer that is not stopped has a port that is read    *)
(* and watched, or is about to get one: a retry is coming, or a handler    *)
(* that reads again, which on a port that is gone fails and retries.  A    *)
(* connection that the timeout has given up and the kernel then            *)
(* establishes is not left open and deaf, nor is one whose timer another   *)
(* connect has taken.                                                      *)
(***************************************************************************)
Kept ==
    printer.state # "Stopped" =>
        \/ Retries(printer)
        \/ Ready(printer, "readOk")
        \/ /\ printer.port \in {"open", "dead"}
           /\ ListensOn(printer) /\ WatchedBy(printer)

(***************************************************************************)
(* A stopped printer holds neither the serial device nor a connection,     *)
(* whatever was ready to run when stop() was called.                       *)
(***************************************************************************)
Released == printer.state = "Stopped" => printer.port = "closed"

(***************************************************************************)
(* On a serial device, a command that is queued or held for in flight      *)
(* while the port is closed is not forgotten: the failed write whose       *)
(* handler will give it its answer is ready, in spite of the resets in     *)
(* between.  (Over TCP a write may wait for a connection, and the connect  *)
(* timeout ends it without a handler's noticing.)                          *)
(***************************************************************************)
Pending(p) == p.queue # << >> \/ p.executing # NoCommand

Doomed ==
    printer.port = "closed" /\ Pending(printer) => Ready(printer, "writeErr")

(***************************************************************************)
(* A running job has a line on its way whose callback sends the next one:  *)
(* no resend request, error, restart of the printer, lost connection or    *)
(* request leaves it Running with nothing that would ever continue it.     *)
(***************************************************************************)
Calls(p, cb) ==
    \/ \E i \in DOMAIN p.queue : p.queue[i].cb = cb
    \/ \E i \in DOMAIN p.io : p.io[i].cmd.cb = cb

JobAlive ==
    printer.job.st = "Running" /\ ~printer.halted => Calls(printer, "job")

(***************************************************************************)
(* The command in flight is the front of the queue, the one the next ok    *)
(* will pop: no handler that runs between the write and the ok puts a      *)
(* command in front of it or takes it away.  M110 may be the one that      *)
(* resets the line numbers and is not in the queue.  The error state has   *)
(* dropped its queue, and keeps the command until a write that failed has  *)
(* its handler run, although a reconnection may come first.                *)
(***************************************************************************)
InFlightIsFront ==
    printer.executing \notin {NoCommand, "M110"} =>
        \/ /\ printer.queue # << >>
           /\ Head(printer.queue).text = printer.executing
        \/ printer.state = "Error"
        \/ Ready(printer, "writeErr")

(***************************************************************************)
(* As long as the printer confirms each frame once and none gets lost, at  *)
(* most one frame or its confirmation is under way, and none when          *)
(* m_executingCommand is empty: the answers cannot be mixed up.            *)
(***************************************************************************)
Confirmations(lines) == Cardinality({i \in DOMAIN lines : lines[i].t = "ok"})
UnderWay(p) == Len(p.tx) + Confirmations(p.wire) + Confirmations(p.rx)

OneInFlight ==
    UnderWay(printer) <= IF printer.executing = NoCommand THEN 0 ELSE 1

(***************************************************************************)
(* Jobs do not overlap: a job is started or resumed when no line of one is *)
(* on its way any more, and one that was read past its end is not started  *)
(* again.  It is a hypothesis and not a promise: the requests do not see   *)
(* to it (README, "What the properties leave out on purpose").             *)
(***************************************************************************)
JobsApart ==
    SubmitJob \/ ResumeJob =>
        /\ ~Calls(printer, "job")
        /\ ResumeJob => printer.job.st = "Paused" \/ ~printer.job.ended

(***************************************************************************)
(* The firmware executes the lines of a job in the order of the file, each *)
(* once, although damaged frames are sent again and other commands are     *)
(* sent in between.                                                        *)
(***************************************************************************)
PrintedInOrder ==
    /\ Len(printed) <= Len(JobFile)
    /\ printed = SubSeq(JobFile, 1, Len(printed))

(* A job that is Done has had every line of its file executed. *)
DoneIsPrinted == printer.job.st = "Done" => printed = JobFile

(***************************************************************************)
(* A request to set temperatures counts its commands' callbacks down to    *)
(* know when it is done.  Each of them is called in the end, with a reply  *)
(* or with the empty one of a queue that is reset: after n requests there  *)
(* will have been n calls.                                                 *)
(***************************************************************************)
Asked == Budget["temps"] - left["temps"]

Answered ==
    \A n \in 1..Budget["temps"] :
        Asked >= n ~> printer.replies >= n \/ printer.halted

(* A running job does not run for ever. *)
JobEnds ==
    printer.job.st = "Running" ~>
        printer.job.st # "Running" \/ printer.halted

(***************************************************************************)
(* "Connect to the printer and maintain the connection": a started printer *)
(* whose device is there in the end gets connected for good, or stays in   *)
(* the error state that only a reset leaves.                               *)
(***************************************************************************)
Settles ==
    <>[](\/ printer.halted
         \/ printer.device # "present"
         \/ printer.state \in {"Connected", "Error", "Stopped"})

(***************************************************************************)
(* stop(): "Disconnect from the printer and unschedule from the            *)
(* io_service".  Only start() takes a printer out of Stopped.              *)
(***************************************************************************)
OnlyStartLeavesStopped ==
    [][printer.state = "Stopped" /\ printer'.state # "Stopped" =>
         left'["start"] < left["start"]]_vars

(***************************************************************************)
(* "Don't raise errors if there's a Resend before the following ok": as    *)
(* long as no command has failed, the printer is not in the error state.   *)
(***************************************************************************)
ResendIsNoError ==
    printer.state = "Error" => left["fail"] < Budget["fail"]

(***************************************************************************)
(* positioningState() is updated when a command is first written.  Frames  *)
(* are damaged, sent again from the history and answered later, and yet it *)
(* is the mode the printer is in whenever all commands are answered.       *)
(***************************************************************************)
ModeTracked ==
    printer.state = "Connected" /\ ~Pending(printer) =>
        printer.mode = fw.mode

(***************************************************************************)
(* "Restore the original positioning mode": by the time the next line of a *)
(* resumed job is written, the commands in front of it, those of the pause *)
(* sequence that still wait included, have brought the printer to the mode *)
(* that pause() saved.                                                     *)
(***************************************************************************)
Unwritten(p) ==
    (IF p.executing # NoCommand /\ p.queue # << >> THEN Tail(p.queue)
     ELSE p.queue)
      \o [i \in DOMAIN p.io |-> p.io[i].cmd]

ResumeRestoresMode ==
    [][printer.job.st = "Paused" /\ printer'.job.st = "Running" =>
         LET commands == Unwritten(printer')
             mode[i \in 0..(Len(commands) - 1)] ==
               IF i = 0 THEN printer.mode
               ELSE Positioned(mode[i - 1], commands[i].text)
         IN  mode[Len(commands) - 1] = printer.job.saved]_vars

(***************************************************************************)
(* A paused job goes on only when it is asked to.  The answer to the line  *)
(* that was in flight when it was paused comes later, and calls            *)
(* lineProcessed; so do the empty replies of a queue that is reset.        *)
(***************************************************************************)
PausedUntilResumed ==
    [][printer.job.st = "Paused" /\ printer'.job.st \in {"Running", "Done"} =>
         left'["resume"] < left["resume"]]_vars

(***************************************************************************)
(* Seen from outside, the printer, its protocol and the event loop         *)
(* implement the promise of PrintService: whatever frames are damaged and  *)
(* whatever is sent in between, each step prints the next line of the      *)
(* file, changes the job as a request may, or is not visible.              *)
(***************************************************************************)
Service == INSTANCE PrintService
             WITH File <- JobFile, st <- printer.job.st,
                  given <- printer.job.pos, printed <- printed

ImplementsService == Service!Spec
=============================================================================
