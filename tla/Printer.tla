------------------------------ MODULE Printer ------------------------------
(***************************************************************************)
(* Class Printer (src/Printer.cpp): keeping the connection to one 3D       *)
(* printer, sending it one command at a time and giving each reply to the  *)
(* command it answers.  Every operator is a method or a handler: it maps   *)
(* the Printer record to the one the method leaves, calls included.        *)
(***************************************************************************)
EXTENDS PrintJob, FiniteSets

HeatWait == {"M109", "M190"}

-----------------------------------------------------------------------------
(* States and the command queue. *)

(***************************************************************************)
(* Every queued command's callback is called with an empty reply.          *)
(* getTemperature's arms the temperature timer, the job's sends its next   *)
(* line, a request's counts; connected()'s does nothing with it.           *)
(***************************************************************************)
ResetQueueQuietly(p) ==
    [p EXCEPT !.resend = NoLine, !.pendingError = FALSE, !.queue = << >>]
ResetCommandQueue(p) ==
    LET with(cb) == {i \in DOMAIN p.queue : p.queue[i].cb = cb}
    IN  LinesProcessed(
          [p EXCEPT !.resend = NoLine, !.pendingError = FALSE,
                    !.queue = << >>,
                    !.tempTimer = @ \/ with("temp") # {},
                    !.replies = @ + Cardinality(with("client")),
                    !.halted = @ \/ with("stale") # {}],
          Cardinality(with("job")))

SetState(p, s) ==
    IF s = p.state THEN p
    ELSE [(IF s = "Error" THEN ResetCommandQueue(p) ELSE p)
            EXCEPT !.state = s]

(* Printer::raiseError: the job fails whatever state it is in. *)
RaiseError(p) ==
    LET r == ResetCommandQueue(p)
        e == SetState(r, "Error")
    IN  IF r.state = "Error" THEN r
        ELSE IF e.job.st # "None" THEN JobSetError(e)
        ELSE e

(***************************************************************************)
(* Printer::reset.  Closing the ports aborts what is outstanding on them:  *)
(* the handlers of the aborted reads and writes do nothing, the handler of *)
(* an aborted connect does.  Handlers that are ready already stay ready.   *)
(***************************************************************************)
Reset(p) ==
    LET closed == [p EXCEPT !.port = "closed", !.joined = FALSE,
                            !.reads = 0, !.held = << >>, !.wire = << >>,
                            !.connecting = FALSE,
                            !.io = IF p.connecting
                                     THEN Append(@, Handler("connectErr"))
                                     ELSE @]
    IN  ResetCommandQueue([CancelReconnect(closed)
                             EXCEPT !.timeoutTimer = "idle",
                                    !.executing = NoCommand])

-----------------------------------------------------------------------------
(* Reading and writing. *)

Readable(p) == p.port \in {"opening", "open", "dead", "stuck"}
Writable(p) == p.port \in {"open", "stuck"}

(* A line already in m_streamBuf completes the read without the port. *)
DoRead(p) ==
    IF p.rx # << >> THEN Post(p, "readOk")
    ELSE IF ~Readable(p) THEN Post(p, "readErr")
    ELSE [p EXCEPT !.reads = @ + 1]

UsesLineNumber(text) == text \notin {"M110", "M999"}

(* A tracker that leaves the extruder to M82 and M83. *)
AxesEffects(mode, text) ==
    CASE text = "G91" -> [mode EXCEPT !.rel = TRUE]
      [] text = "G90" -> [mode EXCEPT !.rel = FALSE]
      [] text = "M83" -> [mode EXCEPT !.erel = TRUE]
      [] text = "M82" -> [mode EXCEPT !.erel = FALSE]
      [] OTHER -> mode

(* Printer::processCommandEffects *)
CommandEffects(mode, text) ==
    CASE text = "G91" -> [rel |-> TRUE, erel |-> TRUE]
      [] text = "G90" -> [rel |-> FALSE, erel |-> FALSE]
      [] text = "M83" -> [mode EXCEPT !.erel = TRUE]
      [] text = "M82" -> [mode EXCEPT !.erel = FALSE]
      [] OTHER -> mode

(* push_back on m_resendHistory, bounded by MAX_RESEND_HISTORY. *)
Remember(history, entry) ==
    IF Len(history) < HistoryLimit THEN Append(history, entry)
    ELSE Append(Tail(history), entry)

(* doWrite has something to write, and no command is in flight. *)
MayWriteAnyway(p) == p.queue # << >>
MayWrite(p) == p.executing = NoCommand /\ p.queue # << >>

(* A frame numbered MAX_LINENO is never sent. *)
NumbersUsedUpLate(p) == p.lineNo > MaxLineNo
NumbersUsedUp(p) == p.lineNo >= MaxLineNo

(***************************************************************************)
(* The bytes of a frame reach the kernel at once, or the write fails; on a *)
(* socket that is being connected it waits behind the connect.             *)
(***************************************************************************)
TransmitUnchecked(p, frame) ==
    [p EXCEPT !.executing = frame.text, !.resend = NoLine, !.quiet = 0,
              !.tx = IF Writable(p) THEN Append(@, frame) ELSE @]
Transmit(p, frame) ==
    LET q == [p EXCEPT !.executing = frame.text, !.resend = NoLine,
                       !.quiet = 0]
    IN  IF Writable(p) THEN [q EXCEPT !.tx = Append(@, frame)]
        ELSE IF p.port = "opening" THEN [q EXCEPT !.held = Append(@, frame)]
        ELSE Post(q, "writeErr")

(***************************************************************************)
(* The front of the queue is written and stays there until it is answered. *)
(* Once the line numbers are used up, an M110 that is not in the queue     *)
(* resets the printer's line counter first.                                *)
(***************************************************************************)
DoWrite(p) ==
    LET text == Head(p.queue).text
        numbered == UsesLineNumber(text)
    IN  IF ~MayWrite(p) THEN p
        ELSE IF NumbersUsedUp(p)
          THEN Transmit([p EXCEPT !.lineNo = 0],
                        [n |-> NoLine, text |-> "M110"])
        ELSE Transmit(
               [p EXCEPT !.mode = CommandEffects(@, text),
                         !.lineNo = IF numbered THEN @ + 1 ELSE @,
                         !.history =
                            IF numbered
                              THEN Remember(@, [line |-> p.lineNo,
                                                text |-> text])
                              ELSE @],
               [n |-> IF numbered THEN p.lineNo ELSE NoLine, text |-> text])

(* The handler sendCommand posts. *)
Send(p, cmd) == DoWrite([p EXCEPT !.queue = Append(@, cmd)])

-----------------------------------------------------------------------------
(* Connecting. *)

(***************************************************************************)
(* Printer::connected.  The wait for the printer to boot shares the timer  *)
(* of the reconnection.                                                    *)
(***************************************************************************)
Connected(p) ==
    ArmReconnect(
      SetupTimeoutCheck(
        [DoRead(SetState(p, "Initializing")) EXCEPT !.quiet = 0]),
      "init")

(* The serial branch of doConnect; open() throws if the port is open. *)
OpenSerialOnce(p) ==
    IF p.port # "closed" \/ p.device = "absent" THEN p
    ELSE IF p.device = "refusing" THEN [p EXCEPT !.port = "stuck"]
    ELSE Connected([p EXCEPT !.port = "open"])
OpenSerial(p) ==
    IF p.port # "closed" \/ p.device = "absent" THEN SetupReconnect(p)
    ELSE IF p.device = "refusing"
      THEN SetupReconnect([p EXCEPT !.port = "stuck"])
    ELSE Connected([p EXCEPT !.port = "open"])

(* The reads and writes that wait for a connection fail with it. *)
FailWaiting(p) ==
    [p EXCEPT !.reads = 0, !.held = << >>,
              !.io = @ \o [i \in DOMAIN p.held |-> Handler("writeErr")]
                       \o [i \in 1..p.reads |-> Handler("readErr")]]

(***************************************************************************)
(* The TCP branch.  Only a closed socket starts to connect.  On one that   *)
(* asio has given up but the kernel has since connected, the next          *)
(* connect() succeeds, and any later one fails with EISCONN; while the     *)
(* kernel still tries, it fails with EALREADY; on one that was refused or  *)
(* reset it fails, and leaves the socket as good as new.  A connect that   *)
(* completes at once has its handler cancel the timer long before the 5    *)
(* seconds are over: the timer counts as idle.                             *)
(***************************************************************************)
OpenSocket(p) ==
    LET q == [p EXCEPT !.timeoutTimer = "idle"]
    IN  IF p.port = "closed"
          THEN [p EXCEPT !.port = "opening", !.connecting = TRUE,
                         !.timeoutTimer = "connect"]
        ELSE IF p.port = "open" /\ ~p.joined
          THEN Post([q EXCEPT !.joined = TRUE], "connectOk")
        ELSE IF p.port = "refused" \/ (p.port = "dead" /\ ~p.joined)
          THEN FailWaiting([Post(q, "connectErr") EXCEPT !.port = "closed"])
        ELSE Post(q, "connectErr")

DoConnectAlways(p) ==
    IF p.path = "serial" THEN OpenSerial(p) ELSE OpenSocket(p)
DoConnect(p) ==
    IF p.state = "Stopped" THEN p
    ELSE IF p.path = "serial" THEN OpenSerial(p)
    ELSE OpenSocket(p)

(* The completion of async_connect. *)
ConnectDoneOnce(p, ok) ==
    LET q == [p EXCEPT !.timeoutTimer = "idle"]
    IN  IF ok THEN Connected(q) ELSE q
ConnectDone(p, ok) ==
    LET q == [p EXCEPT !.timeoutTimer = "idle"]
    IN  IF ok THEN Connected(q) ELSE SetupReconnect(q)

(***************************************************************************)
(* The handler of the connect timeout: m_socket.cancel() and a retry.  The *)
(* handlers of the reads and writes that it aborts do nothing.             *)
(***************************************************************************)
ConnectTimeout(p) ==
    SetupReconnect(
      IF p.path = "tcp"
        THEN [p EXCEPT !.connecting = FALSE, !.reads = 0, !.held = << >>,
                       !.io = IF p.connecting
                                THEN Append(@, Handler("connectErr")) ELSE @]
        ELSE p)

LoseConnection(p) == DoConnect(Reset(SetState(p, "Disconnected")))

TimeoutCheckOnce(p) ==
    IF p.queue # << >> /\ p.quiet >= QuietLimit THEN LoseConnection(p) ELSE p
TimeoutCheck(p) ==
    IF p.queue # << >> /\ p.quiet >= QuietLimit THEN LoseConnection(p)
    ELSE SetupTimeoutCheck(p)

(* The handler connected() leaves on the reconnect timer. *)
Initialize(p) ==
    DoWrite(SendCommand([SendCommand(p, "M110", "none") EXCEPT !.lineNo = 1],
                        "M115", "info"))

GetTemperature(p) ==
    IF p.state = "Connected" THEN SendCommand(p, "M105", "temp") ELSE p

ShowStartupMessage(p) == SendCommand(p, "M117", "none")

-----------------------------------------------------------------------------
(* What the printer says. *)

(* The callback of the front command, with a reply; then the pop. *)
Answer(p) ==
    LET cb == Head(p.queue).cb
        called ==
          CASE cb = "info" -> GetTemperature(
                                ShowStartupMessage(SetState(p, "Connected")))
            [] cb = "temp" -> [p EXCEPT !.tempTimer = TRUE]
            [] cb = "client" -> [p EXCEPT !.replies = @ + 1]
            [] cb = "job" -> LinesProcessed(p, 1)
            [] cb = "stale" -> [p EXCEPT !.halted = TRUE]
            [] OTHER -> p
    IN  IF p.queue = << >> THEN p ELSE [called EXCEPT !.queue = Tail(@)]

(* The lines to send again: the last is still the front of the queue. *)
ResendWithLast(history, start) ==
    [i \in 1..(Len(history) - start + 1) |->
       [text |-> history[start + i - 1].text, cb |-> "none"]]
ResendLines(history, start) ==
    [i \in 1..(Len(history) - start) |->
       [text |-> history[start + i - 1].text, cb |-> "none"]]

(***************************************************************************)
(* Printer::handleResend: the lines from the requested one on go in front  *)
(* of the queue and lose their place in the history.                       *)
(***************************************************************************)
HandleResend(p, line) ==
    LET at == {i \in DOMAIN p.history : p.history[i].line = line}
        start == CHOOSE i \in at : \A j \in at : i <= j
    IN  IF p.lineNo = line THEN p
        ELSE IF at = {} THEN RaiseError(p)
        ELSE [p EXCEPT !.queue = ResendLines(p.history, start) \o @,
                       !.history = SubSeq(@, 1, start - 1),
                       !.lineNo = line]

FirstResend(lines) ==
    LET at == {i \in DOMAIN lines : lines[i].t = "resend"}
    IN  IF at = {} THEN NoLine
        ELSE lines[CHOOSE i \in at : \A j \in at : i <= j].n

(* The end of the ok branch of readDone. *)
NextCommandUnread(p) ==
    DoWrite([p EXCEPT !.resend = NoLine, !.executing = NoCommand])
NextCommandBusy(p) == DoRead(DoWrite([p EXCEPT !.resend = NoLine]))
NextCommand(p) ==
    DoRead(DoWrite([p EXCEPT !.resend = NoLine, !.executing = NoCommand]))

(***************************************************************************)
(* The ok branch: whatever else has arrived is taken for trailing replies  *)
(* (workaroundOverconfirmationBug), then the ok counts for the M110 that   *)
(* is not in the queue, for a resend request, for an error, or for the     *)
(* front of the queue.                                                     *)
(***************************************************************************)
Confirmed(q) ==
    LET p == [q EXCEPT !.rx = << >>]
        line == IF q.resend # NoLine THEN q.resend ELSE FirstResend(q.rx)
    IN  IF p.lineNo = 0 THEN NextCommand([p EXCEPT !.lineNo = 1])
        ELSE IF line # NoLine THEN NextCommand(HandleResend(p, line))
        ELSE IF p.pendingError THEN DoRead(RaiseError(p))
        ELSE NextCommand(Answer(p))

(* The printer has rebooted. *)
Restarted(q) ==
    LET p == [q EXCEPT !.resend = NoLine, !.executing = NoCommand]
        failed == IF p.state # "Error" /\ p.job.st # "None"
                    THEN JobSetError(p) ELSE p
    IN  IF p.state \in {"Connected", "Error"}
          THEN DoWrite(ShowStartupMessage([failed EXCEPT !.lineNo = MaxLineNo]))
          ELSE p

(* readDone without an error; a stale completion may find no line. *)
ReadDone(q) ==
    LET line == IF q.rx = << >> THEN [t |-> "other", n |-> NoLine]
                ELSE Head(q.rx)
        p == [q EXCEPT !.quiet = 0,
                       !.rx = IF @ = << >> THEN @ ELSE Tail(@),
                       !.resend = IF @ = NoLine /\ line.t = "resend"
                                    THEN line.n ELSE @]
    IN  CASE line.t = "ok" -> Confirmed(p)
          [] line.t # "ok" /\ p.executing \in HeatWait -> DoRead(p)
          [] line.t = "start" /\ p.executing \notin HeatWait ->
               DoRead(Restarted(p))
          [] line.t = "error" /\ p.executing \notin HeatWait ->
               DoRead([p EXCEPT !.pendingError = TRUE])
          [] line.t \in {"resend", "other"} /\ p.executing \notin HeatWait ->
               DoRead(p)

-----------------------------------------------------------------------------
(* The public methods. *)

Start(p) ==
    IF p.state # "Stopped" THEN p ELSE DoConnect(SetState(p, "Disconnected"))

Stop(p) == Reset(SetState(p, "Stopped"))

(* setDevicePath, setBaudRate and setPrintArea with a new value end here. *)
DeviceSettingsChanged(p) ==
    IF p.state = "Stopped" THEN p ELSE DoConnect(Reset(p))

ResetPrinter(p) ==
    IF p.state = "Error" THEN SendCommand(p, "M999", "none") ELSE p

(***************************************************************************)
(* setPrintJob with a new job.  The job it replaces is freed, the          *)
(* callbacks bound to it stay where they are.                              *)
(***************************************************************************)
SetPrintJob(p) ==
    LET age(c) == IF c.cb = "job" THEN [c EXCEPT !.cb = "stale"] ELSE c
    IN  IF p.job.st \in {"Running", "Paused"} THEN p
        ELSE [p EXCEPT !.job = [st |-> "Stopped", pos |-> 0,
                                ended |-> FALSE, saved |-> p.job.saved],
                       !.queue = [i \in DOMAIN p.queue |-> age(p.queue[i])],
                       !.io = [i \in DOMAIN p.io |->
                                 [p.io[i] EXCEPT !.cmd = age(p.io[i].cmd)]]]
=============================================================================
