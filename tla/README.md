# A TLA+ model of dashprint

dashprint is a server that drives 3D printers: it keeps a connection to each
printer over a serial device or TCP, feeds it the lines of a print job, and
offers a REST API, websockets and camera streams to browsers. This directory
holds TLA+ modules translated from its source, TLC configurations that check
them on small instances, and proofs for TLAPS.

Paths below are relative to the root of the repository's source (`src/` in
`PROJECT.json` is that root, so `src/Printer.cpp` is `src/src/Printer.cpp`
there).

## The system

| Component | State it keeps | Operations | Interacts with |
|---|---|---|---|
| `Printer` | connection state, port or socket, three timers, command queue, command in flight, next line number, resend history, pending error, positioning mode, job slot | `start`, `stop`, change of settings, `sendCommand`, `setPrintJob`, `resetPrinter`; handlers of reads, writes, connects and timers | io_service, the device, `PrintJob` through callbacks, websockets through signals |
| `PrintJob` | state, position in the file, the file stream's flags, the mode saved by a pause | `start`, `stop`, `pause`, `lineProcessed`, `setError` | `Printer::sendCommand`; fails with its printer |
| REST API (`api/PrintApi.cpp`) | none | requests on printers and jobs | calls into `Printer`, `PrintJob`, `PrinterManager`, `FileManager` |
| event loop (`main.cpp`) | the handlers that are ready | `io_service::run` on one thread | everything above |
| `PrinterManager`, `util.cpp` | the printers by name, the default printer, the configuration tree and its file | add, delete, default, save, load | REST API; `Printer::save`/`load` |
| `AuthManager` | users, shared secret (in the same tree) | create user, authenticate, tokens | REST API |
| `FileManager` | a directory | save, delete, list | REST API; a running job has one of its files open |
| `CameraManager` | running cameras and their reference counts | create and release a streamer | streaming threads |
| `MMALEncoder` | a ring of buffers, SPS and PPS, running flag | encoder callback, readers, stop | encoder thread, streaming threads |
| `WebSocketHandler`, `api/WebSockets.cpp` | queue of messages, write outstanding; subscriptions | send, read, write, subscribe | signals of `Printer`, `PrintJob`, the managers |
| `WebSession`, `WebServer`, `WebRouter`, requests and responses | one coroutine per request, its buffer, routes and filters | read, route, respond | REST APIs |
| cameras, `MP4Streamer`, discovery, plugins, assets, gcode analyzer | see `PROJECT.json` | | devices and libraries |

How they interact: everything about printers and jobs runs on the one thread
that calls `io_service::run` (`main.cpp:117`). A `Printer` never waits; it
leaves handlers behind and they run, each to its end, in the order they become
ready. So nothing in `Printer` is pre-empted, and the difficulty is what can
become ready between two handlers: a handler may run when the state it was left
in is long gone. Only cameras bring further threads.

### What is hard in it, and what makes each part correct

* **Printer, connection.** Three timers and up to one read, one write and one
  connect are outstanding at any moment, and `reset()` cancels them but not the
  handlers that are ready. Two purposes share `m_reconnectTimer` (the boot delay
  and the retry) and two share `m_timeoutTimer` (the connect timeout and the
  watch for silence). Correct: an open port is always read and watched, a
  printer that is not stopped and has no port is always about to connect, a
  stopped one holds nothing, and no queued command is forgotten.
* **Printer, protocol.** One command is in flight and the front of the queue is
  the one that is answered, except the M110 at a rollover of the line numbers.
  `Resend:`, `Error:`, `start`, an `ok` too many and the loss of a frame meet
  the queue in every state. Correct: frames do not overlap, what is in flight is
  what the `ok` pops, lines reach the printer once and in order.
* **PrintJob.** A job is driven by its own callbacks: lose one and it hangs,
  double one and it overtakes itself. Correct: a running job always has a
  callback coming, ends, and is `Done` only when its lines are printed.
* **PrinterManager, AuthManager, configuration.** One tree in memory, written in
  place on every change; a request may write it twice; the program may die and a
  write may fail at any point. Correct: what was saved is what is loaded, the
  default printer exists, the user's keys do not change by themselves.
* **FileManager, WebSession, WebServer.** A file is removed, created and written
  while a job or a download reads it and while names alias; sockets and files
  share one limit of descriptors. Correct: a reader gets one upload, an answered
  upload is whole, and clients go on being accepted and answered.
* **CameraManager, MMALEncoder, CameraApi.** Threads that end at any time, an
  encoder that laps its readers. Correct: a camera runs exactly while it has a
  holder; a reader that keeps up gets each buffer once and in order; abandoned
  streams end.
* **WebSocketHandler, subscriptions.** Sends, the queue and writes are three
  handlers on an object whose life hangs on a fourth; subscriptions to a job grow
  with every job. Correct: one write at a time, events in order and once per
  subscription, the last of them true.

The hazards, each at its line, are in `PROJECT.json`.

## The modules

| Module | Models |
|---|---|
| `PrinterState` | the record of one `Printer`: its members (`Printer.h`), its job, and what the io_service, the port and the timers hold for it; `sendCommand`, the timers |
| `PrintJob` | `PrintJob.cpp`: every method as an operator from record to record |
| `Printer` | `Printer.cpp`: every method and handler as an operator from record to record, with the calls it makes, in their order |
| `Firmware` | the printer at the other end, as far as `Printer.cpp` relies on it (external) |
| `PrintServer` | the system: the event loop, timers, link, firmware and REST requests as actions; the properties |
| `MCPrintServer` | constants of the instances TLC checks |
| `PrintService` | what a user is promised of a job; `PrintServer` implements it |
| `PrintServerProofs` | lemmas about each method and action: what it does to the types and to the connection; the theorems about the connection |
| `JobProofs` | the theorems about a job's callbacks, the front of the queue, and a paused job |
| `ProtocolProofs` | the theorems about the frames and confirmations under way and about the mode |
| `ServiceProofs` | the theorems about what is printed, and that `PrintServer` implements `PrintService` |
| `EncoderRing` | `MMALEncoder` and `MMALH264Source`: the ring of buffers and the operators of its writer and readers |
| `CameraStreaming` | `CameraManager`, `CameraApi`, `MP4Streamer` and the encoder's thread as interacting processes over one `EncoderRing` |
| `EventChannel` | what a browser is promised of a WebSocket; `JobEvents` implements it |
| `WebSocketHandler` | `WebSocketHandler.cpp`: one connection, an operator per handler |
| `JobEvents` | the subscriptions of `api/WebSockets.cpp` to a printer's job, the job's changes and the connections |
| `Configuration` | `PrinterManager`, `AuthManager`, `util.cpp` and the start of `main.cpp`, with deaths and failed writes |
| `FileManager` | the directory of uploads: operators on a disk and on those who have a file open |
| `FileServer` | `WebServer`, `WebSession`, the requests that save, send, delete and print files, the job that reads one, and the descriptors |
| `CameraProofs`, `EventsProofs`, `ConfigurationProofs`, `FileServerProofs` | their lemmas and theorems |
| `MCCameraStreaming`, `MCJobEvents`, `MCConfiguration`, `MCFileServer` | constants of their instances |

`PrinterState <- PrintJob <- Printer <- Firmware <- PrintServer`, each extending
the one before; `EncoderRing <- CameraStreaming`, `WebSocketHandler <-
JobEvents` and `FileManager <- FileServer` likewise. A method of the program is an operator `Op(p)`: the composition
of calls in C++ is composition of operators, so an action of `PrintServer` is
the whole handler with everything it calls.

### State and actions against the code: printers and jobs

`printer` is the record of `PrinterState`. Fields correspond to members:
`queue` to `m_commandQueue` (the text's code and which callback), `executing` to
`m_executingCommand`, `lineNo` to `m_nextLineNo`, `history` to
`m_resendHistory`, `resend` to the first `Resend:` in `m_replyLines`,
`pendingError` to whether `m_pendingError` is set, `rx` to `m_streamBuf`, `mode`
to `m_positioningState`, `job` to `m_printJob`. `io` is the queue of ready
handlers; `reads`, `connecting`, `reconnectTimer`, `timeoutTimer` and
`tempTimer` are the operations outstanding; `wire` and `tx` are lines and frames
in transit. `quiet` is the time since `m_lastIncomingData`, in periods of the
check. `fw` is the firmware's last line number and mode. `printed` is a history
variable: the job's lines the firmware has executed. `replies` counts the
callbacks of temperature requests that were called. `left` counts events that
could go on for ever.

`port` is the serial device or the socket. Of a socket it says what the kernel makes
of it, which the program cannot see: `opening`, `open`, `refused`, or `dead` (the
other end is gone). `connecting` is whether the `async_connect` is outstanding: after
`m_socket.cancel()` it is not, and the kernel goes on. `joined` is whether a
`connect()` on the socket has returned success, and `held` are the frames whose
`async_write` waits for the connection, as reads do (`reads`).

| Actions | Code |
|---|---|
| `RunSend`, `RunReadDone`, `RunReadError`, `RunWriteError`, `RunConnected`, `RunConnectFailed`, `RunConnectTimeout`, `RunTimeoutCheck`, `RunReconnect`, `RunInitialize`, `RunGetTemperature` | the event loop runs the first ready handler, the one the name says |
| `ReconnectTimerExpires`, `CheckTimerExpires`, `PrinterStalls`, `ConnectTimerExpires`, `TemperatureTimerExpires` | a wait completes, its handler becomes ready |
| `LinesArrive`, `ReadFails`, `Established`, `Refused` | the kernel completes an operation |
| `Replug`, `LoseFrame`, `FrameCorrupted`, `FirmwareExecutes`, `FirmwareOverconfirms`, `FirmwareFails`, `FirmwareReboots` | the environment |
| `StartPrinter`, `StopPrinter`, `ChangeSettings`, `ChangePath`, `SubmitGcode`, `SetTemperature`, `SubmitJob`, `ResumeJob`, `PauseJob`, `CancelJob`, `ResetRequest` | requests of `api/PrintApi.cpp` |

### State and actions against the code: the rest

`CameraStreaming`. `on` and `refCount` are the entry of `m_runningCameras`;
`encoder` the `MMALEncoder` (`running`, whether `m_sps` and `m_pps` are there,
`nextBuffer`, `buffers`); `source[s]` the stream's `MMALH264Source` (`next`,
`offset`, what it has provided); `st[s]` where its thread is. A buffer is its
number and its size. `seq`, `written`, `pos` and `last` number buffers for the
properties, `mid` says that the encoder holds `m_cvMutex`. Actions:
`RequestStream`, `RequestFails`, `SendHeader`, `ReadSource`, `WaitForData`,
`WaitTimesOut`, `WriteFrame`, `EndStream`, `SendFinalChunk` of the streams;
`EncodeSPS`, `EncodePPS`, `EncodeBuffer` of the encoder; `ClientGoes`.

`JobEvents`. `handler[c]` is a `WebSocketHandler`: `posted` what `send()` has
posted to the strand, `pending` is `m_pendingMessages`, `writing` is
`m_writingMessage`. `subs[c]` counts the client's slots on the printer's signal
and `slots[c]` those on the job; an event is the state it tells. Actions: the
changes of the job, `NewJob` (with the slots of the signal it raises),
`Subscribe`, `Unsubscribe`, and a handler each for the handshake, a failed read,
a posted send and a finished write; `Cut`.

`Configuration`. `printers` and `defaultPrinter` are the manager's fields,
`config` is `g_config`, `file` the file. `pc` says where the program is, so that
it can die between any two steps: `writing` inside `write_info`, `second` between
the two saves of a request. `CutShort` is what a torn file may hold, as the
parser of INFO files sees it. Actions: `Starts`, `FailsToStart`, `SetsUpSecret`,
`NewPrinter`, `SetupPrinter`, `SecondHalf`, `DeletePrinter`, `Written`,
`WriteFails`, `Dies`.

`FileServer`. `sess[c]` is the client's `WebSession` and its request, `reader[c]`
the file being sent, `thread` where in `saveFile` the event loop is, `disk` the
directory and every file that is or was in it, `job` the print job with its
`m_file`. `accepting` is whether an
`async_accept` is pending, and `failed` after one that found no descriptor, which
nothing starts again. `leaked` counts descriptors that nobody closes, `stored` is what
clients were told. Actions: `Accept`, `Asks`, `AsksLarge`, `Leaves`, `Download`,
`DeleteFile`, `SubmitJob`, `SaveRemoves`, `SaveKeeps` (the removal fails), `SaveOpens`, `SaveWrites`,
`WriteFails`, `SendsBlock`, `Answered`, `JobReads`, `JobStops`, `JobRestarts`,
`Dies`, `Restarts`.

### Abstractions

* A command is its code; parameters, checksums and wording are left out. A
  damaged frame is one the firmware refuses.
* A handler on which the code does nothing is not in `io`: the success of a
  write, a read aborted by `close()`, the cancelled wait of a handler that looks
  only at its error code.
* Requests are handlers of their own. They are taken at any moment rather than
  through `io`, which includes every order the loop could give them.
* Over TCP, reads and writes that are started while a connect is outstanding wait in
  the reactor: they go through with the connection, fail with it, or are aborted by
  the connect timeout, which their handlers ignore. A connect on a socket whose
  first one was given up fails (`EALREADY`) while the kernel still tries, succeeds
  once when it has connected, and fails after that (`EISCONN`); on one that was
  refused or reset it fails and leaves the socket as good as new (`OpenSocket`).
  These are asio's and Linux's answers. Two writes that wait for one connection share
  `m_commandBuffer`; that the first then sends the text of the second is left out.
* `LinesArrive` hands any number of complete lines to the buffer; a partial line
  only delays a read. Writes are complete when they succeed.
* `halted` stands for two states the program does not leave: it has called a
  freed `PrintJob`, or it is in the endless loop of `PrintJob::nextLine` (below).
* Settings changed by a request are one action, a changed path another; name and
  default do not reach the connection.
* A request to set temperatures has one command.
* A camera's frame for the client is one buffer; a read may ask for part of it.
  There is one camera: two have nothing in common but a mutex.
* Of the events about a job, those about its progress are left out, and so are
  the other subscriptions: one slot each, through the same queue.
* Of a printer's configuration, only whether it is stopped is kept. A death is
  that of the process or the machine; the file system keeps what was written.
* In `FileServer` a file is the number of its upload and its blocks, a handler is
  atomic but for `saveFile`, and a paused job counts as running. A finished job
  is not started again: `PrintServer` has what happens then (`halted`).

## The runs

The first eight are `MCPrintServer` with one printer. `MaxLineNo` is 3 or 4 (10000 in the
code), so numbers roll over within every connection; `HistoryLimit` is 1 or 2
(50), so the history is both full and too short; `QuietLimit` 1 (5 seconds, in
checks of one). `MaxBacklog` 1: when a timer expires at most one handler that
became ready before still waits. Timers are a second or more, a handler takes
well under a millisecond, and an unbounded backlog would let a timer overtake
everything. A timer's handler is never ready twice, for the same reason.

`Budget` bounds each kind of event of the environment or the user, and `all`
their sum: a run goes through every order of that many events, and of everything
that follows from them. The parts that go on for ever by themselves (retries,
checks, reads) are not bounded.

| Run | Instance | Checks | Shows |
|---|---|---|---|
| `connection` | serial; 4 events of 2 starts, a stop, 2 changes of the device (present, absent, refusing its settings), changed settings; 2 million states | `TypeOK`, `Listening`, `Watched`, `Maintained`, `Released`, `Doomed` | no order of these leaves the printer unread, unwatched or without a retry, or a stopped printer with a port |
| `resend` | jobs of three lines, kept apart (`JobsApart`), rollover after 4, history of 2; 7 events of 3 damaged frames, 2 submissions, a pause, 2 resumes, a cancel, a temperature poll, a user's command that changes the mode; 3.4 million states | `OneInFlight`, `PrintedInOrder`, `DoneIsPrinted`, `ImplementsService`, `ModeTracked` | the resend protocol prints the file in order, each line once, whatever frames are damaged; a job goes on where it was paused and begins at its first line otherwise; from outside, it is the job `PrintService` promises; the mode the server believes in is the printer's |
| `trouble` | a job of two lines, the first of which changes the mode, and 2 more of: double ok, failing command, reboot, pause, resume, cancel, reset, changed settings; 3.5 million states | `JobAlive`, `InFlightIsFront`, `ResumeRestoresMode`, `PausedUntilResumed` | a running job always has a callback coming; what is in flight is what the `ok` pops, unless the queue was dropped with an error; a resume brings back the mode saved by the pause, and nothing else sets a paused job going |
| `progress` | fairness; start and 2 more of: a job, 2 temperature requests, a lost frame, failing command, reset, stall, reboot, 2 changes of the device; 47 thousand states | `Answered`, `JobEnds`, `Settles` | the silence check and reconnection end every wait; each request's callback is called |
| `socket` | TCP, fairness; 2 events of a start, a device that goes, a change to a serial path, with connects that are established or refused before or after their timeout; 156 thousand states | `Kept`, `Settles` | no abandoned connect leaves a connection unread or unwatched without a retry coming, and the printer is connected in the end |
| `stays_stopped` | serial, one start, one stop | `OnlyStartLeavesStopped` | violated |
| `resend_error` | one damaged frame, with `Error:` | `ResendIsNoError` | violated |
| `stuck_settles` | serial, fairness; a start, 2 changes of the device (present, absent, refusing its settings) | `Settles` | violated |
| `cameras` | fairness; 2 streams, ring of 2, buffers of up to 3 units, 3 buffers, 2 requests, one of which may fail; 172 thousand states | `TypeOK`, `CameraRunsForHolders`, `ReferencesAreStreams`, `OnlyLappedCrashes`, `ReadsInOrder`, `NeverBackwards`, `AbandonedEnds` | one camera runs exactly while somebody holds it; readers get the ring in order or skip forward; abandoned streams end |
| `events` | fairness; 2 browsers with 2 and 1 messages, 2 changes of the job; 637 thousand states | `OncePerSubscription`, `LastEventIsCurrent`, `OnlyCutCrashes`, `OneWrite`, `ImplementsChannel` | subscribers are sent each event once, in order, the last being the job's state, as long as the connection is up |
| `configuration` | 3 plain names, one of them `default`, and a dotted one; 4 requests, 2 deaths or failed writes; 348 thousand states | `TypeOK`, `DefaultIsPrinter`, `RestartRestores`, `CredentialsKept` | printers, default and keys survive deaths between any two steps; only a torn file changes keys |
| `files` | fairness; 2 clients, one file with two names, 2 blocks, 3 descriptors, 3 requests, 1 death, failed removal or failed write; 113 thousand states | `TypeOK`, `ReadsOneUpload`, `AnsweredIsStored`, `ClientsAreServed` | uploads are never mixed, answered ones stay whole, and clients are accepted until a descriptor is missing, and answered even then |

Why the bounds are enough. The connection properties are proved for every bound
on a serial device. For the protocol, what matters is the position of a damaged
or resent frame against the rollover, the end of the history and the commands in
between. With three lines, numbers up to 3 and a history of 2, the start-up
commands and the job reach each of them, including a damaged resend; three
damages allow a resend of a resend. Seven events hold a job that is paused,
resumed, cancelled and started again, with a damage anywhere. In `trouble`, two
events besides start and submission cover each pair of requests and failures. Three
would need instances a hundred times larger.

For the other components, the safety properties are proved for every bound; the
runs are there for the actions' being the right ones, for liveness and for the
refinements. A ring of two with three buffers is lapped, and one reader can be in
the middle of a buffer that is replaced by a shorter one. Two browsers share one
job, and the one with two messages subscribes twice, or unsubscribes; two changes
make a job and change or replace it. In `configuration`, four requests add,
number, make default and delete, with two faults anywhere. Three descriptors
are enough for a session, its download and the job's file, or for two sessions and
one file, and run out when there is one thing more: opening a file fails, and so
does an accept. Two downloads at once beside another file are only in the theorems.

`CHECK_DEADLOCK FALSE` is set where a run contains a stopped printer without any
timer (a printer that may be stopped or not started once its budget is spent) or
a halted one, where requests and clients are used up, and where a crash of the
program is a state (`crashed`, `dead`). `resend` has none of these and checks
deadlock.

### What is violated

* `stays_stopped`: `stop()` promises to "unschedule from the io_service". A
  command posted before it writes to the closed port after it; the failed write
  is an I/O error like any other and connects the stopped printer again. So do
  a failed read that was ready and the handler of the boot delay, which ignores
  its error code. The properties of `connection` are stated so that they hold
  although the printer may leave `Stopped` this way.
* `resend_error`: "Don't raise errors if there's a Resend before the following
  ok". The error is not raised at that `ok`, but stays pending and is raised at
  the next.
* `stuck_settles`: "Connect to the printer and maintain the connection". If the
  device rejects its settings once, `set_option` throws after `open()` has
  succeeded, and nothing closes the port: each retry's `open()` throws because the
  port is open, also when a device that works is there again.

### What the properties leave out on purpose

Some statements one would like do not hold in the code, and runs that contain
their cause do not check them:

* `PrintedInOrder` fails after a reboot (lines that were in the queue are gone,
  or sent again), with changed settings (an empty reply counts as printed), with
  a resume after a cancel, and for two submissions in a row, each with a line of the
  job still on its way. The run `resend` and the theorems have every order of these
  requests under `JobsApart`: a job is started or resumed when no line of one is on
  its way, and is not started again once it was read to its end. The code does not
  see to this; it is a hypothesis about when the user asks.
* `DoneIsPrinted` fails with a double `ok`, after a stall whose late answer
  arrives on the next connection, and after a pause and resume with a line in
  flight (two callbacks).
* `OneInFlight` is conditioned on a firmware that confirms each frame once.
* A job that is finished and started again loops for ever in `nextLine`:
  `seekg` clears the end-of-file flag, not the failure. `JobAlive` and `JobEnds`
  except the halted server. So do they for a job replaced while a callback of its
  last line is outstanding.
* What `resume` restores is the mode the printer was in when the job was paused: a
  change of mode in a line that was queued but not written is undone by it.
* A reader of the ring that was lapped may find a shorter buffer where it was in
  the middle of a longer one, copies a negative length, and crashes the program
  (`crashed`); lapped exactly, it takes the full ring for an empty one. The
  properties say that it takes a whole ring to get there.
* A streamer that cannot be created keeps its reference: that camera runs for
  ever. `ReferencesAreStreams` counts those.
* A WebSocket whose read fails is freed under a write or a posted message, whose
  handler then uses it. `OnlyCutCrashes` says that nothing else does it. After a
  failed write the rest of the queue waits for the next event.
* The first start without a configuration file fails, and so does every other:
  `loadConfig` makes the users' node only in a file it could read
  (`FailsToStart`). `RestartRestores` is about a program that has run.
* A printer's name is used as a path of the tree: one with a dot is lost at a
  restart or prevents it, and a printer called `default` takes the place of the
  default's name. `Safe` excepts these names.
* A body of more than a megabyte is never stored: `processLargeBody` waits for
  data that it does not take, until the client gives up, and a descriptor is lost.
  Nor is there a bound on sessions, or a timeout for idle ones. An accept that finds
  no descriptor ends accepting for good; `ClientsAreServed` says that nothing else
  does, and that those who have asked are answered.
* `saveFile` does not look at the error of its removal: a file that could not be
  removed is truncated under those who read it. `ReadsOneUpload` excepts it (`kept`).
* A name with a slash is stored under another one and not found by its own; a
  failed upload takes the earlier file of its name with it.
* `Maintained` and `Doomed` are about serial devices. Over TCP a socket may be
  connected with its connect given up, and no retry be due before a read or a check
  fails: `Kept` counts those. And a write that waits for a connect is aborted by the
  connect's timeout: its handler ignores that, and the command stays in flight on a
  printer without a connection, until a reconnection or another event resets it.
  `Kept` has no run with a stop.

## Fairness

`FairSpec` assumes weak fairness of: the event loop (`RunIo`; the thread runs
while handlers are ready and each handler ends), the expiry of the reconnect,
check and connect timers (a started wait completes), the kernel (`LinesArrive`,
`ReadFails`, `Established`, `Refused`: what has arrived is delivered, what has
failed is reported, a TCP connect ends), and the firmware (`FirmwareExecutes`: a
frame that reached it is answered). It assumes nothing about requests, plugging,
damage, or the temperature timer. A lost frame, a stalled or rebooting printer
are events of the budget, so no answer has to come for these. `Settles` allows
`Error`, which only a request leaves.

`CameraStreaming`: each stream's thread gets on, its wait ends after ten seconds,
a write to a connection that is closed returns, and an encoder in the middle of a
NAL finishes it. A client need not take what it is sent and a camera need not
deliver. `JobEvents`: the loop runs posted sends and finished writes, and a write
finishes or its connection fails; `EventChannel` then promises delivery.
`FileServer`: the loop accepts who connects, handles what was asked, and goes on
with a file it saves; reading, sending and printing owe nothing.

## The proofs

`PrintServerProofs` proves, for every value of the constants that satisfies the
assumptions of the modules (`TextAssumption`, `LimitAssumption`,
`ReportAssumption`, `ServerAssumption`, `BudgetAssumption`):

* `TypeCorrect`: `Spec => []TypeOK`.
* `StoppedIsReleased`: `Spec => []Released`, with no hypothesis, over TCP and when
  the path changes too.
* `Inductive`, and from it `AnswersAreRead`, `SilenceIsNoticed`,
  `ConnectionIsMaintained`, `NoCommandIsForgotten`: the properties `Listening`,
  `Watched`, `Maintained` and `Doomed` under
  `SerialOnly`, that the printer has a serial device and its path's kind does not
  change. Over TCP the watch does not hold in the code: the connect timeout and
  the check share a timer, and an abandoned connection is open and unread.

The argument. None of these is inductive. While a handler runs, it has been
taken off `io`, and the property it carried holds only because of what the
handler is about to do; and methods call each other in states where another
is suspended (`reset()` closes the port before `doConnect()` opens it).
`Attended(p, X)` is their conjunction, strengthened by what they need of each
other (on a serial device there is no connect and no connect timer), where
handlers whose kinds are in `X` count as ready. Each method gets a lemma of the
form `Attended(p, X) => Attended(Op(p), Y)`: with `X` what has been taken or is
still to be done by the caller, and `Y` what is left. `DoConnect`, for example,
discharges `{"reconnect"}`; `LoseConnection` discharges `{"readErr"}` or
`{"writeErr"}`, which is why a failed write that is ready makes up for commands
on a closed port. Methods that only post commands or change the job (`Aside`) are
shown to leave all of it alone. `IInv == TypeOK /\ left["path"] = 0 /\
Attended(printer, {})` is then inductive: an action takes a handler,
`Attended(printer, {}) => Attended(Taken, {h})`, and the handler's lemma gives
it back with the empty set. `StoppedIsReleased` does not need a serial device. Its
invariant `Freed` says of any link that a stopped printer's port is closed, and is
kept because `stop()` closes what is open, a stopped printer's `doConnect()` returns,
and every other method that opens a port leaves the state too, whatever is ready.

`JobProofs` proves three properties of the printer and its job together, whatever
the device, the link and the firmware do:

* `JobStaysAlive`: `Spec => []JobAlive`, with no hypothesis at all, TCP included.
  The invariant `Alive` adds to the property that only a posted `sendCommand`
  carries a callback among the ready handlers. What makes the proof are the
  moments when a callback is consumed: the `ok` that calls it, the error that
  drops the queue, the job that ends. `KeepsAlive` disposes of everything else.
* `PausedStaysPaused`: `Spec => PausedUntilResumed`, with no hypothesis either, an
  action property: of all steps only a resume takes a job from `Paused` to `Running`
  or `Done`. Every method leaves a job that does not run (`Dormant`) not running,
  also in the middle of a handler: the answer that comes after the pause, the
  callbacks that a reset of the queue calls, and `setError`.
* `InFlightStaysFront`: `Spec => []InFlightIsFront` under `SerialOnly`, with the
  invariant `Fronted`, and with double confirmations, restarts and stalls. The
  attempt to prove an earlier form failed for a good reason: a write fails, the
  error state drops the queue while the failed write's handler is still ready, a
  reconnection comes first, and `m_executingCommand` is then not in the queue. TLC
  shows it with a backlog of two. The handler that is ready ends that state, so the
  property has the exception.

`ProtocolProofs` proves `OneFrameInFlight`: `Spec => []OneInFlight` under
`Orderly`: a serial device and a budget without double confirmations, reboots,
stalls, unplugging, stops, new settings and new paths. Frames may be damaged and
lost, commands fail, and every other request comes in any number. The property
counts frames, lines that are arriving and lines that are joined, and is far from
inductive. `Open(p, X)` adds where the one thing under way is (`Lone`: a frame, or
one confirmation on the wire, or one that was read and waits for its handler), that
no `start` is among the lines, that the port of a started printer stays open without
a failure waiting, that what was read has its handler ready (but for the kinds in
`X`, which are being handled), and that silence is only counted while nothing is
under way: this is what keeps a slow answer from being taken for a lost one. `Unmixed
== Fresh(printer) \/ Open(printer, {})` is inductive with `IInv`; `Fresh` is the
printer before its first start. The hypotheses are those of the property's own
words: each disorder that is left out makes `OneInFlight` false, because the
answer to a lost or repeated confirmation cannot be told from the next.

On top of it `ModeStaysTracked`: `Spec /\ [][NumberingArrives]_vars =>
[]ModeTracked` under `Calm`. `Calm` is `Orderly` without lost frames and failing
commands, with a firmware that asks again without an `Error:` line, a history
shorter than the line numbers, and no `M110` in the job or from a user;
`NumberingArrives` is that no `M110` is damaged. Everything else is as in
`OneFrameInFlight`: any job, any number of damaged lines, rollovers, polls, user
commands, pauses, resumes, cancels and new jobs. The property says that the two
modes agree at rest and nothing about the way there, so the invariant is the whole
conversation, in two parts:

* `Talk(p, f)`: the printer is `Still`, or one command is `Flying`, which is
  `Written` (its frame is the one under way; the mode is ahead of the firmware's by
  this command; the firmware's line number is two behind the next), `Accepted`
  (the lines that were joined and those that still arrive, taken as one sequence,
  are notes that end in the one `ok`) or `Declined` (they end in an `ok` after a
  resend of exactly the last line). `Numbered` says what the history is: the last
  lines, without a gap, backwards from the last number through the rollover. So the
  line that is asked for is the last of the history and no other (`LastOfHistory`),
  and after `handleResend` the mode has been noted twice, which is once.
* `Phase(p)`: `Booting`, `Resetting` or `Going`. Until the `M110` that
  `initialize()` sends is queued nothing is, and after it no other `M110` ever is:
  that `doWrite` may take an `M110` in flight for the rollover's depends on it.

Each method again has a lemma; `Gentle(p, q)` disposes of the methods that only
send commands or change the job. The hypothesis about `M110` is one of the proof:
it is the only command with an effect that has neither a number nor a checksum, so
a firmware that receives it damaged ignores it and says `ok`. After a rollover the
two sides then count differently and the next line is refused with a request for
a line nobody has, which puts the printer into the error state. The run `resend`
checks `ModeTracked` with those damages too. A lost frame does leave the mode wrong
in the code, since it was noted when the command was written and the reconnection
forgets the command; this is why `ModeTracked` is only claimed without one. A
failed command leads into the error state, which the proof leaves to TLC.

`ServiceProofs` goes on from there to what is printed: `LinesPrintedInOrder`,
`DoneMeansPrinted` and `ServiceImplemented`, `Spec /\ [][NumberingArrives /\
JobsApart]_vars => []PrintedInOrder`, `[]DoneIsPrinted` and `ImplementsService`,
the last by showing that every step is one of `PrintService` or a stutter
(`Steps`). They assume `Calm` and `Told`: `printed` knows a line of the job by its
text, so the job's text must not be one that dashprint sends of its own, except
`G90`, `M82` and `M83` in a run without resumes (those are what a resume sends, and
jobs are full of them). None of the three properties says where the line is that was
given and not yet printed. `Faithful` does, for the whole of its way:

* a job has at most one callback, in the queue or in a handler that is to send it
  (`Handed`), and it belongs to the line at `pos`; everything else there is `Foreign`.
  A job that is not running may have none (`Resting`);
* what is printed is the file up to `pos`, or, while a line is handed, up to the one
  before, unless the firmware has taken it and its `ok` is still to be handled.
  `LinePrinted` tells these two apart by what both sides know: the front of the queue
  is the job's, its frame is written, and the firmware's last number is the printer's.

The last condition is why the numbers of `Talk` are needed. A damaged frame leaves
the firmware's number behind, a resend takes the printer's back and writes the line
again, which is still the front of the queue with its callback, and only the
acceptance of the line moves the firmware's on; so a line that is sent three times is
printed once. After the rollover the `M110` in flight is not in the queue, and
`LinePrinted` excludes it by its text. At the `ok` the callback is popped,
`lineProcessed` moves `pos`, and the next line is handed within the same handler:
`Faithful` is shown of the handler as a whole. `Faith`, which is `Faithful` with `Tracked`, is inductive with `IInv`
(`FaithKept`). `JobsApart` is used only for the two requests that start a job, which
need `Resting`. The run `resend` checks these properties under it, with a damaged
`M110` too, which `NumberingArrives` leaves out of the theorems.

`CameraProofs` proves, for any ring, streams, requests and failures
(`RingAssumption`, `StreamAssumption`): `CameraTypes`, `ReferencesCounted`,
`CameraKeptRunning`, `CrashesAreLaps`, `EveryBufferInOrder`, `NeverAnOlderBuffer`. The invariant
(`CameraInductive`) has the count of references against the set of holders, and
for each reader where it is: the ring holds the last `RingSize` buffers, each in
its place; the number of the buffer a reader is to read is the writer's, less the
gap between their indices, up to whole rounds; and what it has read is older than
all that follows. That the indices alone do not tell how many rounds is the reason
for every condition on lapped readers.

`EventsProofs` (`EventsAssumption`): `EventsTypes`, `SubscriptionsFollow`, `NoOldState`,
`WritesOneByOne`, `FreedAfterFailure`, and `ChannelKept`, the step simulation of
`EventChannel`'s safety part under the mapping `Channel`. The invariant
(`EventsInductive`) adds what each connection needs (`Sound`: a write is
outstanding while the flag says so, of a message still in the queue) and that only
open connections have subscriptions.

`ConfigurationProofs` (`ConfigurationAssumption`): `ConfigurationTypes`,
`DefaultExists`, `PrintersComeBack`, `KeysStay`. The invariant
(`ConfigurationInductive`) relates the manager's fields, the tree and the file at
each `pc`: outside a write, the file holds the tree's keys unless it was torn, and
printers that were answered or belong to the request under way.

`FileServerProofs` (`NamesAssumption`, `FileServerAssumption`):
`FileTypes`, `OneUploadIsRead` and `AnsweredUploadsStay`. The invariant (`FilesInductive`): no two names lead to
one file, what is open and was not `kept` is unchanged since, and the file being written is open to
nobody else. That is what the removal before the write is for.

Only model-checked: liveness (`Answered`, `JobEnds`, `Settles`, `AbandonedEnds`,
`ClientsAreServed`, the delivery of `ImplementsChannel`), which is beyond the
prover; `ResumeRestoresMode`, whose function over the commands that wait
takes an induction; what `ModeTracked` and the theorems of `ServiceProofs` say when
an `M110` is damaged; and over TCP everything but `Released`, `JobAlive`,
`PausedUntilResumed` and the types, `Kept` above all.

## Plan

Done: the printer, its jobs and the connection's proofs; `PrintService`;
cameras; job events; configuration; files; their proofs; the protocol's
`JobAlive`, `PausedUntilResumed`, `InFlightIsFront`, `OneInFlight` and
`ModeTracked`; the lines of a job and the refinement of `PrintService`; sockets as asio and Linux
treat them.

Left: the deletion of a printer with handlers pending, as an action of
`PrintServer` with a printer that may be freed; a stream of commands that is sent
through a lost connection, for which the protocol's theorems would have to say what
a reconnection may lose; `Kept` as a theorem, over any link.

## Not modelled

* Most of the repository's lines are not its own: the interpreter
  (`src/quickjs`), the JSON and JWT libraries (`src/nlohmann`, `src/cpp-jwt`), `bcrypt`
  and the browser's client. Of the server's own C++, what keeps state that more
  than one handler, thread or request changes is modelled.
* Parsing and formatting of HTTP, multipart bodies, JSON, G-code parameters and
  the replies to M105 and M115: byte by byte and without state that outlives the
  call.
* The routes: fixed when the program starts.
* The history of gcode events and of temperatures: lists for display.
* MMAL, V4L2 and libavformat calls, hashing and tokens: libraries. Discovery
  enumerates devices when asked. Plugins are loaded into an interpreter that
  nothing calls yet. Assets are packed at build time, and the gcode analyzer runs
  in the browser.

## Running it

    tlc -workers 2 -config Connection.cfg MCPrintServer.tla
    tlapm PrintServerProofs.tla
    tlapm JobProofs.tla
    tlapm ProtocolProofs.tla
    tlapm ServiceProofs.tla

and likewise for the other configurations and proof modules. `trouble`,
`events`, `socket` and `progress` take up to two minutes, `connection`, `files` and
`cameras` up to a minute, the others seconds.
