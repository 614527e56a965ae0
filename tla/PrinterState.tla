---------------------------- MODULE PrinterState ----------------------------
(***************************************************************************)
(* The state of one Printer object of dashprint (src/Printer.h) together   *)
(* with what the io_service, the serial port or socket and the print job   *)
(* hold for it.  The modules PrintJob and Printer define the methods and   *)
(* handlers of the two classes as operators that map such a record p to    *)
(* the record the method leaves behind; PrintServer turns the handlers     *)
(* into actions.                                                           *)
(*                                                                         *)
(* A command is named by its code: its arguments, the checksum and the     *)
(* wording of replies are left out.                                        *)
(***************************************************************************)
EXTENDS Integers, Sequences

CONSTANTS
    UserTexts,      \* commands that users type in or that a file holds
    JobFile,        \* the non-empty lines of the .gcode file of a print job
    MaxLineNo,      \* MAX_LINENO
    HistoryLimit,   \* MAX_RESEND_HISTORY
    QuietLimit      \* DATA_TIMEOUT, in periods of the timeout check

NoLine == -1            \* a frame without line number; no Resend seen
NoCommand == "none"     \* m_executingCommand is empty

(* The commands dashprint sends of its own, and those it is given. *)
OwnTexts == {"M110", "M115", "M105", "M117", "M999", "M18", "M107", "M104",
             "M140", "G90", "G91", "G0", "M82", "M83"}
Texts == OwnTexts \cup UserTexts

ASSUME TextAssumption ==
    /\ NoCommand \notin Texts
    /\ JobFile \in Seq(Texts) /\ Len(JobFile) > 0
ASSUME LimitAssumption ==
    /\ MaxLineNo \in Nat /\ MaxLineNo > 1
    /\ HistoryLimit \in Nat /\ HistoryLimit > 0
    /\ QuietLimit \in Nat

States == {"Stopped", "Disconnected", "Initializing", "Connected", "Error"}
JobStates == {"None", "Stopped", "Running", "Paused", "Done", "Error"}
Paths == {"serial", "tcp"}

(***************************************************************************)
(* The callback a queued command carries: none, the one connected() gives  *)
(* M115, the one getTemperature() gives M105, the one of a request to set  *)
(* temperatures, PrintJob::lineProcessed of the current job, or that of a  *)
(* job that has been replaced and freed.                                   *)
(***************************************************************************)
Callbacks == {"none", "info", "temp", "client", "job", "stale"}
Commands == [text : Texts, cb : Callbacks]

(***************************************************************************)
(* The handlers that can be ready in the io_service: a posted sendCommand, *)
(* the completion of a read or a write, of a connect, of a timer's wait.   *)
(* Completions on which the handler does nothing (a successful write, an   *)
(* aborted read, an aborted wait that only tests its error code) are left  *)
(* out.                                                                    *)
(***************************************************************************)
Completions == {"readOk", "readErr", "writeErr", "connectOk", "connectErr",
                "connTimeout", "check", "reconnect", "init", "temp"}
Bare == [text |-> NoCommand, cb |-> "none"]     \* no command
Handlers ==
    [h : {"send"}, cmd : Commands]
      \cup [h : Completions, cmd : {Bare}]

(***************************************************************************)
(* A line from the printer, and a frame to it.  n is the number of a       *)
(* "Resend:" line, or the line number of a frame.                          *)
(***************************************************************************)
Lines == [t : {"ok", "resend", "error", "start", "other"}, n : Int]
Frames == [n : Int, text : Texts]
Sent == [line : 0..(MaxLineNo - 1), text : Texts]
Modes == [rel : BOOLEAN, erel : BOOLEAN]

(***************************************************************************)
(* pos counts the lines taken from the file; ended says that reading past  *)
(* its end has put the file stream in the failed state.                    *)
(***************************************************************************)
Jobs == [st : JobStates, pos : Nat, ended : BOOLEAN, saved : Modes]

(***************************************************************************)
(* The members of the Printer:                                             *)
(*   port     the serial device or the socket: "opening" is a TCP          *)
(*            connection the kernel is still establishing, "refused" one   *)
(*            that it could not, "dead" one whose other end is gone,       *)
(*            "stuck" an open serial device whose settings could not be    *)
(*            applied                                                      *)
(*   device   what is at the other end of the path: "refusing" is a device *)
(*            that opens but rejects its settings                          *)
(*   connecting  whether the async_connect is outstanding                  *)
(*   joined   whether connect() has returned 0 on the socket               *)
(*   reads    outstanding async_read_until operations                      *)
(*   held     frames whose async_write waits for the connection            *)
(*   rx, wire complete lines in m_streamBuf and in the kernel; tx frames   *)
(*            on their way to the printer                                  *)
(*   resend   the first Resend: line in m_replyLines                       *)
(*   quiet    checks since m_lastIncomingData, up to QuietLimit            *)
(*   io       the ready handlers, in the order the io_service runs them    *)
(*   replies  calls of the callbacks of requests to set temperatures       *)
(*   halted   the thread never gets to another handler: it has used a      *)
(*            freed PrintJob, or is in the loop of PrintJob::nextLine      *)
(***************************************************************************)
Printers ==
    [state : States, path : Paths,
     device : {"present", "absent", "refusing"},
     port : {"closed", "opening", "refused", "open", "dead", "stuck"},
     connecting : BOOLEAN, joined : BOOLEAN,
     reads : Nat, held : Seq(Frames),
     rx : Seq(Lines), wire : Seq(Lines), tx : Seq(Frames),
     queue : Seq(Commands), executing : Texts \cup {NoCommand},
     lineNo : 0..MaxLineNo, history : Seq(Sent), resend : Int, pendingError : BOOLEAN,
     quiet : Nat,
     reconnectTimer : {"idle", "reconnect", "init"},
     timeoutTimer : {"idle", "check", "connect"},
     tempTimer : BOOLEAN,
     io : Seq(Handlers), replies : Nat,
     mode : Modes, job : Jobs, halted : BOOLEAN]

NewPrinter(path) ==
    [state |-> "Stopped", path |-> path, device |-> "present",
     port |-> "closed", connecting |-> FALSE, joined |-> FALSE,
     reads |-> 0, held |-> << >>,
     rx |-> << >>, wire |-> << >>, tx |-> << >>,
     queue |-> << >>, executing |-> NoCommand,
     lineNo |-> 1, history |-> << >>, resend |-> NoLine,
     pendingError |-> FALSE, quiet |-> 0,
     reconnectTimer |-> "idle", timeoutTimer |-> "idle", tempTimer |-> FALSE,
     io |-> << >>, replies |-> 0,
     mode |-> [rel |-> FALSE, erel |-> FALSE],
     job |-> [st |-> "None", pos |-> 0, ended |-> FALSE,
              saved |-> [rel |-> FALSE, erel |-> FALSE]],
     halted |-> FALSE]

-----------------------------------------------------------------------------
(* io_service::post, and the completion of an operation. *)
Handler(h) == [h |-> h, cmd |-> Bare]
Sending(text, cb) == [h |-> "send", cmd |-> [text |-> text, cb |-> cb]]

Post(p, h) == [p EXCEPT !.io = Append(@, Handler(h))]

(* Printer::sendCommand: the push and the write happen in a handler. *)
SendCommand(p, text, cb) == [p EXCEPT !.io = Append(@, Sending(text, cb))]

(* A run of sendCommand calls without a callback. *)
SendCommands(p, texts) ==
    [p EXCEPT !.io = @ \o [i \in DOMAIN texts |-> Sending(texts[i], "none")]]

(* The kinds of handlers that are ready. *)
Waiting(io) == {io[i].h : i \in DOMAIN io}
Ready(p, h) == h \in Waiting(p.io)

-----------------------------------------------------------------------------
(***************************************************************************)
(* m_reconnectTimer.  Cancelling a wait runs its handler with an error.    *)
(* The handler setupReconnect() installs then returns; the one connected() *)
(* installs never looks at its error code, so it runs in full.             *)
(***************************************************************************)
CancelReconnect(p) ==
    [p EXCEPT !.reconnectTimer = "idle",
              !.io = IF p.reconnectTimer = "init"
                       THEN Append(@, Handler("init")) ELSE @]

ArmReconnect(p, what) == [CancelReconnect(p) EXCEPT !.reconnectTimer = what]

SetupReconnect(p) == ArmReconnect(p, "reconnect")

SetupTimeoutCheck(p) == [p EXCEPT !.timeoutTimer = "check"]
=============================================================================
