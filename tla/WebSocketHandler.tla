-------------------------- MODULE WebSocketHandler --------------------------
(***************************************************************************)
(* Class WebSocketHandler (src/web/WebSocketHandler.cpp): one connection   *)
(* and the event loop's handlers for it.  A connection is a record and the *)
(* operators map it to the record a handler leaves.  The read that is      *)
(* always outstanding keeps the object alive; the handlers of a write and  *)
(* of send() hold a plain pointer to it.                                   *)
(***************************************************************************)
EXTENDS Naturals, Sequences

(* accepting   the handshake is outstanding    freed     destroyed         *)
(* open        a read is outstanding           crashed   used after that   *)
Phases == {"accepting", "open", "freed", "crashed"}

Handlers(Event) ==
    [phase : Phases,
     posted : Seq(Event),       \* what send() has posted to the strand
     pending : Seq(Event),      \* m_pendingMessages
     writing : BOOLEAN,         \* m_writingMessage
     writes : Nat,              \* how many writes are outstanding
     cut : BOOLEAN]             \* the connection has failed

NewHandler ==
    [phase |-> "accepting", posted |-> << >>, pending |-> << >>,
     writing |-> FALSE, writes |-> 0, cut |-> FALSE]

(* send, for each of the events *)
SendEvents(h, events) == [h EXCEPT !.posted = @ \o events]

StartWrite(h) == [h EXCEPT !.writing = TRUE, !.writes = @ + 1]

(* Without the flag, every message would start a write of the first. *)
DoWriteAgain(h) == IF h.pending = << >> THEN h ELSE StartWrite(h)

DoWrite(h) == IF h.writing \/ h.pending = << >> THEN h ELSE StartWrite(h)

Accepted(h) ==
    IF h.cut THEN [h EXCEPT !.phase = "freed"]
    ELSE DoWrite([h EXCEPT !.phase = "open"])

(* The handler that send() posted. *)
RunPosted(h) ==
    IF h.phase = "freed" THEN [h EXCEPT !.phase = "crashed"]
    ELSE DoWrite([h EXCEPT !.posted = Tail(@),
                           !.pending = Append(@, Head(h.posted))])

ReadFails(h) == [h EXCEPT !.phase = "freed"]

(***************************************************************************)
(* The handler of a write, which has failed if the connection has.  Then   *)
(* what is left waits for the next send().                                 *)
(***************************************************************************)
WriteDoneUnpopped(h) ==
    IF h.phase = "freed" THEN [h EXCEPT !.phase = "crashed"]
    ELSE LET popped == [h EXCEPT !.writing = FALSE, !.writes = @ - 1]
         IN  IF h.cut THEN popped ELSE DoWrite(popped)
WriteDone(h) ==
    IF h.phase = "freed" THEN [h EXCEPT !.phase = "crashed"]
    ELSE LET popped == [h EXCEPT !.pending = Tail(@),
                                   !.writing = FALSE, !.writes = @ - 1]
         IN  IF h.cut THEN popped ELSE DoWrite(popped)
=============================================================================
