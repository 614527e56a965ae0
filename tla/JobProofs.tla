----------------------------- MODULE JobProofs -----------------------------
(***************************************************************************)
(* The theorems about a print job and the command queue that hold whatever *)
(* the printer and the link do: a running job has a line on its way, and   *)
(* the command in flight is the front of the queue.                        *)
(***************************************************************************)
EXTENDS PrintServerProofs

(***************************************************************************)
(* Callbacks.  The ones in the queue, the ones in the ready handlers, and  *)
(* the handlers of which only a posted sendCommand carries one.            *)
(***************************************************************************)
QueueCbs(queue) == {queue[i].cb : i \in DOMAIN queue}
IoCbs(io) == {io[i].cmd.cb : i \in DOMAIN io}
BareIo(io) == \A i \in DOMAIN io : io[i].h # "send" => io[i].cmd.cb # "job"

Alive(p) ==
  /\ p.job.st = "Running" /\ ~p.halted =>
       "job" \in QueueCbs(p.queue) \cup IoCbs(p.io)
  /\ BareIo(p.io)

LEMMA CallsIs ==
  ASSUME NEW p
  PROVE  Calls(p, "job") <=> "job" \in QueueCbs(p.queue) \cup IoCbs(p.io)
BY DEF Calls, QueueCbs, IoCbs

(* What a method that says nothing to the job does to the callbacks. *)
IoGrows(io, jo) ==
  /\ IoCbs(io) \subseteq IoCbs(jo)
  /\ BareIo(io) => BareIo(jo)

Keeps(p, q) ==
  /\ q.job.st = p.job.st /\ q.halted = p.halted /\ q.queue = p.queue
  /\ IoGrows(p.io, q.io)

LEMMA KeepsAlive ==
  ASSUME NEW p, NEW q, Keeps(p, q), Alive(p)
  PROVE  Alive(q)
BY DEF Keeps, Alive, IoGrows

LEMMA KeepsTrans ==
  ASSUME NEW p, NEW q, NEW r, Keeps(p, q), Keeps(q, r)
  PROVE  Keeps(p, r)
BY DEF Keeps, IoGrows

LEMMA IoAppend ==
  ASSUME NEW io \in Seq(Handlers), NEW hd \in Handlers
  PROVE  /\ IoCbs(Append(io, hd)) = IoCbs(io) \cup {hd.cmd.cb}
         /\ hd.h = "send" \/ hd.cmd.cb # "job" => IoGrows(io, Append(io, hd))
<1> DEFINE jo == Append(io, hd)
<1>1. /\ Len(io) \in Nat /\ DOMAIN io = 1..Len(io)
      /\ DOMAIN jo = 1..(Len(io) + 1) /\ jo[Len(io) + 1] = hd
      /\ \A i \in 1..Len(io) : jo[i] = io[i]
  OBVIOUS
<1> HIDE DEF jo
<1>2. \A i \in 1..(Len(io) + 1) : i \in 1..Len(io) \/ i = Len(io) + 1
  BY <1>1
<1>3. 1..Len(io) \subseteq 1..(Len(io) + 1) /\ Len(io) + 1 \in 1..(Len(io) + 1)
  BY <1>1
<1>4. IoCbs(jo) = IoCbs(io) \cup {hd.cmd.cb}
  BY <1>1, <1>2, <1>3 DEF IoCbs
<1>5. (hd.h = "send" \/ hd.cmd.cb # "job") /\ BareIo(io) => BareIo(jo)
  BY <1>1, <1>2, <1>3 DEF BareIo
<1> QED
  BY <1>4, <1>5 DEF IoGrows, jo

LEMMA IoConcat ==
  ASSUME NEW io \in Seq(Handlers), NEW more \in Seq(Handlers)
  PROVE  /\ IoCbs(io \o more) = IoCbs(io) \cup IoCbs(more)
         /\ BareIo(more) => IoGrows(io, io \o more)
<1> DEFINE jo == io \o more
<1>1. /\ Len(io) \in Nat /\ Len(more) \in Nat
      /\ DOMAIN io = 1..Len(io) /\ DOMAIN more = 1..Len(more)
      /\ DOMAIN jo = 1..(Len(io) + Len(more))
      /\ \A i \in 1..Len(io) : jo[i] = io[i]
      /\ \A i \in 1..Len(more) : jo[Len(io) + i] = more[i]
  OBVIOUS
<1> HIDE DEF jo
<1>2. \A i \in 1..(Len(io) + Len(more)) :
        i \in 1..Len(io) \/ i - Len(io) \in 1..Len(more)
  BY <1>1
<1>3. /\ \A i \in 1..Len(io) : i \in DOMAIN jo
      /\ \A i \in 1..Len(more) : Len(io) + i \in DOMAIN jo
  BY <1>1
<1>4. ASSUME NEW i \in DOMAIN jo
      PROVE  \/ \E j \in DOMAIN io : jo[i] = io[j]
             \/ \E j \in DOMAIN more : jo[i] = more[j]
  <2>1. CASE i \in 1..Len(io)
    BY <1>1, <2>1
  <2>2. CASE i \notin 1..Len(io)
    <3>1. i - Len(io) \in 1..Len(more) /\ i = Len(io) + (i - Len(io))
      BY <1>1, <1>2, <2>2
    <3> QED
      BY <1>1, <3>1
  <2> QED
    BY <2>1, <2>2
<1>5. IoCbs(jo) = IoCbs(io) \cup IoCbs(more)
  <2>1. IoCbs(jo) \subseteq IoCbs(io) \cup IoCbs(more)
    BY <1>4 DEF IoCbs
  <2>2. ASSUME NEW i \in DOMAIN io PROVE io[i].cmd.cb \in IoCbs(jo)
    <3>1. i \in DOMAIN jo /\ jo[i] = io[i]
      BY <1>1, <1>3
    <3> QED
      BY <3>1 DEF IoCbs
  <2>3. ASSUME NEW i \in DOMAIN more PROVE more[i].cmd.cb \in IoCbs(jo)
    <3>1. Len(io) + i \in DOMAIN jo /\ jo[Len(io) + i] = more[i]
      BY <1>1, <1>3
    <3> QED
      BY <3>1 DEF IoCbs
  <2> QED
    BY <2>1, <2>2, <2>3 DEF IoCbs
<1>6. BareIo(more) /\ BareIo(io) => BareIo(jo)
  BY <1>1, <1>4 DEF BareIo
<1> QED
  BY <1>5, <1>6 DEF IoGrows, jo

-----------------------------------------------------------------------------
(* Methods that say nothing to the job. *)

LEMMA PostKeeps ==
  ASSUME NEW p \in Printers, NEW h \in Completions
  PROVE  Keeps(p, Post(p, h))
<1>1. /\ p.io \in Seq(Handlers) /\ Handler(h) \in Handlers
      /\ Handler(h).cmd.cb = "none"
  BY HandlerType DEF Printers, Handler, Bare
<1>2. /\ Post(p, h).io = Append(p.io, Handler(h))
      /\ Post(p, h).job = p.job /\ Post(p, h).halted = p.halted
      /\ Post(p, h).queue = p.queue
  BY DEF Post, Printers
<1> QED
  BY <1>1, <1>2, IoAppend DEF Keeps

LEMMA SendCommandKeeps ==
  ASSUME NEW p \in Printers, NEW text \in Texts, NEW cb \in Callbacks
  PROVE  Keeps(p, SendCommand(p, text, cb))
<1> DEFINE q == SendCommand(p, text, cb)
<1>1. p.io \in Seq(Handlers) /\ Sending(text, cb) \in Handlers
      /\ Sending(text, cb).h = "send"
  BY SendingType DEF Printers
<1>2. /\ q.io = Append(p.io, Sending(text, cb)) /\ q.job = p.job
      /\ q.halted = p.halted /\ q.queue = p.queue
  BY DEF SendCommand, Printers
<1> QED
  BY <1>1, <1>2, IoAppend DEF Keeps

LEMMA BareSendings ==
  ASSUME NEW n \in Int, NEW texts, NEW cb
  PROVE  BareIo([i \in 1..n |-> Sending(texts[i], cb)])
BY DEF BareIo, Sending

LEMMA SendCommandsKeeps ==
  ASSUME NEW p \in Printers, NEW texts \in Seq(Texts)
  PROVE  Keeps(p, SendCommands(p, texts))
<1> DEFINE more == [i \in 1..Len(texts) |-> Sending(texts[i], "none")]
           q == SendCommands(p, texts)
<1>1. more \in Seq(Handlers)
  <2>1. Len(texts) \in Nat /\ \A i \in 1..Len(texts) : texts[i] \in Texts
    OBVIOUS
  <2> QED
    BY <2>1, SendingsType DEF Callbacks
<1>2. BareIo(more)
  <2>1. Len(texts) \in Int
    OBVIOUS
  <2> QED
    BY <2>1, BareSendings
<1>3. q = [p EXCEPT !.io = @ \o more]
  <2>1. DOMAIN texts = 1..Len(texts)
    OBVIOUS
  <2> QED
    BY <2>1 DEF SendCommands
<1> HIDE DEF more, q
<1>4. /\ q.io = p.io \o more /\ q.job = p.job /\ q.halted = p.halted
      /\ q.queue = p.queue /\ p.io \in Seq(Handlers)
  BY <1>3 DEF Printers
<1> QED
  BY <1>1, <1>2, <1>4, IoConcat DEF Keeps, q

LEMMA DoReadKeeps ==
  ASSUME NEW p \in Printers
  PROVE  Keeps(p, DoRead(p))
<1>1. CASE p.rx # << >>
  BY <1>1, PostKeeps DEF DoRead, Completions
<1>2. CASE p.rx = << >> /\ ~Readable(p)
  BY <1>2, PostKeeps DEF DoRead, Completions
<1>3. CASE p.rx = << >> /\ Readable(p)
  BY <1>3 DEF DoRead, Printers, Keeps, IoGrows
<1> QED
  BY <1>1, <1>2, <1>3

LEMMA TransmitKeeps ==
  ASSUME NEW p \in Printers, NEW frame \in Frames
  PROVE  Keeps(p, Transmit(p, frame))
<1> DEFINE q == [p EXCEPT !.executing = frame.text, !.resend = NoLine,
                          !.quiet = 0]
<1>1. q \in Printers
  <2>1. frame.text \in Texts /\ NoLine \in Int
    BY DEF Frames, NoLine
  <2> QED
    BY <2>1 DEF Printers
<1>2. q.job = p.job /\ q.halted = p.halted /\ q.queue = p.queue /\ q.io = p.io
  BY DEF Printers
<1>3. Keeps(p, q)
  BY <1>2 DEF Keeps, IoGrows
<1>4. Transmit(p, frame) =
        IF Writable(p) THEN [q EXCEPT !.tx = Append(@, frame)]
        ELSE IF p.port = "opening" THEN [q EXCEPT !.held = Append(@, frame)]
        ELSE Post(q, "writeErr")
  BY DEF Transmit
<1> HIDE DEF q
<1>5. /\ Keeps(q, [q EXCEPT !.tx = Append(@, frame)])
      /\ Keeps(q, [q EXCEPT !.held = Append(@, frame)])
  BY <1>1 DEF Printers, Keeps, IoGrows
<1>6. Keeps(q, Post(q, "writeErr"))
  BY <1>1, PostKeeps DEF Completions
<1> QED
  BY <1>3, <1>4, <1>5, <1>6, KeepsTrans

LEMMA ArmReconnectKeeps ==
  ASSUME NEW p \in Printers, NEW what \in {"idle", "reconnect", "init"}
  PROVE  Keeps(p, ArmReconnect(p, what))
<1> DEFINE io == IF p.reconnectTimer = "init"
                   THEN Append(p.io, Handler("init")) ELSE p.io
           q == ArmReconnect(p, what)
<1>1. q = [p EXCEPT !.reconnectTimer = what, !.io = io]
  BY DEF ArmReconnect, CancelReconnect, Printers
<1>2. IoGrows(p.io, io)
  <2>1. /\ p.io \in Seq(Handlers) /\ Handler("init") \in Handlers
        /\ Handler("init").cmd.cb = "none"
    BY HandlerType DEF Printers, Handler, Completions, Bare
  <2> QED
    BY <2>1, IoAppend DEF IoGrows
<1> HIDE DEF io, q
<1>3. /\ q.job = p.job /\ q.halted = p.halted /\ q.queue = p.queue
      /\ q.io = io
  BY <1>1 DEF Printers
<1> QED
  BY <1>2, <1>3 DEF Keeps, q

(***************************************************************************)
(* What doWrite writes: the front of the queue, or the M110 that resets    *)
(* the line numbers.                                                       *)
(***************************************************************************)
LEMMA DoWriteKeeps ==
  ASSUME NEW p \in Printers
  PROVE  /\ Keeps(p, DoWrite(p))
         /\ \/ DoWrite(p) = p /\ (p.executing # NoCommand \/ p.queue = << >>)
            \/ /\ p.executing = NoCommand /\ p.queue # << >>
               /\ DoWrite(p).executing \in {"M110", Head(p.queue).text}
<1>1. CASE p.executing # NoCommand \/ p.queue = << >>
  BY <1>1 DEF DoWrite, MayWrite, Keeps, IoGrows
<1>2. CASE ~(p.executing # NoCommand \/ p.queue = << >>)
  <2> DEFINE text == Head(p.queue).text
             numbered == UsesLineNumber(text)
             mode == CommandEffects(p.mode, text)
             lineNo == IF numbered THEN p.lineNo + 1 ELSE p.lineNo
             history == IF numbered
                          THEN Remember(p.history, [line |-> p.lineNo, text |-> text])
                          ELSE p.history
             q == IF NumbersUsedUp(p) THEN [p EXCEPT !.lineNo = 0]
                  ELSE [p EXCEPT !.mode = mode, !.lineNo = lineNo,
                                 !.history = history]
             frame == IF NumbersUsedUp(p) THEN [n |-> NoLine, text |-> "M110"]
                      ELSE [n |-> IF numbered THEN p.lineNo ELSE NoLine,
                            text |-> text]
  <2>1. /\ p.queue \in Seq(Commands) /\ p.queue # << >>
        /\ p.lineNo \in 0..MaxLineNo
        /\ p.history \in Seq(Sent) /\ p.mode \in Modes
    BY <1>2 DEF Printers
  <2>2. Head(p.queue) \in Commands
    BY <2>1
  <2>3. text \in Texts /\ "M110" \in Texts
    BY <2>2 DEF Commands, Texts, OwnTexts
  <2>4. DoWrite(p) = Transmit(q, frame)
    BY <1>2 DEF DoWrite, MayWrite
  <2> HIDE DEF text, numbered
  <2>5. /\ frame \in Frames /\ frame.text \in {"M110", text}
        /\ ~NumbersUsedUp(p) => lineNo \in 0..MaxLineNo
    BY <2>1, <2>3, LimitAssumption DEF Frames, NoLine, NumbersUsedUp
  <2>6. ~NumbersUsedUp(p) => history \in Seq(Sent) /\ mode \in Modes
    <3>1. ~NumbersUsedUp(p) => [line |-> p.lineNo, text |-> text] \in Sent
      BY <2>1, <2>3, LimitAssumption DEF Sent, NumbersUsedUp
    <3> QED
      BY <2>1, <3>1, RememberType, CommandEffectsType
  <2> HIDE DEF frame, lineNo, history, mode
  <2>7. q \in Printers
    BY <2>5, <2>6, LineNumbers DEF Printers
  <2>8. /\ q.job = p.job /\ q.halted = p.halted /\ q.queue = p.queue
        /\ q.io = p.io
    BY DEF Printers
  <2> HIDE DEF q
  <2>9. Keeps(p, q)
    BY <2>8 DEF Keeps, IoGrows
  <2>10. Keeps(q, Transmit(q, frame))
    BY <2>5, <2>7, TransmitKeeps
  <2>11. Transmit(q, frame).executing = frame.text
    <3> DEFINE r == [q EXCEPT !.executing = frame.text, !.resend = NoLine,
                              !.quiet = 0]
    <3>1. r \in Printers /\ r.executing = frame.text
      <4>1. frame.text \in Texts /\ NoLine \in Int
        BY <2>5 DEF Frames, NoLine
      <4> QED
        BY <2>7, <4>1 DEF Printers
    <3>2. Transmit(q, frame) =
            IF Writable(q) THEN [r EXCEPT !.tx = Append(@, frame)]
            ELSE IF q.port = "opening" THEN [r EXCEPT !.held = Append(@, frame)]
            ELSE Post(r, "writeErr")
      BY DEF Transmit
    <3> HIDE DEF r
    <3>3. Post(r, "writeErr").executing = r.executing
      BY <3>1, PostLemma DEF Completions, SameQueue
    <3>4. /\ [r EXCEPT !.tx = Append(@, frame)].executing = r.executing
          /\ [r EXCEPT !.held = Append(@, frame)].executing = r.executing
      BY <3>1 DEF Printers
    <3> QED
      BY <3>1, <3>2, <3>3, <3>4
  <2>12. Keeps(p, DoWrite(p))
    BY <2>4, <2>9, <2>10, KeepsTrans
  <2> QED
    BY <1>2, <2>4, <2>5, <2>11, <2>12 DEF text
<1> QED
  BY <1>1, <1>2

LEMMA SendKeeps ==
  ASSUME NEW p \in Printers, NEW cmd \in Commands
  PROVE  /\ QueueCbs(p.queue) \cup {cmd.cb} \subseteq QueueCbs(Send(p, cmd).queue)
         /\ Send(p, cmd).job.st = p.job.st /\ Send(p, cmd).halted = p.halted
         /\ IoGrows(p.io, Send(p, cmd).io)
         /\ Send(p, cmd).queue = Append(p.queue, cmd)
         /\ \/ p.executing # NoCommand /\ Send(p, cmd).executing = p.executing
            \/ Send(p, cmd).executing \in
                 {"M110", Head(Send(p, cmd).queue).text}
<1> DEFINE q == [p EXCEPT !.queue = Append(@, cmd)]
<1>1. p.queue \in Seq(Commands)
  BY DEF Printers
<1>2. /\ Append(p.queue, cmd) \in Seq(Commands) /\ Append(p.queue, cmd) # << >>
      /\ Len(p.queue) \in Nat /\ DOMAIN p.queue = 1..Len(p.queue)
      /\ DOMAIN Append(p.queue, cmd) = 1..(Len(p.queue) + 1)
      /\ Append(p.queue, cmd)[Len(p.queue) + 1] = cmd
      /\ \A i \in 1..Len(p.queue) : Append(p.queue, cmd)[i] = p.queue[i]
  BY <1>1
<1>3. QueueCbs(p.queue) \cup {cmd.cb} \subseteq QueueCbs(Append(p.queue, cmd))
  <2>1. /\ 1..Len(p.queue) \subseteq 1..(Len(p.queue) + 1)
        /\ Len(p.queue) + 1 \in 1..(Len(p.queue) + 1)
    BY <1>2
  <2> QED
    BY <1>2, <2>1 DEF QueueCbs
<1>4. q \in Printers
  BY <1>2 DEF Printers
<1>5. /\ q.queue = Append(p.queue, cmd) /\ q.job = p.job
      /\ q.halted = p.halted /\ q.io = p.io /\ q.executing = p.executing
  BY DEF Printers
<1>6. Send(p, cmd) = DoWrite(q)
  BY DEF Send
<1> HIDE DEF q
<1> QED
  BY <1>2, <1>3, <1>4, <1>5, <1>6, DoWriteKeeps DEF Keeps

-----------------------------------------------------------------------------
(* The callback of the job. *)

(***************************************************************************)
(* A call of lineProcessed leaves the job running only with its next line  *)
(* on the way.                                                             *)
(***************************************************************************)
LEMMA LinesProcessedAlive ==
  ASSUME NEW p \in Printers, NEW n \in Nat, BareIo(p.io)
  PROVE  LET q == LinesProcessed(p, n)
         IN  /\ n = 0 => q = p
             /\ n > 0 /\ q.job.st = "Running" => "job" \in IoCbs(q.io)
             /\ q.halted = p.halted /\ IoGrows(p.io, q.io)
<1> DEFINE rest == Len(JobFile) - p.job.pos
           k == IF n <= rest THEN n ELSE rest
           next == [i \in 1..k |-> JobFile[p.job.pos + i]]
           more == [i \in 1..k |-> Sending(next[i], "job")]
           q == LinesProcessed(p, n)
<1>1. /\ p.io \in Seq(Handlers) /\ p.job \in Jobs
      /\ p.job.pos \in Nat /\ p.job.st \in JobStates
  BY DEF Printers, Jobs
<1>2. rest \in Int /\ k \in Int /\ p.job.pos + k \in Nat
  BY <1>1, TextAssumption
<1>3. more \in Seq(Handlers) /\ BareIo(more)
  <2>1. \A i \in 1..k : next[i] \in Texts
    BY <1>1, <1>2, TextAssumption
  <2> HIDE DEF next
  <2> QED
    BY <1>2, <2>1, SendingsType, BareSendings DEF Callbacks
<1>4. CASE p.job.st # "Running" \/ n = 0
  <2>1. q = p
    BY <1>4 DEF LinesProcessed, Continues
  <2> QED
    BY <1>4, <2>1 DEF IoGrows
<1>5. CASE ~(p.job.st # "Running" \/ n = 0) /\ p.state # "Connected"
  <2> DEFINE job == [p.job EXCEPT !.st = "Error",
                                  !.pos = p.job.pos + (IF rest > 0 THEN 1 ELSE 0),
                                  !.ended = p.job.ended \/ rest <= 0]
  <2>1. q = [p EXCEPT !.job = job]
    BY <1>5 DEF LinesProcessed, Continues
  <2>2. job.st = "Error"
    BY <1>1 DEF Jobs
  <2> HIDE DEF job
  <2>3. q.job = job /\ q.halted = p.halted /\ q.io = p.io
    BY <2>1 DEF Printers
  <2> QED
    BY <1>5, <2>2, <2>3 DEF IoGrows
<1>6. CASE ~(p.job.st # "Running" \/ n = 0) /\ p.state = "Connected"
  <2> DEFINE job == [p.job EXCEPT !.st = IF n > rest THEN "Done" ELSE "Running",
                                  !.pos = p.job.pos + k,
                                  !.ended = p.job.ended \/ n > rest]
  <2>1. q = [p EXCEPT !.job = job, !.io = @ \o more]
    BY <1>6, <1>2 DEF LinesProcessed, Continues, Exhausted
  <2>2. job.st = IF n > rest THEN "Done" ELSE "Running"
    BY <1>1 DEF Jobs
  <2>3. n <= rest => "job" \in IoCbs(more)
    <3>1. ASSUME n <= rest PROVE 1 \in DOMAIN more /\ more[1].cmd.cb = "job"
      BY <1>2, <1>6, <3>1 DEF Sending
    <3> HIDE DEF more
    <3> QED
      BY <3>1 DEF IoCbs
  <2> HIDE DEF job, more
  <2>4. /\ q.job = job /\ q.halted = p.halted /\ q.io = p.io \o more
    BY <2>1 DEF Printers
  <2>5. IoCbs(q.io) = IoCbs(p.io) \cup IoCbs(more) /\ IoGrows(p.io, q.io)
    BY <1>1, <1>3, <2>4, IoConcat
  <2>6. n > rest \/ n <= rest
    BY <1>2
  <2> QED
    BY <1>6, <2>2, <2>3, <2>4, <2>5, <2>6 DEF IoGrows
<1> QED
  BY <1>4, <1>5, <1>6

(* A queue that is reset calls every callback in it. *)
LEMMA ResetCommandQueueAlive ==
  ASSUME NEW p \in Printers, Alive(p)
  PROVE  Alive(ResetCommandQueue(p))
<1> DEFINE with(cb) == {i \in DOMAIN p.queue : p.queue[i].cb = cb}
           r == [p EXCEPT !.resend = NoLine, !.pendingError = FALSE,
                          !.queue = << >>,
                          !.tempTimer = @ \/ with("temp") # {},
                          !.replies = @ + Cardinality(with("client")),
                          !.halted = @ \/ with("stale") # {}]
<1>1. with("job") \subseteq 1..Len(p.queue) /\ Len(p.queue) \in Nat
  BY DEF Printers
<1>2. IsFiniteSet(with("job")) /\ Cardinality(with("job")) \in Nat
  <2>1. IsFiniteSet(1..Len(p.queue))
    BY <1>1, FS_Interval
  <2> QED
    BY <1>1, <2>1, FS_Subset, FS_CardinalityType
<1>3. r \in Printers
  <2> DEFINE timer == p.tempTimer \/ with("temp") # {}
             crash == p.halted \/ with("stale") # {}
             calls == p.replies + Cardinality(with("client"))
  <2>1. timer \in BOOLEAN /\ crash \in BOOLEAN
    OBVIOUS
  <2>2. calls \in Nat
    <3>1. p.replies \in Nat
      BY DEF Printers
    <3>2. Cardinality(with("client")) \in Nat
      BY CallbacksCounted
    <3> HIDE DEF with
    <3> QED
      BY <3>1, <3>2
  <2>3. r = [p EXCEPT !.resend = NoLine, !.pendingError = FALSE,
                      !.queue = << >>, !.tempTimer = timer,
                      !.replies = calls, !.halted = crash]
    BY DEF Printers
  <2> HIDE DEF timer, crash, calls, r
  <2> QED
    BY <2>1, <2>2, <2>3, DroppedType
<1>4. /\ r.job = p.job /\ r.io = p.io /\ r.queue = << >>
      /\ r.halted = (p.halted \/ with("stale") # {})
  BY DEF Printers
<1>5. ResetCommandQueue(p) = LinesProcessed(r, Cardinality(with("job")))
  BY DEF ResetCommandQueue
<1>6. Cardinality(with("job")) = 0 => "job" \notin QueueCbs(p.queue)
  BY <1>2, FS_EmptySet DEF QueueCbs
<1> HIDE DEF with, r
<1>7. BareIo(r.io)
  BY <1>4 DEF Alive
<1>8. CASE Cardinality(with("job")) = 0
  <2>1. ResetCommandQueue(p) = r
    BY <1>3, <1>5, <1>7, <1>8, LinesProcessedAlive
  <2> QED
    BY <1>4, <1>6, <1>8, <2>1 DEF Alive
<1>9. CASE Cardinality(with("job")) # 0
  <2>1. Cardinality(with("job")) > 0
    BY <1>2, <1>9
  <2> QED
    BY <1>2, <1>3, <1>5, <1>7, <2>1, LinesProcessedAlive DEF Alive, IoGrows
<1> QED
  BY <1>8, <1>9

LEMMA SameAlive ==
  ASSUME NEW p, NEW q, Alive(p), q.job = p.job, q.halted = p.halted,
         q.queue = p.queue, q.io = p.io
  PROVE  Alive(q)
BY DEF Alive

LEMMA SetStateAlive ==
  ASSUME NEW p \in Printers, NEW s \in States, Alive(p)
  PROVE  Alive(SetState(p, s))
<1> DEFINE r == IF s = "Error" THEN ResetCommandQueue(p) ELSE p
<1>1. r \in Printers /\ Alive(r)
  BY ResetCommandQueueLemma, ResetCommandQueueAlive
<1>2. SetState(p, s) = IF s = p.state THEN p ELSE [r EXCEPT !.state = s]
  BY DEF SetState
<1> HIDE DEF r
<1>3. Alive([r EXCEPT !.state = s])
  BY <1>1, SameAlive DEF Printers
<1> QED
  BY <1>2, <1>3

LEMMA JobSetErrorAlive ==
  ASSUME NEW p \in Printers, Alive(p)
  PROVE  Alive(JobSetError(p))
<1>1. /\ JobSetError(p).job.st = "Error" /\ JobSetError(p).io = p.io
  BY DEF JobSetError, Printers, Jobs
<1> QED
  BY <1>1 DEF Alive

LEMMA RaiseErrorAlive ==
  ASSUME NEW p \in Printers, Alive(p)
  PROVE  Alive(RaiseError(p))
<1> DEFINE r == ResetCommandQueue(p)
           e == SetState(r, "Error")
<1>1. r \in Printers /\ Alive(r)
  BY ResetCommandQueueLemma, ResetCommandQueueAlive
<1> HIDE DEF r
<1>2. e \in Printers /\ Alive(e)
  BY <1>1, SetStateLemma, SetStateAlive DEF States
<1>3. Alive(JobSetError(e))
  BY <1>2, JobSetErrorAlive
<1>4. RaiseError(p) \in {r, e, JobSetError(e)}
  BY DEF RaiseError, r
<1> QED
  BY <1>1, <1>2, <1>3, <1>4

LEMMA ResetAlive ==
  ASSUME NEW p \in Printers, Alive(p)
  PROVE  Alive(Reset(p))
<1> DEFINE io == IF p.connecting THEN Append(p.io, Handler("connectErr"))
                 ELSE p.io
           closed == [p EXCEPT !.port = "closed", !.joined = FALSE,
                               !.reads = 0, !.held = << >>,
                               !.wire = << >>, !.connecting = FALSE,
                               !.io = io]
           idle == ArmReconnect(closed, "idle")
           quiet == [idle EXCEPT !.timeoutTimer = "idle",
                                 !.executing = NoCommand]
<1>1. io \in Seq(Handlers) /\ IoGrows(p.io, io)
  <2>1. /\ p.io \in Seq(Handlers) /\ Handler("connectErr") \in Handlers
        /\ Handler("connectErr").cmd.cb = "none"
    BY HandlerType DEF Printers, Completions, Handler, Bare
  <2> QED
    BY <2>1, IoAppend DEF IoGrows
<1> HIDE DEF io
<1>2. closed \in Printers
  <2>1. << >> \in Seq(Lines) /\ << >> \in Seq(Frames)
    OBVIOUS
  <2> QED
    BY <1>1, <2>1, ClosedType
<1>3. Keeps(p, closed)
  BY <1>1 DEF Printers, Keeps
<1> HIDE DEF closed
<1>4. idle \in Printers /\ Keeps(closed, idle)
  BY <1>2, ArmReconnectLemma, ArmReconnectKeeps
<1>5. idle = CancelReconnect(closed)
  BY <1>2 DEF ArmReconnect, CancelReconnect, Printers
<1> HIDE DEF idle
<1>6. quiet \in Printers
  BY <1>4 DEF Printers
<1>7. Keeps(idle, quiet)
  BY <1>4 DEF Printers, Keeps, IoGrows
<1>8. Reset(p) = ResetCommandQueue(quiet)
  BY <1>5 DEF Reset, quiet, closed, io
<1> HIDE DEF quiet
<1>9. Alive(quiet)
  BY <1>3, <1>4, <1>7, KeepsAlive
<1> QED
  BY <1>6, <1>8, <1>9, ResetCommandQueueAlive

-----------------------------------------------------------------------------
(* Connecting. *)

LEMMA ConnectedAlive ==
  ASSUME NEW p \in Printers, Alive(p)
  PROVE  Alive(Connected(p))
<1> DEFINE q == SetState(p, "Initializing")
           r == DoRead(q)
           s == [r EXCEPT !.quiet = 0, !.timeoutTimer = "check"]
<1>1. q \in Printers /\ Alive(q)
  BY SetStateLemma, SetStateAlive DEF States
<1> HIDE DEF q
<1>2. r \in Printers /\ Alive(r)
  BY <1>1, DoReadLemma, DoReadKeeps, KeepsAlive
<1> HIDE DEF r
<1>3. s \in Printers
  BY <1>2 DEF Printers
<1>4. Alive(s)
  BY <1>2, SameAlive DEF Printers
<1>5. Connected(p) = ArmReconnect(s, "init")
  BY <1>2 DEF Connected, SetupTimeoutCheck, s, r, q, Printers
<1> HIDE DEF s
<1> QED
  BY <1>3, <1>4, <1>5, ArmReconnectKeeps, KeepsAlive

LEMMA SetupReconnectAlive ==
  ASSUME NEW p \in Printers, Alive(p)
  PROVE  Alive(SetupReconnect(p))
BY ArmReconnectKeeps, KeepsAlive DEF SetupReconnect

LEMMA PortAlive ==
  ASSUME NEW p \in Printers, Alive(p),
         NEW port \in {"closed", "opening", "open", "dead", "stuck"}
  PROVE  /\ [p EXCEPT !.port = port] \in Printers
         /\ Alive([p EXCEPT !.port = port])
<1>1. [p EXCEPT !.port = port] \in Printers
  BY DEF Printers
<1> QED
  BY <1>1, SameAlive DEF Printers

LEMMA OpenSerialAlive ==
  ASSUME NEW p \in Printers, Alive(p)
  PROVE  Alive(OpenSerial(p))
BY PortAlive, SetupReconnectAlive, ConnectedAlive DEF OpenSerial

LEMMA BareHandlers ==
  ASSUME NEW n \in Nat, NEW h \in Completions
  PROVE  /\ [i \in 1..n |-> Handler(h)] \in Seq(Handlers)
         /\ BareIo([i \in 1..n |-> Handler(h)])
BY HandlersRepeated DEF BareIo, Handler, Bare

LEMMA FailWaitingKeeps ==
  ASSUME NEW p \in Printers
  PROVE  Keeps(p, FailWaiting(p))
<1> DEFINE writes == [i \in DOMAIN p.held |-> Handler("writeErr")]
           fails == [i \in 1..p.reads |-> Handler("readErr")]
           io == p.io \o writes \o fails
<1>1. /\ writes \in Seq(Handlers) /\ fails \in Seq(Handlers)
      /\ BareIo(writes) /\ BareIo(fails)
  <2>1. /\ DOMAIN p.held = 1..Len(p.held) /\ Len(p.held) \in Nat
        /\ p.reads \in Nat
    BY DEF Printers
  <2> QED
    BY <2>1, BareHandlers DEF Completions
<1>2. FailWaiting(p) = [p EXCEPT !.reads = 0, !.held = << >>, !.io = io]
  BY DEF FailWaiting
<1> HIDE DEF writes, fails
<1>3. /\ p.io \in Seq(Handlers) /\ p.io \o writes \in Seq(Handlers)
  BY <1>1, ConcatProperties DEF Printers
<1>4. IoGrows(p.io, p.io \o writes) /\ IoGrows(p.io \o writes, io)
  BY <1>1, <1>3, IoConcat
<1>5. IoGrows(p.io, io)
  BY <1>4 DEF IoGrows
<1> HIDE DEF io
<1> QED
  BY <1>2, <1>5 DEF Keeps, Printers

LEMMA OpenSocketKeeps ==
  ASSUME NEW p \in Printers
  PROVE  Keeps(p, OpenSocket(p))
<1> DEFINE q == [p EXCEPT !.timeoutTimer = "idle"]
           j == [q EXCEPT !.joined = TRUE]
           f == [Post(q, "connectErr") EXCEPT !.port = "closed"]
           o == [p EXCEPT !.port = "opening", !.connecting = TRUE,
                          !.timeoutTimer = "connect"]
<1>1. /\ q \in Printers /\ Keeps(p, q) /\ j \in Printers /\ Keeps(p, j)
      /\ Keeps(p, o)
  BY DEF Printers, Keeps, IoGrows
<1> HIDE DEF q, j, o
<1>2. /\ Post(q, "connectErr") \in Printers
      /\ Keeps(p, Post(q, "connectErr")) /\ Keeps(p, Post(j, "connectOk"))
  BY <1>1, PostLemma, PostKeeps, KeepsTrans DEF Completions
<1>3. f \in Printers /\ Keeps(Post(q, "connectErr"), f)
  BY <1>2 DEF Printers, Keeps, IoGrows
<1> HIDE DEF f
<1>4. Keeps(p, FailWaiting(f))
  BY <1>2, <1>3, FailWaitingKeeps, KeepsTrans
<1>5. OpenSocket(p) \in {o, Post(j, "connectOk"), FailWaiting(f),
                         Post(q, "connectErr")}
  BY DEF OpenSocket, q, j, f, o
<1> QED
  BY <1>1, <1>2, <1>4, <1>5

LEMMA OpenSocketAlive ==
  ASSUME NEW p \in Printers, Alive(p)
  PROVE  Alive(OpenSocket(p))
BY OpenSocketKeeps, KeepsAlive

LEMMA DoConnectAlive ==
  ASSUME NEW p \in Printers, Alive(p)
  PROVE  Alive(DoConnect(p))
BY OpenSerialAlive, OpenSocketAlive DEF DoConnect

LEMMA ConnectDoneAlive ==
  ASSUME NEW p \in Printers, Alive(p), NEW ok \in BOOLEAN
  PROVE  Alive(ConnectDone(p, ok))
<1> DEFINE q == [p EXCEPT !.timeoutTimer = "idle"]
<1>1. q \in Printers
  BY DEF Printers
<1>2. Alive(q)
  BY SameAlive DEF Printers
<1> HIDE DEF q
<1>3. ConnectDone(p, ok) = IF ok THEN Connected(q) ELSE SetupReconnect(q)
  BY DEF ConnectDone, q
<1> QED
  BY <1>1, <1>2, <1>3, ConnectedAlive, SetupReconnectAlive

LEMMA ConnectTimeoutAlive ==
  ASSUME NEW p \in Printers, Alive(p)
  PROVE  Alive(ConnectTimeout(p))
<1> DEFINE io == IF p.connecting THEN Append(p.io, Handler("connectErr"))
                 ELSE p.io
           q == [p EXCEPT !.connecting = FALSE, !.reads = 0,
                          !.held = << >>, !.io = io]
<1>1. io \in Seq(Handlers) /\ IoGrows(p.io, io)
  <2>1. /\ p.io \in Seq(Handlers) /\ Handler("connectErr") \in Handlers
        /\ Handler("connectErr").cmd.cb = "none"
    BY HandlerType DEF Printers, Completions, Handler, Bare
  <2> QED
    BY <2>1, IoAppend DEF IoGrows
<1>2. ConnectTimeout(p) = SetupReconnect(IF p.path = "tcp" THEN q ELSE p)
  BY DEF ConnectTimeout
<1> HIDE DEF io
<1>3. q \in Printers
  <2>1. << >> \in Seq(Lines) /\ << >> \in Seq(Frames)
    OBVIOUS
  <2> QED
    BY <1>1, <2>1, ClosedType
<1>4. Keeps(p, q)
  BY <1>1 DEF Printers, Keeps
<1> HIDE DEF q
<1> QED
  BY <1>2, <1>3, <1>4, KeepsAlive, SetupReconnectAlive

LEMMA LoseConnectionAlive ==
  ASSUME NEW p \in Printers, Alive(p)
  PROVE  Alive(LoseConnection(p))
<1> DEFINE q == SetState(p, "Disconnected")
<1>1. q \in Printers /\ Alive(q)
  BY SetStateLemma, SetStateAlive DEF States
<1>2. Reset(q) \in Printers /\ Alive(Reset(q))
  BY <1>1, ResetLemma, ResetAlive
<1> QED
  BY <1>2, DoConnectAlive DEF LoseConnection

LEMMA TimeoutCheckAlive ==
  ASSUME NEW p \in Printers, Alive(p)
  PROVE  Alive(TimeoutCheck(p))
<1>1. Alive(SetupTimeoutCheck(p))
  BY SameAlive DEF SetupTimeoutCheck, Printers
<1> QED
  BY <1>1, LoseConnectionAlive DEF TimeoutCheck

LEMMA InitializeAlive ==
  ASSUME NEW p \in Printers, Alive(p)
  PROVE  Alive(Initialize(p))
<1> DEFINE q == SendCommand(p, "M110", "none")
           r == [q EXCEPT !.lineNo = 1]
           s == SendCommand(r, "M115", "info")
<1>1. q \in Printers /\ Alive(q)
  BY SendCommandLemma, SendCommandKeeps, KeepsAlive
     DEF Texts, OwnTexts, Callbacks
<1> HIDE DEF q
<1>2. r \in Printers
  BY <1>1, LineNumbers DEF Printers
<1>3. Alive(r)
  BY <1>1, SameAlive DEF Printers
<1> HIDE DEF r
<1>4. s \in Printers /\ Alive(s)
  BY <1>2, <1>3, SendCommandLemma, SendCommandKeeps, KeepsAlive
     DEF Texts, OwnTexts, Callbacks
<1>5. Initialize(p) = DoWrite(s)
  BY DEF Initialize, s, r, q
<1> HIDE DEF s
<1> QED
  BY <1>4, <1>5, DoWriteKeeps, KeepsAlive

LEMMA GetTemperatureKeeps ==
  ASSUME NEW p \in Printers
  PROVE  Keeps(p, GetTemperature(p))
<1>1. Keeps(p, p)
  BY DEF Keeps, IoGrows
<1>2. Keeps(p, SendCommand(p, "M105", "temp"))
  BY SendCommandKeeps DEF Texts, OwnTexts, Callbacks
<1> QED
  BY <1>1, <1>2 DEF GetTemperature

LEMMA ShowStartupMessageKeeps ==
  ASSUME NEW p \in Printers
  PROVE  Keeps(p, ShowStartupMessage(p))
BY SendCommandKeeps DEF ShowStartupMessage, Texts, OwnTexts, Callbacks

-----------------------------------------------------------------------------
(* What the printer says. *)

LEMMA QueueTail ==
  ASSUME NEW queue \in Seq(Commands), queue # << >>
  PROVE  /\ Tail(queue) \in Seq(Commands)
         /\ QueueCbs(queue) = QueueCbs(Tail(queue)) \cup {Head(queue).cb}
<1>1. /\ Len(queue) \in Nat /\ Len(queue) > 0 /\ DOMAIN queue = 1..Len(queue)
      /\ queue[1] = Head(queue) /\ Tail(queue) \in Seq(Commands)
      /\ DOMAIN Tail(queue) = 1..(Len(queue) - 1)
      /\ \A i \in 1..(Len(queue) - 1) : Tail(queue)[i] = queue[i + 1]
  OBVIOUS
<1>2. \A i \in 1..Len(queue) : i = 1 \/ i - 1 \in 1..(Len(queue) - 1)
  BY <1>1
<1>3. /\ \A i \in 1..(Len(queue) - 1) : i + 1 \in 1..Len(queue)
      /\ 1 \in 1..Len(queue)
  BY <1>1
<1>4. ASSUME NEW i \in DOMAIN queue
      PROVE  queue[i].cb \in QueueCbs(Tail(queue)) \cup {Head(queue).cb}
  <2>1. CASE i = 1
    BY <1>1, <2>1
  <2>2. CASE i # 1
    <3>1. i - 1 \in DOMAIN Tail(queue) /\ Tail(queue)[i - 1] = queue[i]
      BY <1>1, <1>2, <2>2
    <3> QED
      BY <3>1 DEF QueueCbs
  <2> QED
    BY <2>1, <2>2
<1>5. QueueCbs(Tail(queue)) \cup {Head(queue).cb} \subseteq QueueCbs(queue)
  BY <1>1, <1>3 DEF QueueCbs
<1> QED
  BY <1>1, <1>4, <1>5 DEF QueueCbs

LEMMA QueueConcat ==
  ASSUME NEW more \in Seq(Commands), NEW queue \in Seq(Commands)
  PROVE  QueueCbs(queue) \subseteq QueueCbs(more \o queue)
<1>1. /\ Len(more) \in Nat /\ Len(queue) \in Nat
      /\ DOMAIN queue = 1..Len(queue)
      /\ DOMAIN (more \o queue) = 1..(Len(more) + Len(queue))
      /\ \A i \in 1..Len(queue) : (more \o queue)[Len(more) + i] = queue[i]
  OBVIOUS
<1>2. ASSUME NEW i \in DOMAIN queue
      PROVE  queue[i].cb \in QueueCbs(more \o queue)
  <2>1. /\ Len(more) + i \in DOMAIN (more \o queue)
        /\ (more \o queue)[Len(more) + i] = queue[i]
    BY <1>1
  <2> QED
    BY <2>1 DEF QueueCbs
<1> QED
  BY <1>2 DEF QueueCbs

LEMMA AnswerAlive ==
  ASSUME NEW p \in Printers, Alive(p)
  PROVE  Alive(Answer(p))
<1> DEFINE cb == Head(p.queue).cb
           info == GetTemperature(ShowStartupMessage(SetState(p, "Connected")))
           called ==
             CASE cb = "info" -> info
               [] cb = "temp" -> [p EXCEPT !.tempTimer = TRUE]
               [] cb = "client" -> [p EXCEPT !.replies = @ + 1]
               [] cb = "job" -> LinesProcessed(p, 1)
               [] cb = "stale" -> [p EXCEPT !.halted = TRUE]
               [] OTHER -> p
           Called(q) ==
             /\ q \in Printers /\ q.queue = p.queue /\ BareIo(q.io)
             /\ q.job.st = "Running" /\ ~q.halted =>
                  \/ "job" \in IoCbs(q.io)
                  \/ "job" \in QueueCbs(p.queue) /\ cb # "job"
<1>1. CASE p.queue = << >>
  BY <1>1 DEF Answer
<1>2. CASE p.queue # << >>
  <2>1. Answer(p) = [called EXCEPT !.queue = Tail(@)]
    BY <1>2 DEF Answer
  <2>2. ASSUME NEW q \in Printers, Keeps(p, q), cb # "job"
        PROVE  Called(q)
    BY <2>2 DEF Keeps, IoGrows, Alive
  <2>3. info \in Printers /\ Keeps(p, info)
    <3> DEFINE q == SetState(p, "Connected")
               r == ShowStartupMessage(q)
    <3>1. q \in Printers
      BY SetStateLemma DEF States
    <3>2. Keeps(p, q)
      BY DEF SetState, Keeps, IoGrows, Printers
    <3> HIDE DEF q
    <3>3. r \in Printers /\ Keeps(q, r)
      BY <3>1, ShowStartupMessageLemma, ShowStartupMessageKeeps
    <3>4. info = GetTemperature(r)
      BY DEF q
    <3> HIDE DEF r, info
    <3>5. info \in Printers /\ Keeps(r, info)
      BY <3>3, <3>4, GetTemperatureLemma, GetTemperatureKeeps
    <3> QED
      BY <3>2, <3>3, <3>5, KeepsTrans
  <2>4. /\ [p EXCEPT !.tempTimer = TRUE] \in Printers
        /\ [p EXCEPT !.replies = @ + 1] \in Printers
        /\ Keeps(p, [p EXCEPT !.tempTimer = TRUE]) /\ Keeps(p, p)
        /\ Keeps(p, [p EXCEPT !.replies = @ + 1])
    <3>1. p.replies + 1 \in Nat
      BY DEF Printers
    <3> QED
      BY <3>1 DEF Printers, Keeps, IoGrows
  <2>5. Called([p EXCEPT !.halted = TRUE])
    BY DEF Printers, Alive
  <2>6. Called(LinesProcessed(p, 1))
    BY LinesProcessedLemma, LinesProcessedAlive
       DEF SameQueue, Alive, IoGrows
  <2> HIDE DEF Called, info
  <2>7. Called(called)
    <3>1. CASE cb = "info"
      BY <2>2, <2>3, <3>1
    <3>2. CASE cb = "temp"
      BY <2>2, <2>4, <3>2
    <3>3. CASE cb = "job"
      BY <2>6, <3>3
    <3>4. CASE cb = "stale"
      BY <2>5, <3>4
    <3>5. CASE cb = "client"
      BY <2>2, <2>4, <3>5
    <3>6. CASE cb \notin {"info", "temp", "client", "job", "stale"}
      BY <2>2, <2>4, <3>6
    <3> QED
      BY <3>1, <3>2, <3>3, <3>4, <3>5, <3>6
  <2> HIDE DEF called
  <2>8. QueueCbs(p.queue) = QueueCbs(Tail(p.queue)) \cup {cb}
    BY <1>2, QueueTail DEF Printers
  <2>9. /\ Answer(p).queue = Tail(p.queue) /\ Answer(p).job = called.job
        /\ Answer(p).halted = called.halted /\ Answer(p).io = called.io
    BY <2>1, <2>7 DEF Called, Printers
  <2> QED
    BY <2>7, <2>8, <2>9 DEF Called, Alive
<1> QED
  BY <1>1, <1>2

LEMMA HandleResendAlive ==
  ASSUME NEW p \in Printers, NEW line \in Int, line # NoLine, Alive(p)
  PROVE  Alive(HandleResend(p, line))
<1> DEFINE at == {i \in DOMAIN p.history : p.history[i].line = line}
           start == CHOOSE i \in at : \A j \in at : i <= j
           again == ResendLines(p.history, start)
           q == [p EXCEPT !.queue = again \o @,
                          !.history = SubSeq(@, 1, start - 1),
                          !.lineNo = line]
<1>1. CASE p.lineNo = line
  BY <1>1 DEF HandleResend
<1>2. CASE p.lineNo # line /\ at = {}
  BY <1>2, RaiseErrorAlive DEF HandleResend
<1>3. CASE p.lineNo # line /\ at # {}
  <2>1. HandleResend(p, line) = q
    BY <1>3 DEF HandleResend
  <2>2. again \in Seq(Commands)
    BY <1>3, ResendLinesType
  <2> HIDE DEF at, start, again
  <2>3. /\ q.queue = again \o p.queue /\ q.job = p.job
        /\ q.halted = p.halted /\ q.io = p.io /\ p.queue \in Seq(Commands)
    BY DEF Printers
  <2>4. QueueCbs(p.queue) \subseteq QueueCbs(again \o p.queue)
    BY <2>2, <2>3, QueueConcat
  <2> QED
    BY <2>1, <2>3, <2>4 DEF Alive
<1> QED
  BY <1>1, <1>2, <1>3

LEMMA NextCommandAlive ==
  ASSUME NEW p \in Printers, Alive(p)
  PROVE  Alive(NextCommand(p))
<1> DEFINE s == [p EXCEPT !.resend = NoLine, !.executing = NoCommand]
           w == DoWrite(s)
<1>1. s \in Printers
  <2>1. NoLine \in Int
    BY DEF NoLine
  <2> QED
    BY <2>1 DEF Printers
<1>2. Alive(s)
  BY SameAlive DEF Printers
<1> HIDE DEF s
<1>3. w \in Printers /\ Alive(w)
  BY <1>1, <1>2, DoWriteLemma, DoWriteKeeps, KeepsAlive
<1>4. NextCommand(p) = DoRead(w)
  BY DEF NextCommand, w, s
<1> HIDE DEF w
<1> QED
  BY <1>3, <1>4, DoReadKeeps, KeepsAlive

LEMMA ConfirmedAlive ==
  ASSUME NEW q \in Printers, Alive(q)
  PROVE  Alive(Confirmed(q))
<1> DEFINE p == [q EXCEPT !.rx = << >>]
           line == IF q.resend # NoLine THEN q.resend ELSE FirstResend(q.rx)
           r == [p EXCEPT !.lineNo = 1]
<1>1. p \in Printers
  <2>1. << >> \in Seq(Lines)
    OBVIOUS
  <2> QED
    BY <2>1 DEF Printers
<1>2. Alive(p)
  BY SameAlive DEF Printers
<1>3. line \in Int
  BY FirstResendType DEF Printers
<1>4. Confirmed(q) =
        IF p.lineNo = 0 THEN NextCommand(r)
        ELSE IF line # NoLine THEN NextCommand(HandleResend(p, line))
        ELSE IF p.pendingError THEN DoRead(RaiseError(p))
        ELSE NextCommand(Answer(p))
  BY DEF Confirmed
<1> HIDE DEF p, line
<1>5. r \in Printers
  BY <1>1, LineNumbers DEF Printers
<1>6. Alive(r)
  BY <1>1, <1>2, SameAlive DEF Printers
<1> HIDE DEF r
<1>7. Alive(NextCommand(r))
  BY <1>5, <1>6, NextCommandAlive
<1>8. line # NoLine => Alive(NextCommand(HandleResend(p, line)))
  BY <1>1, <1>2, <1>3, HandleResendLemma, HandleResendAlive,
     NextCommandAlive
<1>9. Alive(DoRead(RaiseError(p)))
  BY <1>1, <1>2, RaiseErrorLemma, RaiseErrorAlive, DoReadKeeps, KeepsAlive
<1>10. Alive(NextCommand(Answer(p)))
  BY <1>1, <1>2, AnswerLemma, AnswerAlive, NextCommandAlive
<1> QED
  BY <1>4, <1>7, <1>8, <1>9, <1>10

LEMMA RestartedAlive ==
  ASSUME NEW q \in Printers, Alive(q)
  PROVE  Alive(Restarted(q))
<1> DEFINE p == [q EXCEPT !.resend = NoLine, !.executing = NoCommand]
           failed == IF p.state # "Error" /\ p.job.st # "None"
                       THEN JobSetError(p) ELSE p
           f == [failed EXCEPT !.lineNo = MaxLineNo]
           m == ShowStartupMessage(f)
<1>1. p \in Printers
  <2>1. NoLine \in Int
    BY DEF NoLine
  <2> QED
    BY <2>1 DEF Printers
<1>2. Alive(p)
  BY SameAlive DEF Printers
<1>3. Restarted(q) = IF p.state \in {"Connected", "Error"} THEN DoWrite(m)
                     ELSE p
  BY DEF Restarted
<1> HIDE DEF p
<1>4. failed \in Printers /\ Alive(failed)
  <2>1. [p.job EXCEPT !.st = "Error"] \in Jobs
    BY <1>1 DEF Printers, Jobs, JobStates
  <2>2. JobSetError(p) = [p EXCEPT !.job = [p.job EXCEPT !.st = "Error"]]
    BY <1>1 DEF JobSetError, Printers
  <2>3. JobSetError(p) \in Printers
    BY <1>1, <2>1, <2>2 DEF Printers
  <2> QED
    BY <1>1, <1>2, <2>3, JobSetErrorAlive
<1> HIDE DEF failed
<1>5. f \in Printers
  BY <1>4, LineNumbers DEF Printers
<1>6. Alive(f)
  BY <1>4, SameAlive DEF Printers
<1> HIDE DEF f
<1>7. m \in Printers /\ Alive(m)
  BY <1>5, <1>6, ShowStartupMessageLemma, ShowStartupMessageKeeps, KeepsAlive
<1> HIDE DEF m
<1> QED
  BY <1>2, <1>3, <1>7, DoWriteKeeps, KeepsAlive

LEMMA ReadDoneAlive ==
  ASSUME NEW q \in Printers, Alive(q)
  PROVE  Alive(ReadDone(q))
<1> DEFINE line == IF q.rx = << >> THEN [t |-> "other", n |-> NoLine]
                   ELSE Head(q.rx)
           rx == IF q.rx = << >> THEN q.rx ELSE Tail(q.rx)
           resend == IF q.resend = NoLine /\ line.t = "resend" THEN line.n
                     ELSE q.resend
           p == [q EXCEPT !.quiet = 0, !.rx = rx, !.resend = resend]
           e == [p EXCEPT !.pendingError = TRUE]
<1>1. q.rx \in Seq(Lines) /\ q.resend \in Int
  BY DEF Printers
<1>2. line \in Lines /\ rx \in Seq(Lines)
  <2>1. [t |-> "other", n |-> NoLine] \in Lines
    BY DEF Lines, NoLine
  <2>2. q.rx # << >> => Head(q.rx) \in Lines /\ Tail(q.rx) \in Seq(Lines)
    BY <1>1
  <2> QED
    BY <1>1, <2>1, <2>2
<1>3. ReadDone(q) \in {Confirmed(p), DoRead(p), DoRead(Restarted(p)),
                       DoRead(e)}
  <2>1. line.t \in {"ok", "resend", "error", "start", "other"}
    BY <1>2 DEF Lines
  <2>2. ReadDone(q) =
          CASE line.t = "ok" -> Confirmed(p)
            [] line.t # "ok" /\ p.executing \in HeatWait -> DoRead(p)
            [] line.t = "start" /\ p.executing \notin HeatWait ->
                 DoRead(Restarted(p))
            [] line.t = "error" /\ p.executing \notin HeatWait -> DoRead(e)
            [] line.t \in {"resend", "other"} /\ p.executing \notin HeatWait ->
                 DoRead(p)
    BY DEF ReadDone
  <2> HIDE DEF line, p, e
  <2> QED
    BY <2>1, <2>2
<1> HIDE DEF line, rx
<1>4. resend \in Int
  BY <1>1, <1>2 DEF Lines
<1> HIDE DEF resend
<1>5. p \in Printers
  BY <1>2, <1>4 DEF Printers
<1>6. Alive(p)
  BY SameAlive DEF Printers
<1> HIDE DEF p
<1>7. e \in Printers /\ Alive(e)
  <2>1. e \in Printers
    BY <1>5 DEF Printers
  <2> QED
    BY <1>5, <1>6, <2>1, SameAlive DEF Printers
<1> HIDE DEF e
<1>8. Alive(Confirmed(p))
  BY <1>5, <1>6, ConfirmedAlive
<1>9. Alive(DoRead(p)) /\ Alive(DoRead(e))
  BY <1>5, <1>6, <1>7, DoReadKeeps, KeepsAlive
<1>10. Alive(DoRead(Restarted(p)))
  BY <1>5, <1>6, RestartedLemma, RestartedAlive, DoReadKeeps, KeepsAlive
<1> QED
  BY <1>3, <1>8, <1>9, <1>10

-----------------------------------------------------------------------------
(* The public methods, and those of the job. *)

LEMMA StartAlive ==
  ASSUME NEW p \in Printers, Alive(p)
  PROVE  Alive(Start(p))
<1>1. /\ SetState(p, "Disconnected") \in Printers
      /\ Alive(SetState(p, "Disconnected"))
  BY SetStateLemma, SetStateAlive DEF States
<1> QED
  BY <1>1, DoConnectAlive DEF Start

LEMMA StopAlive ==
  ASSUME NEW p \in Printers, Alive(p)
  PROVE  Alive(Stop(p))
<1>1. /\ SetState(p, "Stopped") \in Printers
      /\ Alive(SetState(p, "Stopped"))
  BY SetStateLemma, SetStateAlive DEF States
<1> QED
  BY <1>1, ResetAlive DEF Stop

LEMMA DeviceSettingsChangedAlive ==
  ASSUME NEW p \in Printers, Alive(p)
  PROVE  Alive(DeviceSettingsChanged(p))
<1>1. Reset(p) \in Printers /\ Alive(Reset(p))
  BY ResetLemma, ResetAlive
<1> QED
  BY <1>1, DoConnectAlive DEF DeviceSettingsChanged

LEMMA ResetPrinterAlive ==
  ASSUME NEW p \in Printers, Alive(p)
  PROVE  Alive(ResetPrinter(p))
BY SendCommandKeeps, KeepsAlive
   DEF ResetPrinter, Texts, OwnTexts, Callbacks

LEMMA JobFields ==
  ASSUME NEW p \in Printers, NEW job \in Jobs
  PROVE  /\ [p EXCEPT !.job = job] \in Printers
         /\ [p EXCEPT !.job = job].job = job
         /\ [p EXCEPT !.job = job].io = p.io
         /\ [p EXCEPT !.job = job].halted = p.halted
BY DEF Printers

LEMMA SendsBare ==
  ASSUME NEW p \in Printers, NEW texts \in Seq(Texts), BareIo(p.io)
  PROVE  /\ SendCommands(p, texts) \in Printers
         /\ BareIo(SendCommands(p, texts).io)
         /\ SendCommands(p, texts).job.st = p.job.st
BY SendCommandsLemma, SendCommandsKeeps DEF Keeps, IoGrows

LEMMA PrintLineAlive ==
  ASSUME NEW p \in Printers, BareIo(p.io)
  PROVE  Alive(PrintLine(p))
BY LinesProcessedAlive DEF PrintLine, Alive, IoGrows

LEMMA JobStartAlive ==
  ASSUME NEW p \in Printers, BareIo(p.io)
  PROVE  Alive(JobStart(p))
<1> DEFINE s == SendCommands(p, ResumeSequence(p.job.saved))
           resumed == [s.job EXCEPT !.st = "Running"]
           looping == [p.job EXCEPT !.st = "Running"]
           begun == [p.job EXCEPT !.st = "Running", !.pos = 0]
<1>1. p.job \in Jobs /\ looping \in Jobs /\ begun \in Jobs
  <2>1. 0 \in Nat /\ p.job \in Jobs
    BY DEF Printers
  <2> QED
    BY <2>1 DEF Jobs, JobStates
<1>2. s \in Printers /\ BareIo(s.io)
  BY ResumeSequenceType, SendsBare
<1> HIDE DEF s
<1>3. resumed \in Jobs
  <2>1. s.job \in Jobs
    BY <1>2 DEF Printers
  <2> QED
    BY <2>1 DEF Jobs, JobStates
<1>4. CASE p.job.st = "Paused"
  <2>1. JobStart(p) = PrintLine([s EXCEPT !.job = resumed])
    <3>1. [s EXCEPT !.job = [@ EXCEPT !.st = "Running"]]
            = [s EXCEPT !.job = resumed]
      BY <1>2 DEF Printers
    <3> QED
      BY <1>4, <3>1 DEF JobStart, s
  <2> HIDE DEF resumed
  <2> QED
    BY <1>2, <1>3, <2>1, JobFields, PrintLineAlive
<1>5. CASE p.job.st # "Paused" /\ p.job.ended
  <2>1. JobStart(p).halted /\ JobStart(p).io = p.io
    BY <1>5 DEF JobStart, Printers
  <2> QED
    BY <2>1 DEF Alive
<1>6. CASE p.job.st # "Paused" /\ ~p.job.ended
  <2>1. JobStart(p) = PrintLine([p EXCEPT !.job = begun])
    <3>1. [p EXCEPT !.job = [@ EXCEPT !.st = "Running", !.pos = 0]]
            = [p EXCEPT !.job = begun]
      BY DEF Printers
    <3> QED
      BY <1>6, <3>1 DEF JobStart
  <2> HIDE DEF begun
  <2> QED
    BY <1>1, <2>1, JobFields, PrintLineAlive
<1> QED
  BY <1>4, <1>5, <1>6

LEMMA JobStopAlive ==
  ASSUME NEW p \in Printers, BareIo(p.io)
  PROVE  Alive(JobStop(p))
<1> DEFINE job == [p.job EXCEPT !.st = "Stopped"]
           q == [p EXCEPT !.job = job]
           texts == << "M18", "M107", "M104", "M140", "G91", "G0" >>
<1>1. job \in Jobs /\ job.st = "Stopped"
  BY DEF Printers, Jobs, JobStates
<1>2. texts \in Seq(Texts)
  BY DEF Texts, OwnTexts
<1>3. JobStop(p) = SendCommands(q, texts)
  BY DEF JobStop, Printers
<1> HIDE DEF job, texts
<1>4. q \in Printers /\ q.job.st = "Stopped" /\ BareIo(q.io)
  BY <1>1, JobFields
<1> HIDE DEF q
<1> QED
  BY <1>2, <1>3, <1>4, SendsBare DEF Alive

LEMMA JobPauseAlive ==
  ASSUME NEW p \in Printers, BareIo(p.io)
  PROVE  Alive(JobPause(p))
<1> DEFINE job == [p.job EXCEPT !.st = "Paused", !.saved = p.mode]
           q == [p EXCEPT !.job = job]
           first == IF ~p.mode.rel THEN << "G91" >> ELSE << >>
           texts == first \o << "G0", "M117" >>
<1>1. job \in Jobs /\ job.st = "Paused"
  BY DEF Printers, Jobs, JobStates
<1>2. texts \in Seq(Texts)
  <2>1. {"G0", "M117", "G91"} \subseteq Texts
    BY DEF Texts, OwnTexts
  <2>2. first \in Seq(Texts) /\ << "G0", "M117" >> \in Seq(Texts)
    BY <2>1
  <2> HIDE DEF first
  <2> QED
    BY <2>2, ConcatProperties
<1>3. JobPause(p) = SendCommands(q, texts)
  BY DEF JobPause, Printers
<1> HIDE DEF job, texts
<1>4. q \in Printers /\ q.job.st = "Paused" /\ BareIo(q.io)
  BY <1>1, JobFields
<1> HIDE DEF q
<1> QED
  BY <1>2, <1>3, <1>4, SendsBare DEF Alive

LEMMA SetPrintJobAlive ==
  ASSUME NEW p \in Printers, Alive(p)
  PROVE  Alive(SetPrintJob(p))
<1> DEFINE age(c) == IF c.cb = "job" THEN [c EXCEPT !.cb = "stale"] ELSE c
           q == SetPrintJob(p)
<1>1. CASE p.job.st \in {"Running", "Paused"}
  BY <1>1 DEF SetPrintJob
<1>2. CASE p.job.st \notin {"Running", "Paused"}
  <2>1. /\ q.job.st = "Stopped"
        /\ q.io = [i \in DOMAIN p.io |-> [p.io[i] EXCEPT !.cmd = age(p.io[i].cmd)]]
    BY <1>2 DEF SetPrintJob, Printers
  <2>2. \A i \in DOMAIN p.io : p.io[i] \in Handlers
    BY DEF Printers
  <2>3. ASSUME NEW i \in DOMAIN p.io
        PROVE  q.io[i].h = p.io[i].h /\ q.io[i].cmd.cb # "job"
    <3>1. q.io[i] = [p.io[i] EXCEPT !.cmd = age(p.io[i].cmd)]
      BY <2>1
    <3>2. age(p.io[i].cmd).cb # "job"
      BY <2>2 DEF Handlers, Commands, Bare
    <3> HIDE DEF age
    <3> QED
      BY <2>2, <3>1, <3>2 DEF Handlers
  <2>4. DOMAIN q.io = DOMAIN p.io
    BY <2>1
  <2> HIDE DEF q, age
  <2>5. BareIo(q.io)
    BY <2>3, <2>4 DEF BareIo
  <2> QED
    BY <2>1, <2>5 DEF Alive, q
<1> QED
  BY <1>1, <1>2

-----------------------------------------------------------------------------
(* The actions. *)

(* Taking a handler takes its callback, if it is a posted sendCommand. *)
LEMMA TakenAlive ==
  ASSUME TypeOK, NEW h, Due(h), Alive(printer)
  PROVE  /\ Taken \in Printers /\ Head(printer.io) \in Handlers
         /\ BareIo(Taken.io)
         /\ Taken.job = printer.job /\ Taken.halted = printer.halted
         /\ Taken.queue = printer.queue
         /\ IoCbs(printer.io) = IoCbs(Taken.io) \cup {Head(printer.io).cmd.cb}
         /\ h # "send" => Alive(Taken)
<1> DEFINE io == printer.io
           jo == Tail(io)
<1>1. /\ printer \in Printers /\ io \in Seq(Handlers) /\ io # << >>
      /\ Head(io).h = h
  BY DEF TypeOK, Due, Printers
<1>2. /\ jo \in Seq(Handlers) /\ Head(io) \in Handlers
      /\ Len(io) \in Nat /\ Len(io) > 0 /\ DOMAIN io = 1..Len(io)
      /\ io[1] = Head(io) /\ DOMAIN jo = 1..(Len(io) - 1)
      /\ \A i \in 1..(Len(io) - 1) : jo[i] = io[i + 1]
  BY <1>1
<1>3. Taken.io = jo
  BY <1>1 DEF Taken, Printers
<1>4. /\ Taken \in Printers /\ Taken.job = printer.job
      /\ Taken.halted = printer.halted /\ Taken.queue = printer.queue
  BY <1>1, <1>2 DEF Taken, Printers
<1> HIDE DEF io, jo
<1>5. \A i \in 1..Len(io) : i = 1 \/ i - 1 \in 1..(Len(io) - 1)
  BY <1>2
<1>6. (\A i \in 1..(Len(io) - 1) : i + 1 \in 1..Len(io)) /\ 1 \in 1..Len(io)
  BY <1>2
<1>7. ASSUME NEW i \in DOMAIN io
      PROVE  io[i] = Head(io) \/ \E j \in DOMAIN jo : io[i] = jo[j]
  <2>1. CASE i = 1
    BY <1>2, <2>1
  <2>2. CASE i # 1
    <3>1. i - 1 \in DOMAIN jo /\ jo[i - 1] = io[i]
      BY <1>2, <1>5, <2>2
    <3> QED
      BY <3>1
  <2> QED
    BY <2>1, <2>2
<1>8. ASSUME NEW i \in DOMAIN jo PROVE \E j \in DOMAIN io : jo[i] = io[j]
  BY <1>2, <1>6
<1>9. IoCbs(io) = IoCbs(jo) \cup {Head(io).cmd.cb}
  <2>1. IoCbs(io) \subseteq IoCbs(jo) \cup {Head(io).cmd.cb}
    BY <1>7 DEF IoCbs
  <2>2. IoCbs(jo) \subseteq IoCbs(io)
    BY <1>8 DEF IoCbs
  <2>3. Head(io).cmd.cb \in IoCbs(io)
    BY <1>2, <1>6 DEF IoCbs
  <2> QED
    BY <2>1, <2>2, <2>3
<1>10. BareIo(jo)
  BY <1>8 DEF BareIo, Alive, io
<1>11. h # "send" => Head(io).cmd.cb # "job"
  BY <1>1, <1>2, <1>6 DEF BareIo, Alive, io
<1> QED
  BY <1>2, <1>3, <1>4, <1>9, <1>10, <1>11 DEF Alive, io, jo

LEMMA RunIoAlive ==
  ASSUME TypeOK, RunIo, Alive(printer)
  PROVE  Alive(printer')
<1> DEFINE p == Taken
<1>1. ASSUME NEW h, NEW result, RunHandler(h, result), Alive(result)
      PROVE  Alive(printer')
  BY <1>1 DEF RunHandler
<1>2. ASSUME NEW h, NEW result, RunHandler(h, result), h # "send"
      PROVE  p \in Printers /\ Alive(p)
  BY <1>2, TakenAlive DEF RunHandler
<1>3. CASE RunSend
  <2> DEFINE cmd == Head(printer.io).cmd
             q == Send(p, cmd)
  <2>1. /\ p \in Printers /\ Head(printer.io) \in Handlers
        /\ BareIo(p.io) /\ p.job = printer.job /\ p.halted = printer.halted
        /\ p.queue = printer.queue
        /\ IoCbs(printer.io) = IoCbs(p.io) \cup {cmd.cb}
    BY <1>3, TakenAlive DEF RunSend, RunHandler
  <2>2. cmd \in Commands
    BY <1>3, <2>1 DEF RunSend, RunHandler, Due, Handlers, Completions
  <2>3. RunHandler("send", q)
    BY <1>3 DEF RunSend
  <2> HIDE DEF cmd
  <2>4. /\ QueueCbs(p.queue) \cup {cmd.cb} \subseteq QueueCbs(q.queue)
        /\ q.job.st = p.job.st /\ q.halted = p.halted
        /\ IoGrows(p.io, q.io)
    BY <2>1, <2>2, SendKeeps
  <2> HIDE DEF q, p
  <2>5. Alive(q)
    BY <2>1, <2>4 DEF Alive, IoGrows
  <2> QED
    BY <1>1, <2>3, <2>5
<1> HIDE DEF p
<1>4. CASE RunReadDone
  BY <1>1, <1>2, <1>4, ReadDoneAlive DEF RunReadDone, p
<1>5. CASE RunReadError
  BY <1>1, <1>2, <1>5, LoseConnectionAlive DEF RunReadError, p
<1>6. CASE RunWriteError
  BY <1>1, <1>2, <1>6, LoseConnectionAlive DEF RunWriteError, p
<1>7. CASE RunConnected
  BY <1>1, <1>2, <1>7, ConnectDoneAlive DEF RunConnected, p
<1>8. CASE RunConnectFailed
  BY <1>1, <1>2, <1>8, ConnectDoneAlive DEF RunConnectFailed, p
<1>9. CASE RunConnectTimeout
  BY <1>1, <1>2, <1>9, ConnectTimeoutAlive DEF RunConnectTimeout, p
<1>10. CASE RunTimeoutCheck
  BY <1>1, <1>2, <1>10, TimeoutCheckAlive DEF RunTimeoutCheck, p
<1>11. CASE RunReconnect
  BY <1>1, <1>2, <1>11, DoConnectAlive DEF RunReconnect, p
<1>12. CASE RunInitialize
  BY <1>1, <1>2, <1>12, InitializeAlive DEF RunInitialize, p
<1>13. CASE RunGetTemperature
  BY <1>1, <1>2, <1>13, GetTemperatureKeeps, KeepsAlive
     DEF RunGetTemperature, p
<1> QED
  BY <1>3, <1>4, <1>5, <1>6, <1>7, <1>8, <1>9, <1>10, <1>11, <1>12, <1>13
     DEF RunIo

(* Timers and the port only add handlers without a callback. *)
Unspoken(p, q) ==
  /\ q.job = p.job /\ q.halted = p.halted /\ q.queue = p.queue /\ q.io = p.io
  /\ q.executing = p.executing /\ q.state = p.state

Prompts(p, q) ==
  /\ Keeps(p, q) /\ q.executing = p.executing /\ q.state = p.state
  /\ Waiting(p.io) \subseteq Waiting(q.io)

LEMMA PostPrompts ==
  ASSUME NEW p \in Printers, NEW h \in Completions
  PROVE  Prompts(p, Post(p, h))
BY PostKeeps, PostLemma DEF Prompts, SameQueue, Adds

LEMMA FailWaitingPrompts ==
  ASSUME NEW p \in Printers
  PROVE  Prompts(p, FailWaiting(p))
<1>1. /\ FailWaiting(p).executing = p.executing
      /\ FailWaiting(p).state = p.state
  BY DEF FailWaiting, Printers
<1> QED
  BY <1>1, FailWaitingKeeps, FailWaitingLemma DEF Prompts

LEMMA EnvironmentPosts ==
  ASSUME TypeOK, Timers \/ Link \/ FirmwareStep
  PROVE  \E q \in Printers : Prompts(printer, q) /\ Unspoken(q, printer')
<1> DEFINE p == printer
           Goal == \E q \in Printers : Prompts(p, q) /\ Unspoken(q, printer')
<1>0. p \in Printers
  BY DEF TypeOK
<1>1. ASSUME Unspoken(p, printer') PROVE Goal
  BY <1>0, <1>1 DEF Prompts, Keeps, IoGrows
<1>2. ASSUME NEW h \in Completions, Unspoken(Post(p, h), printer')
      PROVE  Goal
  BY <1>0, <1>2, PostPrompts, PostLemma
<1> SUFFICES Goal
  OBVIOUS
<1> HIDE DEF Goal
<1>3. CASE ReconnectTimerExpires
  <2> DEFINE h == p.reconnectTimer
             q == Post(p, h)
  <2>1. h \in Completions
    BY <1>0, <1>3 DEF ReconnectTimerExpires, Printers, Completions
  <2>2. printer' = [q EXCEPT !.reconnectTimer = "idle"]
    BY <1>3 DEF ReconnectTimerExpires
  <2> HIDE DEF h
  <2>3. q \in Printers
    BY <1>0, <2>1, PostLemma
  <2>4. q = Post(p, h)
    OBVIOUS
  <2> HIDE DEF q
  <2>5. Unspoken(q, printer')
    BY <2>2, <2>3 DEF Unspoken, Printers
  <2> QED
    BY <1>2, <2>1, <2>4, <2>5
<1>4. CASE CheckTimerExpires \/ PrinterStalls
  <2> DEFINE q == Post(p, "check")
  <2>1. \E n : printer' = [q EXCEPT !.timeoutTimer = "idle", !.quiet = n]
    BY <1>4 DEF CheckTimerExpires, PrinterStalls
  <2>2. q \in Printers /\ q = Post(p, "check") /\ "check" \in Completions
    BY <1>0, PostLemma DEF Completions
  <2> HIDE DEF q
  <2>3. Unspoken(q, printer')
    BY <2>1, <2>2 DEF Unspoken, Printers
  <2> QED
    BY <1>2, <2>2, <2>3
<1>5. CASE ConnectTimerExpires
  <2> DEFINE q == Post(p, "connTimeout")
  <2>1. printer' = [q EXCEPT !.timeoutTimer = "idle"]
    BY <1>5 DEF ConnectTimerExpires
  <2>2. q \in Printers /\ q = Post(p, "connTimeout")
        /\ "connTimeout" \in Completions
    BY <1>0, PostLemma DEF Completions
  <2> HIDE DEF q
  <2>3. Unspoken(q, printer')
    BY <2>1, <2>2 DEF Unspoken, Printers
  <2> QED
    BY <1>2, <2>2, <2>3
<1>6. CASE TemperatureTimerExpires
  <2> DEFINE q == Post(p, "temp")
  <2>1. printer' = [q EXCEPT !.tempTimer = FALSE]
    BY <1>6 DEF TemperatureTimerExpires
  <2>2. q \in Printers /\ q = Post(p, "temp") /\ "temp" \in Completions
    BY <1>0, PostLemma DEF Completions
  <2> HIDE DEF q
  <2>3. Unspoken(q, printer')
    BY <2>1, <2>2 DEF Unspoken, Printers
  <2> QED
    BY <1>2, <2>2, <2>3
<1>7. CASE LinesArrive
  <2> DEFINE q == Post(p, "readOk")
  <2>1. PICK k \in 1..Len(p.wire) :
          printer' = [q EXCEPT !.reads = @ - 1,
                               !.rx = @ \o SubSeq(p.wire, 1, k),
                               !.wire = SubSeq(@, k + 1, Len(@))]
    BY <1>7 DEF LinesArrive
  <2>2. q \in Printers /\ q = Post(p, "readOk") /\ "readOk" \in Completions
    BY <1>0, PostLemma DEF Completions
  <2> HIDE DEF q
  <2>3. Unspoken(q, printer')
    BY <2>1, <2>2 DEF Unspoken, Printers
  <2> QED
    BY <1>2, <2>2, <2>3
<1>8. CASE ReadFails
  <2> DEFINE q == Post(p, "readErr")
  <2>1. printer' = [q EXCEPT !.reads = @ - 1]
    BY <1>8 DEF ReadFails
  <2>2. q \in Printers /\ q = Post(p, "readErr") /\ "readErr" \in Completions
    BY <1>0, PostLemma DEF Completions
  <2> HIDE DEF q
  <2>3. Unspoken(q, printer')
    BY <2>1, <2>2 DEF Unspoken, Printers
  <2> QED
    BY <1>2, <2>2, <2>3
<1>9. CASE Established
  <2> DEFINE q == IF p.connecting THEN Post(p, "connectOk") ELSE p
  <2>1. q \in Printers /\ (q = Post(p, "connectOk") \/ q = p)
        /\ "connectOk" \in Completions
    BY <1>0, PostLemma DEF Completions
  <2>2. printer' = [q EXCEPT !.port = "open", !.connecting = FALSE,
                             !.tx = @ \o p.held, !.held = << >>]
    BY <1>9 DEF Established
  <2> HIDE DEF q
  <2>3. Unspoken(q, printer')
    BY <2>1, <2>2 DEF Unspoken, Printers
  <2> QED
    BY <1>1, <1>2, <2>1, <2>3
<1>10. CASE Refused
  <2> DEFINE q == IF p.connecting THEN Post(p, "connectErr") ELSE p
             r == [q EXCEPT !.port = "refused", !.connecting = FALSE]
  <2>1. q \in Printers /\ Prompts(p, q)
    BY <1>0, PostLemma, PostPrompts
       DEF Completions, Prompts, Keeps, IoGrows
  <2>2. printer' = FailWaiting(r)
    BY <1>10 DEF Refused
  <2> HIDE DEF q
  <2>3. r \in Printers /\ Unspoken(q, r)
    BY <2>1 DEF Unspoken, Printers
  <2> HIDE DEF r
  <2>4. FailWaiting(r) \in Printers /\ Prompts(r, FailWaiting(r))
    BY <2>3, FailWaitingLemma, FailWaitingPrompts
  <2>5. Prompts(p, printer') /\ printer' \in Printers
    BY <2>1, <2>2, <2>3, <2>4 DEF Prompts, Unspoken, Keeps, IoGrows
  <2> QED
    BY <2>5 DEF Goal, Unspoken
<1>11. CASE Replug
  <2>1. Unspoken(p, printer')
    BY <1>0, <1>11 DEF Replug, Unspoken, Printers
  <2> QED
    BY <1>1, <2>1
<1>12. CASE LoseFrame
  <2>1. Unspoken(p, printer')
    BY <1>0, <1>12 DEF LoseFrame, Unspoken, Printers
  <2> QED
    BY <1>1, <2>1
<1>13. ASSUME NEW lines, NEW tx,
              printer' = [Reply(p, lines) EXCEPT !.tx = tx]
       PROVE  Goal
  <2>1. Unspoken(p, printer')
    BY <1>0, <1>13 DEF Reply, Unspoken, Printers
  <2> QED
    BY <1>1, <2>1
<1>14. CASE FirmwareStep
  <2>1. \E lines, tx : printer' = [Reply(p, lines) EXCEPT !.tx = tx]
    <3>1. ASSUME NEW lines, TakeFrame(lines)
          PROVE  printer' = [Reply(p, lines) EXCEPT !.tx = Tail(p.tx)]
      BY <1>0, <3>1 DEF TakeFrame, Reply, Printers
    <3>2. CASE FirmwareReboots
      BY <3>2 DEF FirmwareReboots
    <3>3. CASE ~FirmwareReboots
      <4>1. \E lines : TakeFrame(lines)
        BY <1>14, <3>3 DEF FirmwareStep, FirmwareExecutes, FrameCorrupted,
           FirmwareOverconfirms, FirmwareFails
      <4> QED
        BY <3>1, <4>1
    <3> QED
      BY <3>2, <3>3
  <2> QED
    BY <1>13, <2>1
<1> QED
  BY <1>3, <1>4, <1>5, <1>6, <1>7, <1>8, <1>9, <1>10, <1>11, <1>12, <1>14
     DEF Timers, Link

LEMMA EnvironmentAlive ==
  ASSUME TypeOK, Timers \/ Link \/ FirmwareStep, Alive(printer)
  PROVE  Alive(printer')
<1>1. printer \in Printers
  BY DEF TypeOK
<1> QED
  BY <1>1, EnvironmentPosts, KeepsAlive, SameAlive DEF Prompts, Unspoken

LEMMA RequestsAlive ==
  ASSUME TypeOK, Requests, Alive(printer)
  PROVE  Alive(printer')
<1> DEFINE p == printer
<1>0. p \in Printers /\ BareIo(p.io)
  BY DEF TypeOK, Alive
<1>1. CASE StartPrinter \/ StopPrinter \/ ChangeSettings
  BY <1>0, <1>1, StartAlive, StopAlive, DeviceSettingsChangedAlive
     DEF StartPrinter, StopPrinter, ChangeSettings, Request
<1>2. CASE ChangePath
  <2>1. PICK path \in Paths :
          printer' = DeviceSettingsChanged([p EXCEPT !.path = path])
    BY <1>2 DEF ChangePath, Request
  <2>2. [p EXCEPT !.path = path] \in Printers
    BY <1>0 DEF Printers
  <2>3. Alive([p EXCEPT !.path = path])
    BY <1>0, SameAlive DEF Printers
  <2> QED
    BY <2>1, <2>2, <2>3, DeviceSettingsChangedAlive
<1>3. CASE SubmitGcode
  <2>1. PICK text \in UserTexts : printer' = SendCommand(p, text, "none")
    BY <1>3 DEF SubmitGcode, Request
  <2> QED
    BY <1>0, <2>1, SendCommandKeeps, KeepsAlive DEF Texts, Callbacks
<1>4. CASE SetTemperature
  BY <1>0, <1>4, SendCommandKeeps, KeepsAlive
     DEF SetTemperature, Request, Texts, OwnTexts, Callbacks
<1>5. CASE SubmitJob
  <2>1. SetPrintJob(p) \in Printers /\ Alive(SetPrintJob(p))
    BY <1>0, SetPrintJobLemma, SetPrintJobAlive
  <2>2. Alive(JobStart(SetPrintJob(p)))
    BY <2>1, JobStartAlive DEF Alive
  <2> QED
    BY <1>5, <2>1, <2>2 DEF SubmitJob, Request
<1>6. CASE ResumeJob \/ PauseJob \/ CancelJob
  BY <1>0, <1>6, JobStartAlive, JobPauseAlive, JobStopAlive
     DEF ResumeJob, PauseJob, CancelJob, Request
<1>7. CASE ResetRequest
  BY <1>0, <1>7, ResetPrinterAlive DEF ResetRequest, Request
<1> QED
  BY <1>1, <1>2, <1>3, <1>4, <1>5, <1>6, <1>7 DEF Requests

(***************************************************************************)
(* A running job has a line on its way whose callback sends the next one,  *)
(* on every path and whatever fails: the only calls that take a callback   *)
(* of lineProcessed from the queue are those that call it.                 *)
(***************************************************************************)
THEOREM JobStaysAlive == Spec => []JobAlive
<1>1. Init => Alive(printer)
  BY DEF Init, NewPrinter, Alive, BareIo
<1>2. TypeOK /\ Alive(printer) /\ [Next]_vars => Alive(printer)'
  BY RunIoAlive, EnvironmentAlive, RequestsAlive DEF Next, vars
<1>3. Alive(printer) => JobAlive
  BY CallsIs DEF Alive, JobAlive
<1> QED
  BY <1>1, <1>2, <1>3, TypeCorrect, PTL DEF Spec

-----------------------------------------------------------------------------
(***************************************************************************)
(* The command in flight.  Every path that gives it up writes the next     *)
(* one, resets the queue with it, or leaves the printer in the error       *)
(* state; the error state is left with a command in flight only if its     *)
(* write has failed.                                                       *)
(***************************************************************************)
Front(p) ==
  p.executing \notin {NoCommand, "M110"} =>
    p.queue # << >> /\ Head(p.queue).text = p.executing

Fronted(p) == Front(p) \/ p.state = "Error" \/ Ready(p, "writeErr")

LEMMA FrontedFrame ==
  ASSUME NEW p, NEW q, NEW K, SameQueue(p, q), Adds(p, q, K),
         q.state = p.state \/ Front(p) \/ Ready(p, "writeErr"), Fronted(p)
  PROVE  Fronted(q)
BY DEF SameQueue, Adds, Fronted, Front, Ready

LEMMA DoWriteFronted ==
  ASSUME NEW p \in Printers, p.executing = NoCommand
  PROVE  Front(DoWrite(p))
<1>1. \/ DoWrite(p) = p
      \/ p.queue # << >> /\ DoWrite(p).executing \in {"M110", Head(p.queue).text}
  BY DoWriteKeeps
<1>2. DoWrite(p).queue = p.queue
  BY DoWriteLemma
<1> QED
  BY <1>1, <1>2 DEF Front

LEMMA SendFronted ==
  ASSUME NEW p \in Printers, NEW cmd \in Commands, Fronted(p)
  PROVE  Fronted(Send(p, cmd))
<1> DEFINE q == Send(p, cmd)
<1>1. /\ q.queue = Append(p.queue, cmd)
      /\ \/ p.executing # NoCommand /\ q.executing = p.executing
         \/ q.executing \in {"M110", Head(q.queue).text}
  BY SendKeeps
<1>2. /\ q.state = p.state /\ Waiting(p.io) \subseteq Waiting(q.io)
  BY SendLemma DEF Adds
<1>3. /\ Append(p.queue, cmd) # << >>
      /\ p.queue # << >> => Head(Append(p.queue, cmd)) = Head(p.queue)
  <2>1. p.queue \in Seq(Commands)
    BY DEF Printers
  <2>2. Append(p.queue, cmd) \in Seq(Commands) /\ Append(p.queue, cmd) # << >>
    BY <2>1
  <2>3. p.queue # << >> => Append(p.queue, cmd)[1] = p.queue[1]
    BY <2>1
  <2> QED
    BY <2>1, <2>2, <2>3
<1> HIDE DEF q
<1>4. CASE p.state = "Error" \/ Ready(p, "writeErr")
  BY <1>2, <1>4 DEF Fronted, Ready, q
<1>5. CASE Front(p)
  BY <1>1, <1>3, <1>5 DEF Fronted, Front, q
<1> QED
  BY <1>4, <1>5 DEF Fronted, q

(* A new connection leaves the error state. *)
Failing(p) == p.port = "closed" /\ Pending(p) => Ready(p, "writeErr")

LEMMA DoConnectFronted ==
  ASSUME NEW p \in Printers, p.path = "serial", Failing(p), Fronted(p)
  PROVE  Fronted(DoConnect(p))
<1>1. ASSUME NEW q \in Printers, SameQueue(p, q), q.io = p.io,
             q.state = p.state
      PROVE  Fronted(SetupReconnect(q))
  <2>1. /\ SameQueue(q, SetupReconnect(q)) /\ Adds(q, SetupReconnect(q), {"init"})
        /\ SetupReconnect(q).state = q.state
    BY <1>1, ArmReconnectLemma DEF SetupReconnect
  <2>2. Fronted(q)
    BY <1>1 DEF SameQueue, Fronted, Front, Ready
  <2> QED
    BY <2>1, <2>2, FrontedFrame
<1>2. CASE p.state = "Stopped"
  BY <1>2 DEF DoConnect
<1>3. CASE p.state # "Stopped" /\ (p.port # "closed" \/ p.device = "absent")
  <2>1. SameQueue(p, p)
    BY DEF SameQueue
  <2> QED
    BY <1>1, <1>3, <2>1 DEF DoConnect, OpenSerial
<1>4. CASE /\ p.state # "Stopped" /\ p.port = "closed"
           /\ p.device = "refusing"
  <2> DEFINE q == [p EXCEPT !.port = "stuck"]
  <2>1. /\ q \in Printers /\ SameQueue(p, q) /\ q.io = p.io
        /\ q.state = p.state
    BY DEF Printers, SameQueue
  <2>2. DoConnect(p) = SetupReconnect(q)
    BY <1>4 DEF DoConnect, OpenSerial
  <2> HIDE DEF q
  <2> QED
    BY <1>1, <2>1, <2>2
<1>5. CASE /\ p.state # "Stopped" /\ p.port = "closed"
           /\ p.device \notin {"absent", "refusing"}
  <2> DEFINE q == [p EXCEPT !.port = "open"]
  <2>1. q \in Printers /\ SameQueue(p, q) /\ q.io = p.io
    BY DEF Printers, SameQueue
  <2>2. DoConnect(p) = Connected(q)
    BY <1>5 DEF DoConnect, OpenSerial
  <2> HIDE DEF q
  <2>3. /\ SameQueue(q, Connected(q)) 
        /\ Adds(q, Connected(q), {"send", "readOk", "readErr", "init"})
    BY <2>1, ConnectedLemma
  <2>4. Front(p) \/ Ready(p, "writeErr")
    BY <1>5 DEF Failing, Front, Pending
  <2>5. Fronted(q) /\ (Front(q) \/ Ready(q, "writeErr"))
    BY <2>1, <2>4 DEF SameQueue, Fronted, Front, Ready
  <2> QED
    BY <2>2, <2>3, <2>5, FrontedFrame
<1> QED
  BY <1>2, <1>3, <1>4, <1>5

LEMMA ResetConnectFronted ==
  ASSUME NEW p \in Printers, p.path = "serial"
  PROVE  Fronted(Reset(p)) /\ Fronted(DoConnect(Reset(p)))
<1>1. /\ Reset(p) \in Printers /\ Reset(p).path = "serial"
      /\ Reset(p).queue = << >> /\ Reset(p).executing = NoCommand
  BY ResetLemma
<1>2. Fronted(Reset(p)) /\ Failing(Reset(p))
  BY <1>1 DEF Fronted, Front, Failing, Pending
<1> QED
  BY <1>1, <1>2, DoConnectFronted

LEMMA LoseConnectionFronted ==
  ASSUME NEW p \in Printers, p.path = "serial"
  PROVE  Fronted(LoseConnection(p))
<1>1. /\ SetState(p, "Disconnected") \in Printers
      /\ SetState(p, "Disconnected").path = "serial"
  BY SetStateLemma DEF States, SamePort
<1> QED
  BY <1>1, ResetConnectFronted DEF LoseConnection

LEMMA TimeoutCheckFronted ==
  ASSUME NEW p \in Printers, p.path = "serial", Fronted(p)
  PROVE  Fronted(TimeoutCheck(p))
<1>1. Fronted(SetupTimeoutCheck(p))
  BY DEF SetupTimeoutCheck, Printers, Fronted, Front, Ready
<1> QED
  BY <1>1, LoseConnectionFronted DEF TimeoutCheck

LEMMA InitializeFronted ==
  ASSUME NEW p \in Printers, Fronted(p)
  PROVE  Fronted(Initialize(p))
<1> DEFINE a == SendCommand(p, "M110", "none")
           b == [a EXCEPT !.lineNo = 1]
           c == SendCommand(b, "M115", "info")
<1>1. /\ "M110" \in Texts /\ "M115" \in Texts
      /\ "none" \in Callbacks /\ "info" \in Callbacks
  BY DEF Texts, OwnTexts, Callbacks
<1>2. /\ a \in Printers /\ SameQueue(p, a) /\ a.state = p.state
      /\ Adds(p, a, {"send"})
  BY <1>1, SendCommandLemma
<1> HIDE DEF a
<1>3. b \in Printers
  BY <1>2, LineNumbers DEF Printers
<1>4. SameQueue(a, b) /\ b.state = a.state /\ b.io = a.io
  BY <1>2 DEF Printers, SameQueue
<1>5. Initialize(p) = DoWrite(c)
  BY DEF Initialize, a, b, c
<1> HIDE DEF b
<1>6. /\ c \in Printers /\ SameQueue(b, c) /\ c.state = b.state
      /\ Adds(b, c, {"send"})
  BY <1>1, <1>3, SendCommandLemma
<1>7. Fronted(c)
  BY <1>2, <1>4, <1>6 DEF SameQueue, Adds, Fronted, Front, Ready
<1> HIDE DEF c
<1>8. c.executing # NoCommand => DoWrite(c) = c
  BY <1>6, DoWriteKeeps
<1>9. c.executing = NoCommand => Fronted(DoWrite(c))
  BY <1>6, DoWriteFronted DEF Fronted
<1> QED
  BY <1>5, <1>7, <1>8, <1>9

(* The ok that answers a command ends with the next one in flight. *)
LEMMA NextCommandFronted ==
  ASSUME NEW p \in Printers
  PROVE  Fronted(NextCommand(p))
<1> DEFINE s == [p EXCEPT !.resend = NoLine, !.executing = NoCommand]
           w == DoWrite(s)
<1>1. s \in Printers /\ s.executing = NoCommand
  <2>1. NoLine \in Int
    BY DEF NoLine
  <2> QED
    BY <2>1 DEF Printers
<1> HIDE DEF s
<1>2. w \in Printers /\ Front(w)
  BY <1>1, DoWriteLemma, DoWriteFronted
<1>3. NextCommand(p) = DoRead(w)
  BY DEF NextCommand, w, s
<1> HIDE DEF w
<1> QED
  BY <1>2, <1>3, DoReadLemma, FrontedFrame DEF Fronted

LEMMA ConfirmedFronted ==
  ASSUME NEW q \in Printers
  PROVE  Fronted(Confirmed(q))
<1> DEFINE p == [q EXCEPT !.rx = << >>]
           line == IF q.resend # NoLine THEN q.resend ELSE FirstResend(q.rx)
           r == [p EXCEPT !.lineNo = 1]
<1>1. p \in Printers
  <2>1. << >> \in Seq(Lines)
    OBVIOUS
  <2> QED
    BY <2>1 DEF Printers
<1>2. line \in Int
  BY FirstResendType DEF Printers
<1>3. Confirmed(q) =
        IF p.lineNo = 0 THEN NextCommand(r)
        ELSE IF line # NoLine THEN NextCommand(HandleResend(p, line))
        ELSE IF p.pendingError THEN DoRead(RaiseError(p))
        ELSE NextCommand(Answer(p))
  BY DEF Confirmed
<1> HIDE DEF p, line
<1>4. r \in Printers
  BY <1>1, LineNumbers DEF Printers
<1> HIDE DEF r
<1>5. line # NoLine => HandleResend(p, line) \in Printers
  BY <1>1, <1>2, HandleResendLemma
<1>6. RaiseError(p) \in Printers /\ RaiseError(p).state = "Error"
  BY <1>1, RaiseErrorLemma
<1>7. Fronted(DoRead(RaiseError(p)))
  BY <1>6, DoReadLemma DEF Fronted
<1>8. Answer(p) \in Printers
  BY <1>1, AnswerLemma
<1> QED
  BY <1>3, <1>4, <1>5, <1>7, <1>8, NextCommandFronted

LEMMA RestartedFronted ==
  ASSUME NEW q \in Printers
  PROVE  Fronted(Restarted(q))
<1> DEFINE p == [q EXCEPT !.resend = NoLine, !.executing = NoCommand]
           failed == IF p.state # "Error" /\ p.job.st # "None"
                       THEN JobSetError(p) ELSE p
           f == [failed EXCEPT !.lineNo = MaxLineNo]
           m == ShowStartupMessage(f)
<1>1. p \in Printers /\ p.executing = NoCommand
  <2>1. NoLine \in Int
    BY DEF NoLine
  <2> QED
    BY <2>1 DEF Printers
<1>2. Restarted(q) = IF p.state \in {"Connected", "Error"} THEN DoWrite(m)
                     ELSE p
  BY DEF Restarted
<1> HIDE DEF p
<1>3. failed \in Printers /\ failed.executing = NoCommand
  <2>1. [p.job EXCEPT !.st = "Error"] \in Jobs
    BY <1>1 DEF Printers, Jobs, JobStates
  <2>2. JobSetError(p) = [p EXCEPT !.job = [p.job EXCEPT !.st = "Error"]]
    BY <1>1 DEF JobSetError, Printers
  <2> DEFINE job == [p.job EXCEPT !.st = "Error"]
  <2>3. failed \in {p, [p EXCEPT !.job = job]}
    BY <2>2
  <2> HIDE DEF job
  <2>4. job \in Jobs
    BY <2>1 DEF job
  <2>5. [p EXCEPT !.job = job] \in Printers
    BY <1>1, <2>4 DEF Printers
  <2>6. [p EXCEPT !.job = job].executing = NoCommand
    BY <1>1 DEF Printers
  <2> HIDE DEF failed
  <2> QED
    BY <1>1, <2>3, <2>5, <2>6
<1> HIDE DEF failed
<1>4. f \in Printers /\ f.executing = NoCommand
  <2>1. f \in Printers
    BY <1>3, LineNumbers DEF Printers
  <2> QED
    BY <1>3, <2>1 DEF Printers
<1> HIDE DEF f
<1>5. m \in Printers /\ m.executing = NoCommand
  BY <1>4, ShowStartupMessageLemma DEF SameQueue
<1> HIDE DEF m
<1>6. Front(DoWrite(m)) /\ Front(p)
  BY <1>1, <1>5, DoWriteFronted DEF Front
<1> QED
  BY <1>2, <1>6 DEF Fronted

LEMMA ReadDoneFronted ==
  ASSUME NEW q \in Printers, Fronted(q)
  PROVE  Fronted(ReadDone(q))
<1> DEFINE line == IF q.rx = << >> THEN [t |-> "other", n |-> NoLine]
                   ELSE Head(q.rx)
           rx == IF q.rx = << >> THEN q.rx ELSE Tail(q.rx)
           resend == IF q.resend = NoLine /\ line.t = "resend" THEN line.n
                     ELSE q.resend
           p == [q EXCEPT !.quiet = 0, !.rx = rx, !.resend = resend]
           e == [p EXCEPT !.pendingError = TRUE]
<1>1. q.rx \in Seq(Lines) /\ q.resend \in Int
  BY DEF Printers
<1>2. line \in Lines /\ rx \in Seq(Lines)
  <2>1. [t |-> "other", n |-> NoLine] \in Lines
    BY DEF Lines, NoLine
  <2>2. q.rx # << >> => Head(q.rx) \in Lines /\ Tail(q.rx) \in Seq(Lines)
    BY <1>1
  <2> QED
    BY <1>1, <2>1, <2>2
<1>3. ReadDone(q) \in {Confirmed(p), DoRead(p), DoRead(Restarted(p)),
                       DoRead(e)}
  <2>1. line.t \in {"ok", "resend", "error", "start", "other"}
    BY <1>2 DEF Lines
  <2>2. ReadDone(q) =
          CASE line.t = "ok" -> Confirmed(p)
            [] line.t # "ok" /\ p.executing \in HeatWait -> DoRead(p)
            [] line.t = "start" /\ p.executing \notin HeatWait ->
                 DoRead(Restarted(p))
            [] line.t = "error" /\ p.executing \notin HeatWait -> DoRead(e)
            [] line.t \in {"resend", "other"} /\ p.executing \notin HeatWait ->
                 DoRead(p)
    BY DEF ReadDone
  <2> HIDE DEF line, p, e
  <2> QED
    BY <2>1, <2>2
<1> HIDE DEF line, rx
<1>4. resend \in Int
  BY <1>1, <1>2 DEF Lines
<1> HIDE DEF resend
<1>5. p \in Printers /\ Fronted(p)
  <2>1. p \in Printers
    BY <1>2, <1>4 DEF Printers
  <2>2. p.queue = q.queue /\ p.executing = q.executing /\ p.state = q.state
        /\ p.io = q.io
    BY DEF Printers
  <2> QED
    BY <2>1, <2>2 DEF Fronted, Front, Ready
<1> HIDE DEF p
<1>6. e \in Printers /\ Fronted(e)
  <2>1. e \in Printers
    BY <1>5 DEF Printers
  <2>2. e.queue = p.queue /\ e.executing = p.executing /\ e.state = p.state
        /\ e.io = p.io
    BY <1>5 DEF Printers
  <2> QED
    BY <1>5, <2>1, <2>2 DEF Fronted, Front, Ready
<1> HIDE DEF e
<1>7. Fronted(Confirmed(p))
  BY <1>5, ConfirmedFronted
<1>8. Restarted(p) \in Printers /\ Fronted(Restarted(p))
  BY <1>5, RestartedLemma, RestartedFronted
<1>9. \A r \in Printers : Fronted(r) => Fronted(DoRead(r))
  BY DoReadLemma, FrontedFrame
<1> QED
  BY <1>3, <1>5, <1>6, <1>7, <1>8, <1>9

(* A freed job leaves its commands where they are. *)
LEMMA SetPrintJobFronted ==
  ASSUME NEW p \in Printers, Fronted(p)
  PROVE  Fronted(SetPrintJob(p))
<1> DEFINE age(c) == IF c.cb = "job" THEN [c EXCEPT !.cb = "stale"] ELSE c
           queue == [i \in DOMAIN p.queue |-> age(p.queue[i])]
           io == [i \in DOMAIN p.io |->
                    [p.io[i] EXCEPT !.cmd = age(p.io[i].cmd)]]
           q == SetPrintJob(p)
<1>1. CASE p.job.st \in {"Running", "Paused"}
  BY <1>1 DEF SetPrintJob
<1>2. CASE p.job.st \notin {"Running", "Paused"}
  <2>1. /\ q.queue = queue /\ q.io = io /\ q.executing = p.executing
        /\ q.state = p.state
    BY <1>2 DEF SetPrintJob, Printers
  <2>2. /\ p.queue \in Seq(Commands) /\ p.io \in Seq(Handlers)
        /\ \A i \in DOMAIN p.queue : p.queue[i] \in Commands
        /\ \A i \in DOMAIN p.io : p.io[i] \in Handlers
    BY DEF Printers
  <2>3. \A c \in Commands : age(c).text = c.text
    BY DEF Commands
  <2>4. \A i \in DOMAIN p.io : io[i].h = p.io[i].h
    BY <2>2 DEF Handlers
  <2>5. Waiting(io) = Waiting(p.io)
    BY <2>4 DEF Waiting
  <2> HIDE DEF age, io
  <2>6. p.queue # << >> =>
          queue # << >> /\ Head(queue).text = Head(p.queue).text
    <3> SUFFICES ASSUME p.queue # << >>
                 PROVE  queue # << >> /\ Head(queue).text = Head(p.queue).text
      OBVIOUS
    <3>1. 1 \in DOMAIN p.queue /\ Head(p.queue) = p.queue[1]
      BY <2>2
    <3>2. queue[1].text = p.queue[1].text
      BY <2>2, <2>3, <3>1
    <3>3. queue \in Seq(Commands)
      <4>1. \A c \in Commands : age(c) \in Commands
        BY DEF age, Commands, Callbacks
      <4> QED
        BY <2>2, <4>1
    <3>4. queue # << >> /\ Head(queue) = queue[1]
      <4>1. Len(p.queue) \in Nat /\ DOMAIN p.queue = 1..Len(p.queue)
        BY <2>2
      <4>2. DOMAIN queue = DOMAIN p.queue
        OBVIOUS
      <4> HIDE DEF queue
      <4> QED
        BY <3>1, <3>3, <4>2
    <3> QED
      BY <3>1, <3>2, <3>4
  <2> QED
    BY <2>1, <2>5, <2>6 DEF Fronted, Front, Ready
<1> QED
  BY <1>1, <1>2

LEMMA RunIoFronted ==
  ASSUME TypeOK, Attended(printer, {}), RunIo, Fronted(printer)
  PROVE  Fronted(printer')
<1> DEFINE p == Taken
<1>1. ASSUME NEW h, NEW result, RunHandler(h, result), Fronted(result)
      PROVE  Fronted(printer')
  BY <1>1 DEF RunHandler
<1>2. ASSUME NEW h, NEW result, RunHandler(h, result)
      PROVE  /\ p \in Printers /\ p.path = "serial"
             /\ h = "send" => Head(printer.io).cmd \in Commands
             /\ h # "writeErr" => Fronted(p) /\ Failing(p)
  <2>1. /\ p \in Printers /\ Head(printer.io) \in Handlers
        /\ Waiting(printer.io) = Waiting(p.io) \cup {h}
        /\ SameQueue(printer, p) /\ p.state = printer.state
        /\ Attended(p, {h})
    BY <1>2, TakenLemma DEF RunHandler
  <2> HIDE DEF p
  <2>2. h # "writeErr" => Fronted(p) /\ Failing(p)
    BY <2>1 DEF Fronted, Front, Failing, SameQueue, Attended, Ready
  <2>3. h = "send" => Head(printer.io).cmd \in Commands
    BY <1>2, <2>1 DEF RunHandler, Due, Handlers, Completions
  <2> QED
    BY <2>1, <2>2, <2>3 DEF Attended, Serial
<1> HIDE DEF p
<1>3. CASE RunSend
  BY <1>1, <1>2, <1>3, SendFronted DEF RunSend, p
<1>4. CASE RunReadDone
  BY <1>1, <1>2, <1>4, ReadDoneFronted DEF RunReadDone, p
<1>5. CASE RunReadError
  BY <1>1, <1>2, <1>5, LoseConnectionFronted DEF RunReadError, p
<1>6. CASE RunWriteError
  BY <1>1, <1>2, <1>6, LoseConnectionFronted DEF RunWriteError, p
<1>7. CASE RunConnected \/ RunConnectFailed \/ RunConnectTimeout
  <2>1. \E h \in {"connectOk", "connectErr", "connTimeout"} : Due(h)
    BY <1>7 DEF RunConnected, RunConnectFailed, RunConnectTimeout, RunHandler
  <2>2. \E h \in {"connectOk", "connectErr", "connTimeout"} :
          h \in Waiting(printer.io)
    BY <2>1, TakenLemma
  <2> QED
    BY <2>2 DEF Attended, Serial
<1>8. CASE RunTimeoutCheck
  BY <1>1, <1>2, <1>8, TimeoutCheckFronted DEF RunTimeoutCheck, p
<1>9. CASE RunReconnect
  BY <1>1, <1>2, <1>9, DoConnectFronted DEF RunReconnect, p
<1>10. CASE RunInitialize
  BY <1>1, <1>2, <1>10, InitializeFronted DEF RunInitialize, p
<1>11. CASE RunGetTemperature
  <2>1. p \in Printers /\ Fronted(p)
        /\ RunHandler("temp", GetTemperature(p))
    BY <1>2, <1>11 DEF RunGetTemperature, p
  <2>2. Fronted(GetTemperature(p))
    BY <2>1, GetTemperatureLemma, FrontedFrame
  <2> QED
    BY <1>1, <2>1, <2>2
<1> QED
  BY <1>3, <1>4, <1>5, <1>6, <1>7, <1>8, <1>9, <1>10, <1>11 DEF RunIo

LEMMA EnvironmentFronted ==
  ASSUME TypeOK, Timers \/ Link \/ FirmwareStep, Fronted(printer)
  PROVE  Fronted(printer')
<1> DEFINE p == printer
<1>0. p \in Printers
  BY DEF TypeOK
<1>1. PICK q \in Printers : Prompts(p, q) /\ Unspoken(q, printer')
  BY EnvironmentPosts
<1> QED
  BY <1>1 DEF Prompts, Keeps, Unspoken, Fronted, Front, Ready

LEMMA RequestsFronted ==
  ASSUME TypeOK, Attended(printer, {}), left["path"] = 0, Requests,
         Fronted(printer)
  PROVE  Fronted(printer')
<1> DEFINE p == printer
<1>0. p \in Printers /\ p.path = "serial" /\ Failing(p)
  BY DEF TypeOK, Attended, Serial, Failing, Ready
<1>1. ASSUME NEW q, Aside(p, q)
      PROVE  Fronted(q)
  BY <1>1, FrontedFrame DEF Aside
<1>2. CASE StartPrinter
  <2> DEFINE q == SetState(p, "Disconnected")
  <2>1. /\ q \in Printers /\ q.path = "serial" /\ q.port = p.port
        /\ SameQueue(p, q) /\ Adds(p, q, {"send"})
    BY <1>0, SetStateLemma DEF States, SamePort
  <2>2. p.state = "Stopped" /\ printer' = DoConnect(q)
    BY <1>2 DEF StartPrinter, Request, Start
  <2>3. Fronted(q) /\ Failing(q)
    BY <1>0, <2>1, <2>2
       DEF Fronted, Front, Failing, Pending, SameQueue, Adds, Ready
  <2> HIDE DEF q
  <2> QED
    BY <2>1, <2>2, <2>3, DoConnectFronted
<1>3. CASE StopPrinter
  <2>1. /\ SetState(p, "Stopped") \in Printers
        /\ SetState(p, "Stopped").path = "serial"
    BY <1>0, SetStateLemma DEF States, SamePort
  <2> QED
    BY <1>3, <2>1, ResetConnectFronted DEF StopPrinter, Request, Stop
<1>4. CASE ChangeSettings
  BY <1>0, <1>4, ResetConnectFronted
     DEF ChangeSettings, Request, DeviceSettingsChanged
<1>5. CASE ChangePath
  BY <1>5 DEF ChangePath, Request, Spend
<1>6. CASE SubmitGcode \/ SetTemperature
  <2>1. PICK text \in Texts, cb \in Callbacks :
          printer' = SendCommand(p, text, cb)
    BY <1>6 DEF SubmitGcode, SetTemperature, Request, Texts, OwnTexts,
       Callbacks
  <2> QED
    BY <1>0, <1>1, <2>1, SendCommandAside
<1>7. CASE SubmitJob
  <2>1. SetPrintJob(p) \in Printers /\ Fronted(SetPrintJob(p))
    BY <1>0, SetPrintJobLemma, SetPrintJobFronted
  <2>2. Fronted(JobStart(SetPrintJob(p)))
    BY <2>1, JobStartAside, FrontedFrame DEF Aside
  <2> QED
    BY <1>7, <2>1, <2>2 DEF SubmitJob, Request
<1>8. CASE ResumeJob \/ PauseJob \/ CancelJob
  BY <1>0, <1>1, <1>8, JobStartAside, JobPauseAside, JobStopAside
     DEF ResumeJob, PauseJob, CancelJob, Request
<1>9. CASE ResetRequest
  BY <1>0, <1>1, <1>9, ResetPrinterAside DEF ResetRequest, Request
<1> QED
  BY <1>2, <1>3, <1>4, <1>5, <1>6, <1>7, <1>8, <1>9 DEF Requests

(***************************************************************************)
(* On a serial line the command in flight is the front of the queue, but   *)
(* for the error state and for a failed write whose handler is still to    *)
(* run: the ok pops the command it answers, whatever resend requests,      *)
(* reboots, resets and reconnections come in between.                      *)
(***************************************************************************)
THEOREM InFlightStaysFront ==
  ASSUME SerialOnly
  PROVE  Spec => []InFlightIsFront
<1>1. Init => Fronted(printer)
  BY DEF Init, NewPrinter, Fronted, Front
<1>2. IInv /\ Fronted(printer) /\ [Next]_vars => Fronted(printer)'
  <2> SUFFICES ASSUME IInv, Fronted(printer), [Next]_vars
               PROVE  Fronted(printer)'
    OBVIOUS
  <2>1. CASE Next
    BY <2>1, RunIoFronted, EnvironmentFronted, RequestsFronted
       DEF Next, IInv
  <2>2. CASE UNCHANGED vars
    BY <2>2 DEF vars
  <2> QED
    BY <2>1, <2>2
<1>3. Fronted(printer) => InFlightIsFront
  BY DEF Fronted, Front, InFlightIsFront
<1> QED
  BY <1>1, <1>2, <1>3, Inductive, PTL DEF Spec

-----------------------------------------------------------------------------
(***************************************************************************)
(* A job that does not run is not set going by anything but a request: the *)
(* callbacks that are still on their way find it stopped and do nothing,   *)
(* and what fails only fails it.                                           *)
(***************************************************************************)
Dormant(p) == p.job.st \notin {"Running", "Done"}

LEMMA DormantSame ==
  ASSUME NEW p, NEW q, Dormant(p), q.job = p.job
  PROVE  Dormant(q)
BY DEF Dormant

LEMMA KeepsDormant ==
  ASSUME NEW p, NEW q, Keeps(p, q), Dormant(p)
  PROVE  Dormant(q)
BY DEF Keeps, Dormant

LEMMA LinesProcessedDormant ==
  ASSUME NEW p, NEW n, Dormant(p)
  PROVE  LinesProcessed(p, n) = p
BY DEF LinesProcessed, Continues, Dormant

LEMMA ResetCommandQueueDormant ==
  ASSUME NEW p \in Printers, Dormant(p)
  PROVE  Dormant(ResetCommandQueue(p))
<1> DEFINE with(cb) == {i \in DOMAIN p.queue : p.queue[i].cb = cb}
           r == [p EXCEPT !.resend = NoLine, !.pendingError = FALSE,
                          !.queue = << >>,
                          !.tempTimer = @ \/ with("temp") # {},
                          !.replies = @ + Cardinality(with("client")),
                          !.halted = @ \/ with("stale") # {}]
<1>1. r.job = p.job
  BY DEF Printers
<1>2. ResetCommandQueue(p) = LinesProcessed(r, Cardinality(with("job")))
  BY DEF ResetCommandQueue
<1> HIDE DEF with, r
<1> QED
  BY <1>1, <1>2, DormantSame, LinesProcessedDormant

LEMMA SetStateDormant ==
  ASSUME NEW p \in Printers, NEW s \in States, Dormant(p)
  PROVE  Dormant(SetState(p, s))
<1> DEFINE r == IF s = "Error" THEN ResetCommandQueue(p) ELSE p
<1>1. r \in Printers /\ Dormant(r)
  BY ResetCommandQueueLemma, ResetCommandQueueDormant
<1>2. SetState(p, s) = IF s = p.state THEN p ELSE [r EXCEPT !.state = s]
  BY DEF SetState
<1> HIDE DEF r
<1>3. Dormant([r EXCEPT !.state = s])
  BY <1>1, DormantSame DEF Printers
<1> QED
  BY <1>2, <1>3

LEMMA JobSetErrorDormant ==
  ASSUME NEW p \in Printers
  PROVE  Dormant(JobSetError(p))
BY DEF JobSetError, Printers, Jobs, Dormant

LEMMA RaiseErrorDormant ==
  ASSUME NEW p \in Printers, Dormant(p)
  PROVE  Dormant(RaiseError(p))
<1> DEFINE r == ResetCommandQueue(p)
           e == SetState(r, "Error")
<1>1. r \in Printers /\ Dormant(r)
  BY ResetCommandQueueLemma, ResetCommandQueueDormant
<1> HIDE DEF r
<1>2. e \in Printers /\ Dormant(e)
  BY <1>1, SetStateLemma, SetStateDormant DEF States
<1>3. Dormant(JobSetError(e))
  BY <1>2, JobSetErrorDormant
<1>4. RaiseError(p) \in {r, e, JobSetError(e)}
  BY DEF RaiseError, r
<1> QED
  BY <1>1, <1>2, <1>3, <1>4

LEMMA ResetDormant ==
  ASSUME NEW p \in Printers, Dormant(p)
  PROVE  Dormant(Reset(p))
<1> DEFINE io == IF p.connecting THEN Append(p.io, Handler("connectErr"))
                 ELSE p.io
           closed == [p EXCEPT !.port = "closed", !.joined = FALSE,
                               !.reads = 0, !.held = << >>,
                               !.wire = << >>, !.connecting = FALSE,
                               !.io = io]
           idle == ArmReconnect(closed, "idle")
           quiet == [idle EXCEPT !.timeoutTimer = "idle",
                                 !.executing = NoCommand]
<1>1. io \in Seq(Handlers)
  BY HandlerType DEF Printers, Completions
<1> HIDE DEF io
<1>2. closed \in Printers
  <2>1. << >> \in Seq(Lines) /\ << >> \in Seq(Frames)
    OBVIOUS
  <2> QED
    BY <1>1, <2>1, ClosedType
<1>3. closed.job = p.job
  BY DEF Printers
<1> HIDE DEF closed
<1>4. idle \in Printers /\ Keeps(closed, idle)
  BY <1>2, ArmReconnectLemma, ArmReconnectKeeps
<1>5. idle = CancelReconnect(closed)
  BY <1>2 DEF ArmReconnect, CancelReconnect, Printers
<1> HIDE DEF idle
<1>6. quiet \in Printers /\ quiet.job = idle.job
  BY <1>4 DEF Printers
<1>7. Reset(p) = ResetCommandQueue(quiet)
  BY <1>5 DEF Reset, quiet, closed, io
<1> HIDE DEF quiet
<1>8. Dormant(quiet)
  BY <1>3, <1>4, <1>6, KeepsDormant, DormantSame
<1> QED
  BY <1>6, <1>7, <1>8, ResetCommandQueueDormant

LEMMA ConnectedDormant ==
  ASSUME NEW p \in Printers, Dormant(p)
  PROVE  Dormant(Connected(p))
<1> DEFINE q == SetState(p, "Initializing")
           r == DoRead(q)
           s == [r EXCEPT !.quiet = 0, !.timeoutTimer = "check"]
<1>1. q \in Printers /\ Dormant(q)
  BY SetStateLemma, SetStateDormant DEF States
<1> HIDE DEF q
<1>2. r \in Printers /\ Dormant(r)
  BY <1>1, DoReadLemma, DoReadKeeps, KeepsDormant
<1> HIDE DEF r
<1>3. s \in Printers
  BY <1>2 DEF Printers
<1>4. Dormant(s)
  BY <1>2, DormantSame DEF Printers
<1>5. Connected(p) = ArmReconnect(s, "init")
  BY <1>2 DEF Connected, SetupTimeoutCheck, s, r, q, Printers
<1> HIDE DEF s
<1> QED
  BY <1>3, <1>4, <1>5, ArmReconnectKeeps, KeepsDormant

LEMMA SetupReconnectDormant ==
  ASSUME NEW p \in Printers, Dormant(p)
  PROVE  Dormant(SetupReconnect(p))
BY ArmReconnectKeeps, KeepsDormant DEF SetupReconnect

LEMMA DoConnectDormant ==
  ASSUME NEW p \in Printers, Dormant(p)
  PROVE  Dormant(DoConnect(p))
<1>1. ASSUME NEW port \in {"closed", "opening", "open", "dead", "stuck"}
      PROVE  /\ [p EXCEPT !.port = port] \in Printers
             /\ Dormant([p EXCEPT !.port = port])
  <2>1. [p EXCEPT !.port = port] \in Printers
    BY DEF Printers
  <2> QED
    BY <2>1, DormantSame DEF Printers
<1>2. Dormant(OpenSerial(p))
  BY <1>1, SetupReconnectDormant, ConnectedDormant DEF OpenSerial
<1>3. Dormant(OpenSocket(p))
  BY OpenSocketKeeps, KeepsDormant
<1> QED
  BY <1>2, <1>3 DEF DoConnect

LEMMA ConnectDoneDormant ==
  ASSUME NEW p \in Printers, Dormant(p), NEW ok \in BOOLEAN
  PROVE  Dormant(ConnectDone(p, ok))
<1> DEFINE q == [p EXCEPT !.timeoutTimer = "idle"]
<1>1. q \in Printers
  BY DEF Printers
<1>2. Dormant(q)
  BY DormantSame DEF Printers
<1> HIDE DEF q
<1>3. ConnectDone(p, ok) = IF ok THEN Connected(q) ELSE SetupReconnect(q)
  BY DEF ConnectDone, q
<1> QED
  BY <1>1, <1>2, <1>3, ConnectedDormant, SetupReconnectDormant

LEMMA ConnectTimeoutDormant ==
  ASSUME NEW p \in Printers, Dormant(p)
  PROVE  Dormant(ConnectTimeout(p))
<1> DEFINE io == IF p.connecting THEN Append(p.io, Handler("connectErr"))
                 ELSE p.io
           q == [p EXCEPT !.connecting = FALSE, !.reads = 0,
                          !.held = << >>, !.io = io]
<1>1. io \in Seq(Handlers)
  BY HandlerType DEF Printers, Completions
<1>2. ConnectTimeout(p) = SetupReconnect(IF p.path = "tcp" THEN q ELSE p)
  BY DEF ConnectTimeout
<1> HIDE DEF io
<1>3. q \in Printers
  <2>1. << >> \in Seq(Lines) /\ << >> \in Seq(Frames)
    OBVIOUS
  <2> QED
    BY <1>1, <2>1, ClosedType
<1>4. Dormant(q)
  BY DormantSame DEF Printers
<1> HIDE DEF q
<1> QED
  BY <1>2, <1>3, <1>4, SetupReconnectDormant

LEMMA LoseConnectionDormant ==
  ASSUME NEW p \in Printers, Dormant(p)
  PROVE  Dormant(LoseConnection(p))
<1> DEFINE q == SetState(p, "Disconnected")
<1>1. q \in Printers /\ Dormant(q)
  BY SetStateLemma, SetStateDormant DEF States
<1>2. Reset(q) \in Printers /\ Dormant(Reset(q))
  BY <1>1, ResetLemma, ResetDormant
<1> QED
  BY <1>2, DoConnectDormant DEF LoseConnection

LEMMA TimeoutCheckDormant ==
  ASSUME NEW p \in Printers, Dormant(p)
  PROVE  Dormant(TimeoutCheck(p))
<1>1. Dormant(SetupTimeoutCheck(p))
  BY DormantSame DEF SetupTimeoutCheck, Printers
<1> QED
  BY <1>1, LoseConnectionDormant DEF TimeoutCheck

LEMMA InitializeDormant ==
  ASSUME NEW p \in Printers, Dormant(p)
  PROVE  Dormant(Initialize(p))
<1> DEFINE q == SendCommand(p, "M110", "none")
           r == [q EXCEPT !.lineNo = 1]
           s == SendCommand(r, "M115", "info")
<1>1. q \in Printers /\ Dormant(q)
  BY SendCommandLemma, SendCommandKeeps, KeepsDormant
     DEF Texts, OwnTexts, Callbacks
<1> HIDE DEF q
<1>2. r \in Printers
  BY <1>1, LineNumbers DEF Printers
<1>3. Dormant(r)
  BY <1>1, DormantSame DEF Printers
<1> HIDE DEF r
<1>4. s \in Printers /\ Dormant(s)
  BY <1>2, <1>3, SendCommandLemma, SendCommandKeeps, KeepsDormant
     DEF Texts, OwnTexts, Callbacks
<1>5. Initialize(p) = DoWrite(s)
  BY DEF Initialize, s, r, q
<1> HIDE DEF s
<1> QED
  BY <1>4, <1>5, DoWriteKeeps, KeepsDormant

LEMMA AnswerDormant ==
  ASSUME NEW p \in Printers, Dormant(p)
  PROVE  Dormant(Answer(p))
<1> DEFINE cb == Head(p.queue).cb
           q == SetState(p, "Connected")
           r == ShowStartupMessage(q)
           info == GetTemperature(r)
           called ==
             CASE cb = "info" -> info
               [] cb = "temp" -> [p EXCEPT !.tempTimer = TRUE]
               [] cb = "client" -> [p EXCEPT !.replies = @ + 1]
               [] cb = "job" -> LinesProcessed(p, 1)
               [] cb = "stale" -> [p EXCEPT !.halted = TRUE]
               [] OTHER -> p
<1>1. q \in Printers /\ Dormant(q)
  BY SetStateLemma, SetStateDormant DEF States
<1>2. r \in Printers /\ Dormant(r)
  BY <1>1, ShowStartupMessageLemma, ShowStartupMessageKeeps, KeepsDormant
<1>3. info \in Printers /\ Dormant(info)
  BY <1>2, GetTemperatureLemma, GetTemperatureKeeps, KeepsDormant
<1>4. Answer(p) = IF p.queue = << >> THEN p
                  ELSE [called EXCEPT !.queue = Tail(@)]
  BY DEF Answer
<1> HIDE DEF r, info
<1>5. called \in Printers /\ Dormant(called)
  <2>1. /\ [p EXCEPT !.tempTimer = TRUE] \in Printers
        /\ [p EXCEPT !.replies = @ + 1] \in Printers
        /\ [p EXCEPT !.halted = TRUE] \in Printers
    <3>1. p.replies + 1 \in Nat
      BY DEF Printers
    <3> QED
      BY <3>1 DEF Printers
  <2>2. /\ Dormant([p EXCEPT !.tempTimer = TRUE])
        /\ Dormant([p EXCEPT !.replies = @ + 1])
        /\ Dormant([p EXCEPT !.halted = TRUE])
    BY DormantSame DEF Printers
  <2>3. LinesProcessed(p, 1) = p
    BY LinesProcessedDormant
  <2> QED
    BY <1>3, <2>1, <2>2, <2>3
<1> HIDE DEF called
<1> QED
  BY <1>4, <1>5, DormantSame DEF Printers

LEMMA NextCommandDormant ==
  ASSUME NEW p \in Printers, Dormant(p)
  PROVE  Dormant(NextCommand(p))
<1> DEFINE s == [p EXCEPT !.resend = NoLine, !.executing = NoCommand]
           w == DoWrite(s)
<1>1. s \in Printers
  <2>1. NoLine \in Int
    BY DEF NoLine
  <2> QED
    BY <2>1 DEF Printers
<1>2. Dormant(s)
  BY DormantSame DEF Printers
<1> HIDE DEF s
<1>3. w \in Printers /\ Dormant(w)
  BY <1>1, <1>2, DoWriteLemma, DoWriteKeeps, KeepsDormant
<1>4. NextCommand(p) = DoRead(w)
  BY DEF NextCommand, w, s
<1> HIDE DEF w
<1> QED
  BY <1>3, <1>4, DoReadKeeps, KeepsDormant

LEMMA HandleResendDormant ==
  ASSUME NEW p \in Printers, NEW line \in Int, Dormant(p)
  PROVE  Dormant(HandleResend(p, line))
<1>1. ASSUME NEW queue, NEW history
      PROVE  Dormant([p EXCEPT !.queue = queue, !.history = history,
                               !.lineNo = line])
  BY DormantSame DEF Printers
<1> QED
  BY <1>1, RaiseErrorDormant DEF HandleResend

LEMMA ConfirmedDormant ==
  ASSUME NEW q \in Printers, Dormant(q)
  PROVE  Dormant(Confirmed(q))
<1> DEFINE p == [q EXCEPT !.rx = << >>]
           line == IF q.resend # NoLine THEN q.resend ELSE FirstResend(q.rx)
           r == [p EXCEPT !.lineNo = 1]
<1>1. p \in Printers
  <2>1. << >> \in Seq(Lines)
    OBVIOUS
  <2> QED
    BY <2>1 DEF Printers
<1>2. Dormant(p)
  BY DormantSame DEF Printers
<1>3. line \in Int
  BY FirstResendType DEF Printers
<1>4. Confirmed(q) =
        IF p.lineNo = 0 THEN NextCommand(r)
        ELSE IF line # NoLine THEN NextCommand(HandleResend(p, line))
        ELSE IF p.pendingError THEN DoRead(RaiseError(p))
        ELSE NextCommand(Answer(p))
  BY DEF Confirmed
<1> HIDE DEF p, line
<1>5. r \in Printers
  BY <1>1, LineNumbers DEF Printers
<1>6. Dormant(r)
  BY <1>1, <1>2, DormantSame DEF Printers
<1> HIDE DEF r
<1>7. Dormant(NextCommand(r))
  BY <1>5, <1>6, NextCommandDormant
<1>8. line # NoLine => Dormant(NextCommand(HandleResend(p, line)))
  BY <1>1, <1>2, <1>3, HandleResendLemma, HandleResendDormant,
     NextCommandDormant
<1>9. Dormant(DoRead(RaiseError(p)))
  BY <1>1, <1>2, RaiseErrorLemma, RaiseErrorDormant, DoReadKeeps,
     KeepsDormant
<1>10. Dormant(NextCommand(Answer(p)))
  BY <1>1, <1>2, AnswerLemma, AnswerDormant, NextCommandDormant
<1> QED
  BY <1>4, <1>7, <1>8, <1>9, <1>10

LEMMA RestartedDormant ==
  ASSUME NEW q \in Printers, Dormant(q)
  PROVE  Dormant(Restarted(q))
<1> DEFINE p == [q EXCEPT !.resend = NoLine, !.executing = NoCommand]
           failed == IF p.state # "Error" /\ p.job.st # "None"
                       THEN JobSetError(p) ELSE p
           f == [failed EXCEPT !.lineNo = MaxLineNo]
           m == ShowStartupMessage(f)
<1>1. p \in Printers
  <2>1. NoLine \in Int
    BY DEF NoLine
  <2> QED
    BY <2>1 DEF Printers
<1>2. Dormant(p)
  BY DormantSame DEF Printers
<1>3. Restarted(q) = IF p.state \in {"Connected", "Error"} THEN DoWrite(m)
                     ELSE p
  BY DEF Restarted
<1> HIDE DEF p
<1>4. failed \in Printers
  <2>1. [p.job EXCEPT !.st = "Error"] \in Jobs
    BY <1>1 DEF Printers, Jobs, JobStates
  <2>2. JobSetError(p) = [p EXCEPT !.job = [p.job EXCEPT !.st = "Error"]]
    BY <1>1 DEF JobSetError, Printers
  <2> QED
    BY <1>1, <2>1, <2>2, JobFields
<1>5. Dormant(failed)
  BY <1>1, <1>2, JobSetErrorDormant
<1> HIDE DEF failed
<1>6. f \in Printers
  BY <1>4, LineNumbers DEF Printers
<1>7. Dormant(f)
  BY <1>4, <1>5, DormantSame DEF Printers
<1> HIDE DEF f
<1>8. m \in Printers /\ Dormant(m)
  BY <1>6, <1>7, ShowStartupMessageLemma, ShowStartupMessageKeeps,
     KeepsDormant
<1> HIDE DEF m
<1> QED
  BY <1>2, <1>3, <1>8, DoWriteKeeps, KeepsDormant

LEMMA ReadDoneDormant ==
  ASSUME NEW q \in Printers, Dormant(q)
  PROVE  Dormant(ReadDone(q))
<1> DEFINE line == IF q.rx = << >> THEN [t |-> "other", n |-> NoLine]
                   ELSE Head(q.rx)
           rx == IF q.rx = << >> THEN q.rx ELSE Tail(q.rx)
           resend == IF q.resend = NoLine /\ line.t = "resend" THEN line.n
                     ELSE q.resend
           p == [q EXCEPT !.quiet = 0, !.rx = rx, !.resend = resend]
           e == [p EXCEPT !.pendingError = TRUE]
<1>1. q.rx \in Seq(Lines) /\ q.resend \in Int
  BY DEF Printers
<1>2. line \in Lines /\ rx \in Seq(Lines)
  <2>1. [t |-> "other", n |-> NoLine] \in Lines
    BY DEF Lines, NoLine
  <2>2. q.rx # << >> => Head(q.rx) \in Lines /\ Tail(q.rx) \in Seq(Lines)
    BY <1>1
  <2> QED
    BY <1>1, <2>1, <2>2
<1>3. ReadDone(q) \in {Confirmed(p), DoRead(p), DoRead(Restarted(p)),
                       DoRead(e)}
  <2>1. line.t \in {"ok", "resend", "error", "start", "other"}
    BY <1>2 DEF Lines
  <2>2. ReadDone(q) =
          CASE line.t = "ok" -> Confirmed(p)
            [] line.t # "ok" /\ p.executing \in HeatWait -> DoRead(p)
            [] line.t = "start" /\ p.executing \notin HeatWait ->
                 DoRead(Restarted(p))
            [] line.t = "error" /\ p.executing \notin HeatWait -> DoRead(e)
            [] line.t \in {"resend", "other"} /\ p.executing \notin HeatWait ->
                 DoRead(p)
    BY DEF ReadDone
  <2> HIDE DEF line, p, e
  <2> QED
    BY <2>1, <2>2
<1> HIDE DEF line, rx
<1>4. resend \in Int
  BY <1>1, <1>2 DEF Lines
<1> HIDE DEF resend
<1>5. p \in Printers
  BY <1>2, <1>4 DEF Printers
<1>6. Dormant(p)
  BY DormantSame DEF Printers
<1> HIDE DEF p
<1>7. e \in Printers
  BY <1>5 DEF Printers
<1>8. Dormant(e)
  BY <1>5, <1>6, DormantSame DEF Printers
<1> HIDE DEF e
<1>9. Dormant(Confirmed(p))
  BY <1>5, <1>6, ConfirmedDormant
<1>10. Dormant(DoRead(p)) /\ Dormant(DoRead(e))
  BY <1>5, <1>6, <1>7, <1>8, DoReadKeeps, KeepsDormant
<1>11. Dormant(DoRead(Restarted(p)))
  BY <1>5, <1>6, RestartedLemma, RestartedDormant, DoReadKeeps, KeepsDormant
<1> QED
  BY <1>3, <1>9, <1>10, <1>11

LEMMA RunIoDormant ==
  ASSUME TypeOK, RunIo, Dormant(printer)
  PROVE  Dormant(printer')
<1> DEFINE p == Taken
<1>1. ASSUME NEW h, NEW result, RunHandler(h, result), Dormant(result)
      PROVE  Dormant(printer')
  BY <1>1 DEF RunHandler
<1>2. ASSUME NEW h, NEW result, RunHandler(h, result)
      PROVE  /\ p \in Printers /\ Dormant(p)
             /\ Head(printer.io) \in Handlers /\ Head(printer.io).h = h
  <2>1. /\ printer \in Printers /\ printer.io \in Seq(Handlers)
        /\ printer.io # << >> /\ Head(printer.io).h = h
    BY <1>2 DEF RunHandler, Due, TypeOK, Printers
  <2>2. Tail(printer.io) \in Seq(Handlers) /\ Head(printer.io) \in Handlers
    BY <2>1
  <2>3. p \in Printers /\ p.job = printer.job
    BY <2>1, <2>2 DEF Taken, Printers
  <2> QED
    BY <2>1, <2>2, <2>3, DormantSame
<1>3. CASE RunSend
  <2> DEFINE cmd == Head(printer.io).cmd
             q == Send(p, cmd)
  <2>1. RunHandler("send", q)
    BY <1>3 DEF RunSend
  <2>2. /\ p \in Printers /\ Dormant(p)
        /\ Head(printer.io) \in Handlers /\ Head(printer.io).h = "send"
    BY <1>2, <2>1
  <2>3. cmd \in Commands
    BY <2>2 DEF Handlers, Completions
  <2> HIDE DEF cmd
  <2>4. q.job.st = p.job.st
    BY <2>2, <2>3, SendKeeps
  <2> HIDE DEF q, p
  <2> QED
    BY <1>1, <2>1, <2>2, <2>4 DEF Dormant
<1> HIDE DEF p
<1>4. CASE RunReadDone
  BY <1>1, <1>2, <1>4, ReadDoneDormant DEF RunReadDone, p
<1>5. CASE RunReadError
  BY <1>1, <1>2, <1>5, LoseConnectionDormant DEF RunReadError, p
<1>6. CASE RunWriteError
  BY <1>1, <1>2, <1>6, LoseConnectionDormant DEF RunWriteError, p
<1>7. CASE RunConnected
  BY <1>1, <1>2, <1>7, ConnectDoneDormant DEF RunConnected, p
<1>8. CASE RunConnectFailed
  BY <1>1, <1>2, <1>8, ConnectDoneDormant DEF RunConnectFailed, p
<1>9. CASE RunConnectTimeout
  BY <1>1, <1>2, <1>9, ConnectTimeoutDormant DEF RunConnectTimeout, p
<1>10. CASE RunTimeoutCheck
  BY <1>1, <1>2, <1>10, TimeoutCheckDormant DEF RunTimeoutCheck, p
<1>11. CASE RunReconnect
  BY <1>1, <1>2, <1>11, DoConnectDormant DEF RunReconnect, p
<1>12. CASE RunInitialize
  BY <1>1, <1>2, <1>12, InitializeDormant DEF RunInitialize, p
<1>13. CASE RunGetTemperature
  BY <1>1, <1>2, <1>13, GetTemperatureKeeps, KeepsDormant
     DEF RunGetTemperature, p
<1> QED
  BY <1>3, <1>4, <1>5, <1>6, <1>7, <1>8, <1>9, <1>10, <1>11, <1>12, <1>13
     DEF RunIo

(* Of the requests only two start a job. *)
LEMMA RequestsDormant ==
  ASSUME TypeOK, Requests, Dormant(printer), ~SubmitJob, ~ResumeJob
  PROVE  Dormant(printer')
<1> DEFINE p == printer
<1>0. p \in Printers
  BY DEF TypeOK
<1>1. ASSUME NEW s \in States
      PROVE  SetState(p, s) \in Printers /\ Dormant(SetState(p, s))
  BY <1>0, SetStateLemma, SetStateDormant
<1>2. ASSUME NEW q \in Printers, Dormant(q)
      PROVE  Dormant(DeviceSettingsChanged(q))
  BY <1>2, ResetLemma, ResetDormant, DoConnectDormant
     DEF DeviceSettingsChanged
<1>3. CASE StartPrinter
  <2>1. Dormant(Start(p))
    BY <1>0, <1>1, DoConnectDormant DEF Start, States
  <2> QED
    BY <1>3, <2>1 DEF StartPrinter, Request
<1>4. CASE StopPrinter
  <2>1. Dormant(Stop(p))
    BY <1>1, ResetDormant DEF Stop, States
  <2> QED
    BY <1>4, <2>1 DEF StopPrinter, Request
<1>5. CASE ChangeSettings
  BY <1>0, <1>2, <1>5 DEF ChangeSettings, Request
<1>6. CASE ChangePath
  <2>1. PICK path \in Paths :
          printer' = DeviceSettingsChanged([p EXCEPT !.path = path])
    BY <1>6 DEF ChangePath, Request
  <2>2. [p EXCEPT !.path = path] \in Printers
    BY <1>0 DEF Printers
  <2>3. Dormant([p EXCEPT !.path = path])
    BY <1>0, DormantSame DEF Printers
  <2> QED
    BY <1>2, <2>1, <2>2, <2>3
<1>7. ASSUME NEW text \in Texts, NEW cb \in Callbacks,
             printer' = SendCommand(p, text, cb)
      PROVE  Dormant(printer')
  BY <1>0, <1>7, SendCommandKeeps, KeepsDormant
<1>8. CASE SubmitGcode
  BY <1>7, <1>8 DEF SubmitGcode, Request, Texts, Callbacks
<1>9. CASE SetTemperature
  BY <1>7, <1>9 DEF SetTemperature, Request, Texts, OwnTexts, Callbacks
<1>10. CASE ResetRequest
  BY <1>0, <1>7, <1>10
     DEF ResetRequest, Request, ResetPrinter, Texts, OwnTexts, Callbacks
<1>11. CASE PauseJob
  BY <1>11 DEF PauseJob, Dormant
<1>12. CASE CancelJob
  <2> DEFINE job == [p.job EXCEPT !.st = "Stopped"]
             q == [p EXCEPT !.job = job]
             texts == << "M18", "M107", "M104", "M140", "G91", "G0" >>
  <2>1. job \in Jobs /\ job.st = "Stopped"
    BY <1>0 DEF Printers, Jobs, JobStates
  <2>2. texts \in Seq(Texts)
    BY DEF Texts, OwnTexts
  <2>3. printer' = SendCommands(q, texts)
    BY <1>0, <1>12 DEF CancelJob, Request, JobStop, Printers
  <2> HIDE DEF job, texts
  <2>4. q \in Printers /\ q.job = job
    BY <1>0, <2>1, JobFields
  <2> HIDE DEF q
  <2> QED
    BY <2>1, <2>2, <2>3, <2>4, SendCommandsKeeps, KeepsDormant DEF Dormant
<1> QED
  BY <1>3, <1>4, <1>5, <1>6, <1>8, <1>9, <1>10, <1>11, <1>12 DEF Requests

(***************************************************************************)
(* A paused job is set going only by a resume, whatever comes in meanwhile:*)
(* the ok of the line that was in flight, a queue that is reset, a lost    *)
(* connection, another request.                                            *)
(***************************************************************************)
THEOREM PausedStaysPaused == Spec => PausedUntilResumed
<1> DEFINE Waits == printer.job.st = "Paused"
                      /\ printer'.job.st \in {"Running", "Done"}
                      => left'["resume"] < left["resume"]
<1>1. ASSUME TypeOK, [Next]_vars PROVE Waits
  <2> SUFFICES ASSUME printer.job.st = "Paused", ~ResumeJob
               PROVE  Dormant(printer')
    <3>1. left \in [Kinds \cup {"all"} -> Nat] /\ "resume" \in Kinds
      BY <1>1 DEF TypeOK, Budgets, Kinds
    <3>2. Spend("resume") => left'["resume"] = left["resume"] - 1
      BY <3>1 DEF Spend
    <3>3. ResumeJob => left'["resume"] < left["resume"]
      BY <3>1, <3>2 DEF ResumeJob, Request
    <3> QED
      BY <3>3 DEF Dormant
  <2>1. Dormant(printer) /\ printer \in Printers
    BY <1>1 DEF Dormant, TypeOK
  <2>2. CASE RunIo
    BY <1>1, <2>1, <2>2, RunIoDormant
  <2>3. CASE Timers \/ Link \/ FirmwareStep
    <3>1. PICK q \in Printers : Prompts(printer, q) /\ Unspoken(q, printer')
      BY <1>1, <2>3, EnvironmentPosts
    <3>2. Dormant(q)
      BY <2>1, <3>1, KeepsDormant DEF Prompts
    <3> QED
      BY <3>1, <3>2, DormantSame DEF Unspoken
  <2>4. CASE Requests
    BY <1>1, <2>1, <2>4, RequestsDormant DEF SubmitJob
  <2>5. CASE UNCHANGED vars
    BY <2>1, <2>5 DEF vars
  <2> QED
    BY <1>1, <2>2, <2>3, <2>4, <2>5 DEF Next
<1>2. TypeOK /\ [Next]_vars => [Waits]_vars
  BY <1>1
<1> QED
  BY <1>2, TypeCorrect, PTL DEF Spec, PausedUntilResumed
=============================================================================
