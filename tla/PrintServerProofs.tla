------------------------- MODULE PrintServerProofs -------------------------
(***************************************************************************)
(* The theorems about PrintServer: type correctness, that a stopped        *)
(* printer has no port over any link, and more of the connection on a      *)
(* serial device.  Lemmas say what each method does to the type and to the *)
(* two invariants, then come the actions.                                  *)
(***************************************************************************)
EXTENDS PrintServer, FiniteSetTheorems, SequenceTheorems,
        WellFoundedInduction, TLAPS

-----------------------------------------------------------------------------
(* The queue of ready handlers. *)

LEMMA WaitingAppend ==
  ASSUME NEW io \in Seq(Handlers), NEW hd \in Handlers
  PROVE  /\ Append(io, hd) \in Seq(Handlers)
         /\ Waiting(Append(io, hd)) = Waiting(io) \cup {hd.h}
<1>1. /\ Append(io, hd) \in Seq(Handlers)
      /\ DOMAIN io = 1..Len(io) /\ Len(io) \in Nat
      /\ DOMAIN Append(io, hd) = 1..(Len(io) + 1)
      /\ \A i \in 1..Len(io) : Append(io, hd)[i] = io[i]
      /\ Append(io, hd)[Len(io) + 1] = hd
  OBVIOUS
<1>2. 1..(Len(io) + 1) = (1..Len(io)) \cup {Len(io) + 1}
  BY <1>1
<1> QED
  BY <1>1, <1>2 DEF Waiting

LEMMA WaitingConcat ==
  ASSUME NEW io \in Seq(Handlers), NEW more \in Seq(Handlers)
  PROVE  /\ io \o more \in Seq(Handlers)
         /\ Waiting(io \o more) = Waiting(io) \cup Waiting(more)
<1>1. /\ io \o more \in Seq(Handlers)
      /\ Len(io) \in Nat /\ Len(more) \in Nat
      /\ DOMAIN io = 1..Len(io) /\ DOMAIN more = 1..Len(more)
      /\ DOMAIN (io \o more) = 1..(Len(io) + Len(more))
  BY ConcatProperties
<1>2. \A i \in 1..Len(io) : i \in DOMAIN (io \o more) /\ (io \o more)[i] = io[i]
  BY <1>1, ConcatProperties
<1>3. \A i \in 1..Len(more) : /\ Len(io) + i \in DOMAIN (io \o more)
                              /\ (io \o more)[Len(io) + i] = more[i]
  BY <1>1, ConcatProperties
<1>4. ASSUME NEW j \in DOMAIN (io \o more)
      PROVE  (io \o more)[j].h \in Waiting(io) \cup Waiting(more)
  <2>1. CASE j <= Len(io)
    BY <2>1, <1>1, <1>2 DEF Waiting
  <2>2. CASE ~(j <= Len(io))
    <3>1. j - Len(io) \in 1..Len(more) /\ j = Len(io) + (j - Len(io))
      BY <2>2, <1>1
    <3>2. (io \o more)[j] = more[j - Len(io)]
      BY <3>1, <1>3
    <3> QED
      BY <3>1, <3>2, <1>1 DEF Waiting
  <2> QED
    BY <2>1, <2>2
<1>5. Waiting(io) \subseteq Waiting(io \o more)
  BY <1>1, <1>2 DEF Waiting
<1>6. ASSUME NEW i \in DOMAIN more
      PROVE  more[i].h \in Waiting(io \o more)
  BY <1>1, <1>3 DEF Waiting
<1> QED
  BY <1>1, <1>4, <1>5, <1>6 DEF Waiting

LEMMA HandlerType ==
  ASSUME NEW h \in Completions
  PROVE  Handler(h) \in Handlers /\ Handler(h).h = h
BY DEF Handlers, Handler, Bare

LEMMA SendingType ==
  ASSUME NEW text \in Texts, NEW cb \in Callbacks
  PROVE  Sending(text, cb) \in Handlers /\ Sending(text, cb).h = "send"
BY DEF Handlers, Completions, Sending, Commands

(* sendCommand for each of a sequence of commands *)
LEMMA SendingsType ==
  ASSUME NEW n \in Int, NEW texts, NEW cb \in Callbacks,
         \A i \in 1..n : texts[i] \in Texts
  PROVE  LET more == [i \in 1..n |-> Sending(texts[i], cb)]
         IN  more \in Seq(Handlers) /\ Waiting(more) \subseteq {"send"}
<1> DEFINE more == [i \in 1..n |-> Sending(texts[i], cb)]
<1>1. \A i \in 1..n : more[i] \in Handlers /\ more[i].h = "send"
  BY SendingType
<1>2. more \in Seq(Handlers)
  <2>1. CASE n \in Nat
    BY <2>1, <1>1
  <2>2. CASE n \notin Nat
    <3>1. 1..n = {}
      BY <2>2
    <3>2. more = << >>
      BY <3>1
    <3> QED
      BY <3>2
  <2> QED
    BY <2>1, <2>2
<1> QED
  BY <1>1, <1>2 DEF Waiting

-----------------------------------------------------------------------------
(***************************************************************************)
(* What a method leaves alone: the port with its timers and reads, and     *)
(* what is in the buffer; of the ready handlers, none goes and those that  *)
(* come are of the given kinds.                                            *)
(***************************************************************************)
SamePort(p, q) ==
  /\ q.path = p.path /\ q.port = p.port /\ q.connecting = p.connecting
  /\ q.reconnectTimer = p.reconnectTimer /\ q.timeoutTimer = p.timeoutTimer
  /\ q.reads = p.reads /\ q.rx = p.rx

Adds(p, q, kinds) ==
  /\ Waiting(p.io) \subseteq Waiting(q.io)
  /\ Waiting(q.io) \subseteq Waiting(p.io) \cup kinds

SameQueue(p, q) == q.queue = p.queue /\ q.executing = p.executing

LEMMA PostLemma ==
  ASSUME NEW p \in Printers, NEW h \in Completions
  PROVE  /\ Post(p, h) \in Printers
         /\ SamePort(p, Post(p, h)) /\ SameQueue(p, Post(p, h))
         /\ Post(p, h).state = p.state
         /\ Adds(p, Post(p, h), {h}) /\ Ready(Post(p, h), h)
<1>1. p.io \in Seq(Handlers)
  BY DEF Printers
<1>2. /\ Append(p.io, Handler(h)) \in Seq(Handlers)
      /\ Waiting(Append(p.io, Handler(h))) = Waiting(p.io) \cup {h}
  BY <1>1, HandlerType, WaitingAppend
<1>3. Post(p, h).io = Append(p.io, Handler(h))
  BY DEF Post, Printers
<1>4. Post(p, h) \in Printers
  BY <1>2 DEF Post, Printers
<1>5. SamePort(p, Post(p, h)) /\ SameQueue(p, Post(p, h)) /\ Post(p, h).state = p.state
  BY DEF Post, Printers, SamePort, SameQueue
<1> QED
  BY <1>2, <1>3, <1>4, <1>5 DEF Adds, Ready

LEMMA SendCommandLemma ==
  ASSUME NEW p \in Printers, NEW text \in Texts, NEW cb \in Callbacks
  PROVE  /\ SendCommand(p, text, cb) \in Printers
         /\ SamePort(p, SendCommand(p, text, cb))
         /\ SameQueue(p, SendCommand(p, text, cb))
         /\ SendCommand(p, text, cb).state = p.state
         /\ Adds(p, SendCommand(p, text, cb), {"send"})
<1>1. p.io \in Seq(Handlers)
  BY DEF Printers
<1>2. /\ Append(p.io, Sending(text, cb)) \in Seq(Handlers)
      /\ Waiting(Append(p.io, Sending(text, cb))) = Waiting(p.io) \cup {"send"}
  BY <1>1, SendingType, WaitingAppend
<1>3. SendCommand(p, text, cb).io = Append(p.io, Sending(text, cb))
  BY DEF SendCommand, Printers
<1>4. SendCommand(p, text, cb) \in Printers
  BY <1>2 DEF SendCommand, Printers
<1>5. /\ SamePort(p, SendCommand(p, text, cb))
      /\ SameQueue(p, SendCommand(p, text, cb))
      /\ SendCommand(p, text, cb).state = p.state
  BY DEF SendCommand, Printers, SamePort, SameQueue
<1> QED
  BY <1>2, <1>3, <1>4, <1>5 DEF Adds

LEMMA SendCommandsLemma ==
  ASSUME NEW p \in Printers, NEW texts \in Seq(Texts)
  PROVE  /\ SendCommands(p, texts) \in Printers
         /\ SamePort(p, SendCommands(p, texts))
         /\ SameQueue(p, SendCommands(p, texts))
         /\ SendCommands(p, texts).state = p.state
         /\ Adds(p, SendCommands(p, texts), {"send"})
<1> DEFINE more == [i \in 1..Len(texts) |-> Sending(texts[i], "none")]
<1>1. p.io \in Seq(Handlers)
  BY DEF Printers
<1>2. more \in Seq(Handlers) /\ Waiting(more) \subseteq {"send"}
  <2>1. Len(texts) \in Nat /\ \A i \in 1..Len(texts) : texts[i] \in Texts
    OBVIOUS
  <2> QED
    BY <2>1, SendingsType DEF Callbacks
<1>3. /\ p.io \o more \in Seq(Handlers)
      /\ Waiting(p.io \o more) = Waiting(p.io) \cup Waiting(more)
  BY <1>1, <1>2, WaitingConcat
<1>4. SendCommands(p, texts) = [p EXCEPT !.io = @ \o more]
  <2>1. DOMAIN texts = 1..Len(texts)
    OBVIOUS
  <2> QED
    BY <2>1 DEF SendCommands
<1> HIDE DEF more
<1>5. SendCommands(p, texts).io = p.io \o more
  BY <1>4 DEF Printers
<1>6. SendCommands(p, texts) \in Printers
  BY <1>3, <1>4 DEF Printers
<1>7. /\ SamePort(p, SendCommands(p, texts))
      /\ SameQueue(p, SendCommands(p, texts))
      /\ SendCommands(p, texts).state = p.state
  BY <1>4 DEF Printers, SamePort, SameQueue
<1> QED
  BY <1>2, <1>3, <1>5, <1>6, <1>7 DEF Adds

LEMMA LinesProcessedLemma ==
  ASSUME NEW p \in Printers, NEW n \in Nat
  PROVE  /\ LinesProcessed(p, n) \in Printers
         /\ SamePort(p, LinesProcessed(p, n))
         /\ SameQueue(p, LinesProcessed(p, n))
         /\ LinesProcessed(p, n).state = p.state
         /\ Adds(p, LinesProcessed(p, n), {"send"})
<1> DEFINE rest == Len(JobFile) - p.job.pos
           k == IF n <= rest THEN n ELSE rest
           next == [i \in 1..k |-> JobFile[p.job.pos + i]]
           more == [i \in 1..k |-> Sending(next[i], "job")]
           q == LinesProcessed(p, n)
<1>1. /\ p.io \in Seq(Handlers) /\ p.job \in Jobs
      /\ p.job.pos \in Nat /\ p.job.st \in JobStates
  BY DEF Printers, Jobs
<1>2. rest \in Int /\ k \in Int /\ p.job.pos + k \in Nat
  BY <1>1, TextAssumption
<1>3. more \in Seq(Handlers) /\ Waiting(more) \subseteq {"send"}
  <2>1. \A i \in 1..k : next[i] \in Texts
    BY <1>1, <1>2, TextAssumption
  <2> HIDE DEF next
  <2> QED
    BY <1>2, <2>1, SendingsType DEF Callbacks
<1>4. CASE p.job.st # "Running" \/ n = 0
  <2>1. q = p
    BY <1>4 DEF LinesProcessed, Continues
  <2> QED
    BY <2>1 DEF SamePort, SameQueue, Adds
<1>5. CASE ~(p.job.st # "Running" \/ n = 0) /\ p.state # "Connected"
  <2> DEFINE job == [p.job EXCEPT !.st = "Error",
                                  !.pos = p.job.pos + (IF rest > 0 THEN 1 ELSE 0),
                                  !.ended = p.job.ended \/ rest <= 0]
  <2>1. q = [p EXCEPT !.job = job]
    BY <1>5 DEF LinesProcessed, Continues
  <2>2. job \in Jobs
    <3>1. /\ p.job.pos + (IF rest > 0 THEN 1 ELSE 0) \in Nat
          /\ (p.job.ended \/ rest <= 0) \in BOOLEAN
      BY <1>1, <1>2
    <3> QED
      BY <1>1, <3>1 DEF Jobs, JobStates
  <2> HIDE DEF job
  <2>3. q \in Printers
    BY <2>1, <2>2 DEF Printers
  <2> QED
    BY <2>1, <2>3 DEF Printers, SamePort, SameQueue, Adds
<1>6. CASE ~(p.job.st # "Running" \/ n = 0) /\ p.state = "Connected"
  <2> DEFINE job == [p.job EXCEPT !.st = IF n > rest THEN "Done" ELSE "Running",
                                  !.pos = p.job.pos + k,
                                  !.ended = p.job.ended \/ n > rest]
  <2>1. q = [p EXCEPT !.job = job, !.io = @ \o more]
    BY <1>6, <1>2 DEF LinesProcessed, Continues, Exhausted
  <2>2. job \in Jobs
    <3>1. (p.job.ended \/ n > rest) \in BOOLEAN
      OBVIOUS
    <3> QED
      BY <1>1, <1>2, <3>1 DEF Jobs, JobStates
  <2>3. /\ p.io \o more \in Seq(Handlers)
        /\ Waiting(p.io \o more) = Waiting(p.io) \cup Waiting(more)
    BY <1>1, <1>3, WaitingConcat
  <2> HIDE DEF job, more
  <2>4. q \in Printers
    <3> DEFINE io == p.io \o more
    <3>1. io \in Seq(Handlers) /\ q = [p EXCEPT !.job = job, !.io = io]
      BY <2>1, <2>3
    <3> HIDE DEF io, q
    <3> QED
      BY <2>2, <3>1 DEF Printers
  <2>5. SamePort(p, q) /\ SameQueue(p, q) /\ q.state = p.state
    BY <2>1 DEF Printers, SamePort, SameQueue
  <2>6. q.io = p.io \o more
    BY <2>1 DEF Printers
  <2> QED
    BY <1>3, <2>3, <2>4, <2>5, <2>6 DEF Adds
<1> QED
  BY <1>4, <1>5, <1>6

-----------------------------------------------------------------------------
(* Relations between what methods leave alone compose. *)

LEMMA SamePortTrans ==
  ASSUME NEW p, NEW q, NEW r, SamePort(p, q), SamePort(q, r)
  PROVE  SamePort(p, r)
BY DEF SamePort

LEMMA AddsTrans ==
  ASSUME NEW p, NEW q, NEW r, NEW K, NEW L, Adds(p, q, K), Adds(q, r, L)
  PROVE  Adds(p, r, K \cup L)
BY DEF Adds

-----------------------------------------------------------------------------
(* The command queue and the states. *)

LEMMA CallbacksCounted ==
  ASSUME NEW p \in Printers, NEW cb
  PROVE  Cardinality({i \in DOMAIN p.queue : p.queue[i].cb = cb}) \in Nat
<1> DEFINE with == {i \in DOMAIN p.queue : p.queue[i].cb = cb}
<1>1. with \subseteq DOMAIN p.queue /\ DOMAIN p.queue = 1..Len(p.queue)
      /\ Len(p.queue) \in Nat
  BY DEF Printers
<1>2. \A len \in Nat : IsFiniteSet(1..len)
  BY FS_Interval
<1> HIDE DEF with
<1>3. IsFiniteSet(with)
  BY <1>1, <1>2, FS_Subset
<1>4. Cardinality(with) \in Nat
  BY <1>3, FS_CardinalityType
<1> QED
  BY <1>4 DEF with

LEMMA DroppedType ==
  ASSUME NEW p \in Printers, NEW timer \in BOOLEAN, NEW crash \in BOOLEAN,
         NEW calls \in Nat
  PROVE  [p EXCEPT !.resend = NoLine, !.pendingError = FALSE,
                   !.queue = << >>, !.tempTimer = timer,
                   !.replies = calls, !.halted = crash] \in Printers
<1>1. << >> \in Seq(Commands) /\ NoLine \in Int
  BY DEF NoLine
<1> QED
  BY <1>1 DEF Printers

LEMMA ResetCommandQueueLemma ==
  ASSUME NEW p \in Printers
  PROVE  /\ ResetCommandQueue(p) \in Printers
         /\ SamePort(p, ResetCommandQueue(p))
         /\ ResetCommandQueue(p).queue = << >>
         /\ ResetCommandQueue(p).executing = p.executing
         /\ ResetCommandQueue(p).state = p.state
         /\ Adds(p, ResetCommandQueue(p), {"send"})
<1> DEFINE with(cb) == {i \in DOMAIN p.queue : p.queue[i].cb = cb}
           timer == p.tempTimer \/ with("temp") # {}
           crash == p.halted \/ with("stale") # {}
           calls == p.replies + Cardinality(with("client"))
           q == [p EXCEPT !.resend = NoLine, !.pendingError = FALSE,
                          !.queue = << >>, !.tempTimer = timer,
                          !.replies = calls, !.halted = crash]
           n == Cardinality(with("job"))
<1>1. n \in Nat /\ calls \in Nat
  <2>1. p.replies \in Nat
    BY DEF Printers
  <2>2. n \in Nat /\ Cardinality(with("client")) \in Nat
    BY CallbacksCounted
  <2> HIDE DEF with, n
  <2> QED
    BY <2>1, <2>2 DEF calls
<1>2. q \in Printers
  <2>1. timer \in BOOLEAN /\ crash \in BOOLEAN
    OBVIOUS
  <2> HIDE DEF timer, crash, calls
  <2> QED
    BY <1>1, <2>1, DroppedType
<1>3. SamePort(p, q) /\ q.io = p.io /\ q.queue = << >> /\ q.state = p.state
      /\ q.executing = p.executing
  BY DEF Printers, SamePort
<1>4. ResetCommandQueue(p) = LinesProcessed(q, n)
  BY DEF ResetCommandQueue
<1> HIDE DEF q, n
<1>5. /\ LinesProcessed(q, n) \in Printers /\ SamePort(q, LinesProcessed(q, n))
      /\ SameQueue(q, LinesProcessed(q, n))
      /\ LinesProcessed(q, n).state = q.state
      /\ Adds(q, LinesProcessed(q, n), {"send"})
  BY <1>1, <1>2, LinesProcessedLemma
<1> QED
  BY <1>3, <1>4, <1>5 DEF SamePort, SameQueue, Adds

LEMMA SetStateLemma ==
  ASSUME NEW p \in Printers, NEW s \in States
  PROVE  /\ SetState(p, s) \in Printers
         /\ SamePort(p, SetState(p, s))
         /\ SetState(p, s).queue = p.queue \/ SetState(p, s).queue = << >>
         /\ s # "Error" => SameQueue(p, SetState(p, s))
         /\ SetState(p, s).executing = p.executing
         /\ SetState(p, s).state = s
         /\ Adds(p, SetState(p, s), {"send"})
<1> DEFINE r == IF s = "Error" THEN ResetCommandQueue(p) ELSE p
<1>1. /\ r \in Printers /\ SamePort(p, r) /\ Adds(p, r, {"send"})
      /\ r.queue = p.queue \/ r.queue = << >>
      /\ s # "Error" => r.queue = p.queue
      /\ r.executing = p.executing
  BY ResetCommandQueueLemma DEF SamePort, Adds
<1>2. CASE s = p.state
  BY <1>2 DEF SetState, SamePort, SameQueue, Adds
<1>3. CASE s # p.state
  <2>1. SetState(p, s) = [r EXCEPT !.state = s]
    BY <1>3 DEF SetState
  <2> HIDE DEF r
  <2>2. [r EXCEPT !.state = s] \in Printers
    BY <1>1 DEF Printers
  <2>3. /\ SamePort(r, SetState(p, s)) /\ SameQueue(r, SetState(p, s))
        /\ SetState(p, s).io = r.io /\ SetState(p, s).state = s
    BY <1>1, <2>1 DEF Printers, SamePort, SameQueue
  <2> QED
    BY <1>1, <2>1, <2>2, <2>3 DEF SamePort, SameQueue, Adds
<1> QED
  BY <1>2, <1>3

LEMMA RaiseErrorLemma ==
  ASSUME NEW p \in Printers
  PROVE  /\ RaiseError(p) \in Printers
         /\ SamePort(p, RaiseError(p))
         /\ RaiseError(p).queue = << >>
         /\ RaiseError(p).executing = p.executing
         /\ RaiseError(p).state = "Error"
         /\ Adds(p, RaiseError(p), {"send"})
<1> DEFINE r == ResetCommandQueue(p)
           e == SetState(r, "Error")
<1>1. /\ r \in Printers /\ SamePort(p, r) /\ Adds(p, r, {"send"})
      /\ r.queue = << >> /\ r.executing = p.executing
  BY ResetCommandQueueLemma
<1> HIDE DEF r
<1>2. /\ e \in Printers /\ SamePort(r, e) /\ Adds(r, e, {"send"})
      /\ e.queue = << >> /\ e.executing = r.executing /\ e.state = "Error"
  BY <1>1, SetStateLemma DEF States
<1> HIDE DEF e
<1>3. /\ JobSetError(e) \in Printers /\ SamePort(e, JobSetError(e))
      /\ SameQueue(e, JobSetError(e)) /\ JobSetError(e).state = e.state
      /\ JobSetError(e).io = e.io
  <2>1. [e.job EXCEPT !.st = "Error"] \in Jobs
    BY <1>2 DEF Printers, Jobs, JobStates
  <2> QED
    BY <1>2, <2>1 DEF JobSetError, Printers, SamePort, SameQueue
<1>4. RaiseError(p) = IF r.state = "Error" THEN r
                      ELSE IF e.job.st # "None" THEN JobSetError(e) ELSE e
  BY DEF RaiseError, r, e
<1> QED
  BY <1>1, <1>2, <1>3, <1>4 DEF SamePort, SameQueue, Adds

-----------------------------------------------------------------------------
(* Reading and writing. *)

LEMMA DoReadLemma ==
  ASSUME NEW p \in Printers
  PROVE  /\ DoRead(p) \in Printers
         /\ DoRead(p).path = p.path /\ DoRead(p).port = p.port
         /\ DoRead(p).connecting = p.connecting
         /\ DoRead(p).reconnectTimer = p.reconnectTimer
         /\ DoRead(p).timeoutTimer = p.timeoutTimer
         /\ DoRead(p).reads \in {p.reads, p.reads + 1}
         /\ SameQueue(p, DoRead(p)) /\ DoRead(p).state = p.state
         /\ Adds(p, DoRead(p), {"readOk", "readErr"})
         /\ ListensOn(DoRead(p))
         /\ p.rx = << >> /\ p.port = "closed" => Ready(DoRead(p), "readErr")
<1>1. CASE p.rx # << >>
  BY <1>1, PostLemma DEF DoRead, Completions, SamePort, Adds, ListensOn
<1>2. CASE p.rx = << >> /\ ~Readable(p)
  BY <1>2, PostLemma DEF DoRead, Completions, SamePort, Adds, ListensOn
<1>3. CASE p.rx = << >> /\ Readable(p)
  <2>1. DoRead(p) = [p EXCEPT !.reads = @ + 1] /\ p.port # "closed"
    BY <1>3 DEF DoRead, Readable
  <2>2. p.reads \in Nat /\ p.reads + 1 \in Nat /\ p.reads + 1 > 0
    BY DEF Printers
  <2>3. DoRead(p) \in Printers /\ DoRead(p).reads = p.reads + 1
    BY <2>1, <2>2 DEF Printers
  <2> QED
    BY <2>1, <2>2, <2>3 DEF Printers, SameQueue, Adds, ListensOn
<1> QED
  BY <1>1, <1>2, <1>3

LEMMA FramesType ==
  ASSUME NEW p \in Printers, NEW frames \in Seq(Frames)
  PROVE  /\ [p EXCEPT !.tx = frames] \in Printers
         /\ [p EXCEPT !.held = frames] \in Printers
BY DEF Printers

LEMMA JoinedType ==
  ASSUME NEW p \in Printers, NEW tx \in Seq(Frames), NEW held \in Seq(Frames)
  PROVE  [p EXCEPT !.port = "open", !.connecting = FALSE,
                   !.tx = tx, !.held = held] \in Printers
BY DEF Printers

LEMMA TransmitLemma ==
  ASSUME NEW p \in Printers, NEW frame \in Frames
  PROVE  /\ Transmit(p, frame) \in Printers
         /\ SamePort(p, Transmit(p, frame))
         /\ Transmit(p, frame).queue = p.queue
         /\ Transmit(p, frame).state = p.state
         /\ Adds(p, Transmit(p, frame), {"writeErr"})
         /\ p.port = "closed" => Ready(Transmit(p, frame), "writeErr")
<1> DEFINE q == [p EXCEPT !.executing = frame.text, !.resend = NoLine,
                          !.quiet = 0]
<1>1. frame.text \in Texts /\ NoLine \in Int
  BY DEF Frames, NoLine
<1>2. q \in Printers
  BY <1>1 DEF Printers
<1>3. /\ SamePort(p, q) /\ q.queue = p.queue /\ q.state = p.state
      /\ q.io = p.io
  BY DEF Printers, SamePort
<1>4. Transmit(p, frame) =
        IF Writable(p) THEN [q EXCEPT !.tx = Append(@, frame)]
        ELSE IF p.port = "opening" THEN [q EXCEPT !.held = Append(@, frame)]
        ELSE Post(q, "writeErr")
  BY DEF Transmit
<1> HIDE DEF q
<1>5. CASE Writable(p)
  <2>1. Append(q.tx, frame) \in Seq(Frames)
    BY <1>2 DEF Printers
  <2>2. p.port # "closed" /\ Transmit(p, frame) = [q EXCEPT !.tx = Append(@, frame)]
    BY <1>4, <1>5 DEF Writable
  <2>3. Transmit(p, frame) \in Printers
    <3>1. Transmit(p, frame) = [q EXCEPT !.tx = Append(q.tx, frame)]
      BY <2>2
    <3> QED
      BY <1>2, <2>1, <3>1, FramesType
  <2>4. /\ SamePort(q, Transmit(p, frame)) /\ Transmit(p, frame).queue = q.queue
        /\ Transmit(p, frame).state = q.state /\ Transmit(p, frame).io = q.io
    BY <1>2, <2>2 DEF Printers, SamePort
  <2> QED
    BY <1>3, <2>2, <2>3, <2>4 DEF SamePort, Adds
<1>6. CASE ~Writable(p) /\ p.port = "opening"
  <2>1. Append(q.held, frame) \in Seq(Frames)
    BY <1>2 DEF Printers
  <2>2. Transmit(p, frame) = [q EXCEPT !.held = Append(@, frame)]
    BY <1>4, <1>6
  <2>3. Transmit(p, frame) \in Printers
    <3>1. Transmit(p, frame) = [q EXCEPT !.held = Append(q.held, frame)]
      BY <2>2
    <3> QED
      BY <1>2, <2>1, <3>1, FramesType
  <2>4. /\ SamePort(q, Transmit(p, frame)) /\ Transmit(p, frame).queue = q.queue
        /\ Transmit(p, frame).state = q.state /\ Transmit(p, frame).io = q.io
    BY <1>2, <2>2 DEF Printers, SamePort
  <2> QED
    BY <1>3, <1>6, <2>3, <2>4 DEF SamePort, Adds
<1>7. CASE ~Writable(p) /\ p.port # "opening"
  <2>1. Transmit(p, frame) = Post(q, "writeErr")
    BY <1>4, <1>7
  <2>2. /\ Post(q, "writeErr") \in Printers
        /\ SamePort(q, Post(q, "writeErr")) /\ SameQueue(q, Post(q, "writeErr"))
        /\ Post(q, "writeErr").state = q.state
        /\ Adds(q, Post(q, "writeErr"), {"writeErr"})
        /\ Ready(Post(q, "writeErr"), "writeErr")
    BY <1>2, PostLemma DEF Completions
  <2> QED
    BY <1>3, <2>1, <2>2 DEF SamePort, SameQueue, Adds
<1> QED
  BY <1>5, <1>6, <1>7

LEMMA LineNumbers ==
  /\ 0 \in 0..MaxLineNo /\ 1 \in 0..MaxLineNo
  /\ MaxLineNo \in 0..MaxLineNo
BY LimitAssumption

LEMMA CommandEffectsType ==
  ASSUME NEW mode \in Modes, NEW text
  PROVE  CommandEffects(mode, text) \in Modes
BY DEF CommandEffects, Modes

LEMMA RememberType ==
  ASSUME NEW history \in Seq(Sent), NEW entry \in Sent
  PROVE  Remember(history, entry) \in Seq(Sent)
<1>1. CASE Len(history) < HistoryLimit
  BY <1>1 DEF Remember
<1>2. CASE ~(Len(history) < HistoryLimit)
  <2>1. history # << >> /\ Tail(history) \in Seq(Sent)
    BY <1>2, LimitAssumption
  <2> QED
    BY <1>2, <2>1 DEF Remember
<1> QED
  BY <1>1, <1>2

(***************************************************************************)
(* doWrite either does nothing, because a command is in flight or none is  *)
(* queued, or writes, which fails at once on a port that is not open.      *)
(***************************************************************************)
LEMMA DoWriteLemma ==
  ASSUME NEW p \in Printers
  PROVE  /\ DoWrite(p) \in Printers
         /\ SamePort(p, DoWrite(p))
         /\ DoWrite(p).queue = p.queue
         /\ DoWrite(p).state = p.state
         /\ Adds(p, DoWrite(p), {"writeErr"})
         /\ \/ DoWrite(p) = p /\ (p.executing # NoCommand \/ p.queue = << >>)
            \/ p.port = "closed" => Ready(DoWrite(p), "writeErr")
<1>1. CASE p.executing # NoCommand \/ p.queue = << >>
  <2>1. DoWrite(p) = p
    BY <1>1 DEF DoWrite, MayWrite
  <2> QED
    BY <1>1, <2>1 DEF SamePort, Adds
<1>2. CASE ~(p.executing # NoCommand \/ p.queue = << >>) /\ NumbersUsedUp(p)
  <2> DEFINE q == [p EXCEPT !.lineNo = 0]
             frame == [n |-> NoLine, text |-> "M110"]
  <2>1. q \in Printers /\ frame \in Frames
    <3>1. q \in Printers
      BY LineNumbers DEF Printers
    <3>2. frame \in Frames
      BY DEF Frames, NoLine, Texts, OwnTexts
    <3> QED
      BY <3>1, <3>2
  <2>2. SamePort(p, q) /\ q.queue = p.queue /\ q.state = p.state /\ q.io = p.io
    BY DEF Printers, SamePort
  <2>3. DoWrite(p) = Transmit(q, frame)
    BY <1>2 DEF DoWrite, MayWrite
  <2> HIDE DEF q, frame
  <2>4. /\ Transmit(q, frame) \in Printers
        /\ SamePort(q, Transmit(q, frame))
        /\ Transmit(q, frame).queue = q.queue
        /\ Transmit(q, frame).state = q.state
        /\ Adds(q, Transmit(q, frame), {"writeErr"})
        /\ q.port = "closed" => Ready(Transmit(q, frame), "writeErr")
    BY <2>1, TransmitLemma
  <2> QED
    BY <2>2, <2>3, <2>4 DEF SamePort, Adds
<1>3. CASE ~(p.executing # NoCommand \/ p.queue = << >>) /\ ~(NumbersUsedUp(p))
  <2> DEFINE text == Head(p.queue).text
             numbered == UsesLineNumber(text)
             mode == CommandEffects(p.mode, text)
             lineNo == IF numbered THEN p.lineNo + 1 ELSE p.lineNo
             history == IF numbered
                          THEN Remember(p.history, [line |-> p.lineNo, text |-> text])
                          ELSE p.history
             q == [p EXCEPT !.mode = mode, !.lineNo = lineNo,
                            !.history = history]
             frame == [n |-> IF numbered THEN p.lineNo ELSE NoLine,
                       text |-> text]
  <2>1. /\ p.queue \in Seq(Commands) /\ p.queue # << >>
        /\ p.lineNo \in 0..MaxLineNo /\ ~(p.lineNo >= MaxLineNo)
        /\ p.history \in Seq(Sent) /\ p.mode \in Modes
    BY <1>3 DEF Printers, NumbersUsedUp
  <2>2. Head(p.queue) \in Commands
    BY <2>1
  <2>3. text \in Texts
    BY <2>2 DEF Commands
  <2>4. DoWrite(p) = Transmit(q, frame)
    BY <1>3 DEF DoWrite, MayWrite
  <2> HIDE DEF text, numbered
  <2>5. frame \in Frames /\ lineNo \in 0..MaxLineNo
    BY <2>1, <2>3, LimitAssumption DEF Frames, NoLine
  <2>6. history \in Seq(Sent) /\ mode \in Modes
    <3>1. [line |-> p.lineNo, text |-> text] \in Sent
      BY <2>1, <2>3, LimitAssumption DEF Sent
    <3> QED
      BY <2>1, <3>1, RememberType, CommandEffectsType
  <2> HIDE DEF frame, lineNo, history, mode
  <2>7. q \in Printers
    BY <2>5, <2>6 DEF Printers
  <2>8. SamePort(p, q) /\ q.queue = p.queue /\ q.state = p.state /\ q.io = p.io
    BY DEF Printers, SamePort
  <2> HIDE DEF q
  <2>9. /\ Transmit(q, frame) \in Printers
        /\ SamePort(q, Transmit(q, frame))
        /\ Transmit(q, frame).queue = q.queue
        /\ Transmit(q, frame).state = q.state
        /\ Adds(q, Transmit(q, frame), {"writeErr"})
        /\ q.port = "closed" => Ready(Transmit(q, frame), "writeErr")
    BY <2>5, <2>7, TransmitLemma
  <2> QED
    BY <2>4, <2>8, <2>9 DEF SamePort, Adds
<1> QED
  BY <1>1, <1>2, <1>3

LEMMA SendLemma ==
  ASSUME NEW p \in Printers, NEW cmd \in Commands
  PROVE  /\ Send(p, cmd) \in Printers
         /\ SamePort(p, Send(p, cmd))
         /\ Send(p, cmd).state = p.state
         /\ Adds(p, Send(p, cmd), {"writeErr"})
         /\ \/ p.executing # NoCommand
            \/ p.port = "closed" => Ready(Send(p, cmd), "writeErr")
<1> DEFINE q == [p EXCEPT !.queue = Append(@, cmd)]
<1>1. Append(p.queue, cmd) \in Seq(Commands) /\ Append(p.queue, cmd) # << >>
  <2>1. p.queue \in Seq(Commands)
    BY DEF Printers
  <2> QED
    BY <2>1
<1>2. q \in Printers /\ q.queue # << >> /\ q.executing = p.executing
  BY <1>1 DEF Printers
<1>3. SamePort(p, q) /\ q.state = p.state /\ q.io = p.io
  BY DEF Printers, SamePort
<1>4. Send(p, cmd) = DoWrite(q)
  BY DEF Send
<1> HIDE DEF q
<1>5. /\ DoWrite(q) \in Printers /\ SamePort(q, DoWrite(q))
      /\ DoWrite(q).state = q.state /\ Adds(q, DoWrite(q), {"writeErr"})
      /\ \/ q.executing # NoCommand \/ q.queue = << >>
         \/ q.port = "closed" => Ready(DoWrite(q), "writeErr")
  BY <1>2, DoWriteLemma
<1> QED
  BY <1>2, <1>3, <1>4, <1>5 DEF SamePort, Adds

-----------------------------------------------------------------------------
(* Connecting. *)

LEMMA ArmReconnectLemma ==
  ASSUME NEW p \in Printers, NEW what \in {"idle", "reconnect", "init"}
  PROVE  /\ ArmReconnect(p, what) \in Printers
         /\ ArmReconnect(p, what).path = p.path
         /\ ArmReconnect(p, what).port = p.port
         /\ ArmReconnect(p, what).connecting = p.connecting
         /\ ArmReconnect(p, what).timeoutTimer = p.timeoutTimer
         /\ ArmReconnect(p, what).reads = p.reads
         /\ ArmReconnect(p, what).state = p.state
         /\ SameQueue(p, ArmReconnect(p, what))
         /\ ArmReconnect(p, what).reconnectTimer = what
         /\ Adds(p, ArmReconnect(p, what), {"init"})
<1> DEFINE io == IF p.reconnectTimer = "init"
                   THEN Append(p.io, Handler("init")) ELSE p.io
           q == ArmReconnect(p, what)
<1>1. p.io \in Seq(Handlers)
  BY DEF Printers
<1>2. /\ io \in Seq(Handlers)
      /\ Waiting(p.io) \subseteq Waiting(io)
      /\ Waiting(io) \subseteq Waiting(p.io) \cup {"init"}
  BY <1>1, HandlerType, WaitingAppend DEF Completions
<1>3. q = [p EXCEPT !.reconnectTimer = what, !.io = io]
  BY DEF ArmReconnect, CancelReconnect, Printers
<1> HIDE DEF io, q
<1>4. q \in Printers
  BY <1>2, <1>3 DEF Printers
<1>5. q.io = io
  BY <1>3 DEF Printers
<1>6. /\ q.path = p.path /\ q.port = p.port /\ q.connecting = p.connecting
      /\ q.timeoutTimer = p.timeoutTimer /\ q.reads = p.reads
      /\ q.state = p.state /\ q.reconnectTimer = what /\ SameQueue(p, q)
  BY <1>3 DEF Printers, SameQueue
<1> QED
  BY <1>2, <1>4, <1>5, <1>6 DEF Adds, q

(* reset() leaves everything closed, idle and empty. *)
LEMMA ClosedType ==
  ASSUME NEW p \in Printers, NEW io \in Seq(Handlers),
         NEW lines \in Seq(Lines), NEW held \in Seq(Frames)
  PROVE  /\ [p EXCEPT !.port = "closed", !.joined = FALSE, !.reads = 0,
                      !.held = held, !.wire = lines, !.connecting = FALSE,
                      !.io = io] \in Printers
         /\ [p EXCEPT !.connecting = FALSE, !.reads = 0,
                      !.held = held, !.io = io] \in Printers
         /\ [p EXCEPT !.reads = 0, !.held = held, !.io = io] \in Printers
<1>1. 0 \in Nat
  OBVIOUS
<1> QED
  BY <1>1 DEF Printers

LEMMA ResetLemma ==
  ASSUME NEW p \in Printers
  PROVE  /\ Reset(p) \in Printers
         /\ Reset(p).path = p.path /\ Reset(p).state = p.state
         /\ Reset(p).port = "closed" /\ Reset(p).connecting = FALSE
         /\ Reset(p).reads = 0
         /\ Reset(p).reconnectTimer = "idle" /\ Reset(p).timeoutTimer = "idle"
         /\ Reset(p).queue = << >> /\ Reset(p).executing = NoCommand
         /\ ~p.connecting => Adds(p, Reset(p), {"init", "send"})
<1> DEFINE io == IF p.connecting THEN Append(p.io, Handler("connectErr"))
                 ELSE p.io
           closed == [p EXCEPT !.port = "closed", !.joined = FALSE,
                               !.reads = 0, !.held = << >>,
                               !.wire = << >>, !.connecting = FALSE,
                               !.io = io]
           idle == ArmReconnect(closed, "idle")
           quiet == [idle EXCEPT !.timeoutTimer = "idle",
                                 !.executing = NoCommand]
<1>1. io \in Seq(Handlers) /\ (~p.connecting => io = p.io)
  <2>1. p.io \in Seq(Handlers)
    BY DEF Printers
  <2> QED
    BY <2>1, HandlerType, WaitingAppend DEF Completions
<1> HIDE DEF io
<1>2. closed \in Printers
  <2>1. << >> \in Seq(Lines) /\ << >> \in Seq(Frames)
    OBVIOUS
  <2> QED
    BY <1>1, <2>1, ClosedType
<1>3. /\ closed.path = p.path /\ closed.port = "closed"
      /\ closed.connecting = FALSE /\ closed.reads = 0 /\ closed.io = io
      /\ closed.state = p.state
  BY DEF Printers
<1> HIDE DEF closed
<1>4. /\ idle \in Printers
      /\ idle.path = closed.path /\ idle.port = closed.port
      /\ idle.connecting = closed.connecting /\ idle.reads = closed.reads
      /\ idle.state = closed.state /\ idle.reconnectTimer = "idle"
      /\ Adds(closed, idle, {"init"})
  BY <1>2, ArmReconnectLemma
<1>5. idle = CancelReconnect(closed)
  BY <1>2 DEF ArmReconnect, CancelReconnect, Printers
<1> HIDE DEF idle
<1>6. quiet \in Printers
  BY <1>4 DEF Printers
<1>7. /\ quiet.path = idle.path /\ quiet.port = idle.port
      /\ quiet.connecting = idle.connecting /\ quiet.reads = idle.reads
      /\ quiet.state = idle.state /\ quiet.io = idle.io
      /\ quiet.reconnectTimer = idle.reconnectTimer
      /\ quiet.timeoutTimer = "idle" /\ quiet.executing = NoCommand
  BY <1>4 DEF Printers
<1>8. Reset(p) = ResetCommandQueue(quiet)
  BY <1>5 DEF Reset, quiet, closed, io
<1> HIDE DEF quiet
<1>9. /\ ResetCommandQueue(quiet) \in Printers
      /\ SamePort(quiet, ResetCommandQueue(quiet))
      /\ ResetCommandQueue(quiet).queue = << >>
      /\ ResetCommandQueue(quiet).executing = quiet.executing
      /\ ResetCommandQueue(quiet).state = quiet.state
      /\ Adds(quiet, ResetCommandQueue(quiet), {"send"})
  BY <1>6, ResetCommandQueueLemma
<1>10. ~p.connecting => Adds(p, Reset(p), {"init", "send"})
  BY <1>1, <1>3, <1>4, <1>7, <1>8, <1>9 DEF Adds
<1> QED
  BY <1>3, <1>4, <1>7, <1>8, <1>9, <1>10 DEF SamePort

LEMMA ConnectedLemma ==
  ASSUME NEW p \in Printers
  PROVE  /\ Connected(p) \in Printers
         /\ Connected(p).path = p.path /\ Connected(p).port = p.port
         /\ Connected(p).connecting = p.connecting
         /\ Connected(p).state = "Initializing"
         /\ Connected(p).reconnectTimer = "init"
         /\ Connected(p).timeoutTimer = "check"
         /\ SameQueue(p, Connected(p))
         /\ ListensOn(Connected(p))
         /\ Adds(p, Connected(p), {"send", "readOk", "readErr", "init"})
<1> DEFINE q == SetState(p, "Initializing")
           r == DoRead(q)
           s == [r EXCEPT !.quiet = 0, !.timeoutTimer = "check"]
<1>1. /\ q \in Printers /\ SamePort(p, q) /\ q.state = "Initializing"
      /\ SameQueue(p, q) /\ Adds(p, q, {"send"})
  BY SetStateLemma DEF States
<1> HIDE DEF q
<1>2. /\ r \in Printers /\ r.path = q.path /\ r.port = q.port
      /\ r.connecting = q.connecting /\ SameQueue(q, r)
      /\ r.state = q.state /\ Adds(q, r, {"readOk", "readErr"})
      /\ ListensOn(r)
  BY <1>1, DoReadLemma
<1> HIDE DEF r
<1>3. s \in Printers
  BY <1>2 DEF Printers
<1>4. /\ s.path = r.path /\ s.port = r.port /\ s.connecting = r.connecting
      /\ SameQueue(r, s) /\ s.state = r.state /\ s.io = r.io
      /\ s.reads = r.reads /\ s.timeoutTimer = "check"
  BY <1>2 DEF Printers, SameQueue
<1>5. Connected(p) = ArmReconnect(s, "init")
  BY <1>2 DEF Connected, SetupTimeoutCheck, s, r, q, Printers
<1> HIDE DEF s
<1>6. /\ Connected(p) \in Printers
      /\ Connected(p).path = s.path /\ Connected(p).port = s.port
      /\ Connected(p).connecting = s.connecting
      /\ Connected(p).timeoutTimer = s.timeoutTimer
      /\ Connected(p).reads = s.reads /\ Connected(p).state = s.state
      /\ SameQueue(s, Connected(p))
      /\ Connected(p).reconnectTimer = "init"
      /\ Adds(s, Connected(p), {"init"})
  BY <1>3, <1>5, ArmReconnectLemma
<1>7. ListensOn(Connected(p))
  BY <1>2, <1>4, <1>6 DEF ListensOn, Ready, Adds
<1> QED
  BY <1>1, <1>2, <1>4, <1>6, <1>7 DEF SamePort, SameQueue, Adds

(***************************************************************************)
(* The inductive invariant of a printer on a serial device: nothing of a   *)
(* TCP connection, and the five properties of the connection with the      *)
(* handlers of kinds X counted as if they were still ready.                *)
(***************************************************************************)
Serial(p) ==
  /\ p.path = "serial" /\ ~p.connecting
  /\ p.port # "opening" /\ p.timeoutTimer # "connect"
  /\ Waiting(p.io) \cap {"connectOk", "connectErr", "connTimeout"} = {}

Attended(p, X) ==
  /\ Serial(p)
  /\ p.port \in {"open", "dead"} =>
       \/ p.reads > 0
       \/ (Waiting(p.io) \cup X) \cap {"readOk", "readErr"} # {}
  /\ p.port \in {"open", "dead"} =>
       p.timeoutTimer = "check" \/ "check" \in Waiting(p.io) \cup X
  /\ p.state # "Stopped" /\ p.port \notin {"open", "dead"} =>
       \/ p.reconnectTimer = "reconnect"
       \/ (Waiting(p.io) \cup X) \cap {"reconnect", "readErr", "writeErr"} # {}
  /\ p.state = "Stopped" => p.port = "closed"
  /\ p.port = "closed" /\ Pending(p) => "writeErr" \in Waiting(p.io) \cup X

(***************************************************************************)
(* What holds over any link: a stopped printer has no port.                *)
(***************************************************************************)
Freed(p) == p.state = "Stopped" => p.port = "closed"

LEMMA FreedSame ==
  ASSUME NEW p, NEW q, Freed(p), q.port = p.port,
         q.state # "Stopped" \/ q.state = p.state
  PROVE  Freed(q)
BY DEF Freed

LEMMA SetupReconnectLemma ==
  ASSUME NEW p \in Printers
  PROVE  /\ SetupReconnect(p) \in Printers
         /\ Attended(p, {"reconnect"}) => Attended(SetupReconnect(p), {})
         /\ Freed(p) => Freed(SetupReconnect(p))
<1> DEFINE q == SetupReconnect(p)
<1>1. q = ArmReconnect(p, "reconnect")
  BY DEF SetupReconnect
<1> HIDE DEF q
<1>2. /\ q \in Printers
      /\ q.path = p.path /\ q.port = p.port /\ q.connecting = p.connecting
      /\ q.timeoutTimer = p.timeoutTimer /\ q.reads = p.reads
      /\ q.state = p.state /\ SameQueue(p, q)
      /\ q.reconnectTimer = "reconnect" /\ Adds(p, q, {"init"})
  BY <1>1, ArmReconnectLemma
<1>3. Attended(p, {"reconnect"}) => Attended(q, {})
  BY <1>2 DEF Attended, Serial, SameQueue, Adds, Pending
<1>4. Freed(p) => Freed(q)
  BY <1>2, FreedSame DEF Adds
<1> QED
  BY <1>2, <1>3, <1>4 DEF q

LEMMA OpenSerialLemma ==
  ASSUME NEW p \in Printers
  PROVE  /\ OpenSerial(p) \in Printers
         /\ p.state # "Stopped" /\ Attended(p, {"reconnect"}) =>
              Attended(OpenSerial(p), {})
         /\ p.state # "Stopped" /\ Freed(p) => Freed(OpenSerial(p))
<1>1. CASE p.port # "closed" \/ p.device = "absent"
  <2>1. OpenSerial(p) = SetupReconnect(p)
    BY <1>1 DEF OpenSerial
  <2>2. Attended(p, {"reconnect"}) => Attended(SetupReconnect(p), {})
    BY SetupReconnectLemma
  <2> QED
    BY <2>1, <2>2, SetupReconnectLemma
<1>2. CASE p.port = "closed" /\ p.device = "refusing"
  <2> DEFINE q == [p EXCEPT !.port = "stuck"]
  <2>1. q \in Printers
    BY DEF Printers
  <2>2. /\ q.path = p.path /\ q.port = "stuck" /\ q.connecting = p.connecting
        /\ q.timeoutTimer = p.timeoutTimer /\ q.reads = p.reads
        /\ q.reconnectTimer = p.reconnectTimer
        /\ q.io = p.io /\ q.state = p.state /\ SameQueue(p, q)
    BY DEF Printers, SameQueue
  <2>3. OpenSerial(p) = SetupReconnect(q)
    BY <1>2 DEF OpenSerial
  <2> HIDE DEF q
  <2>4. p.state # "Stopped" /\ Attended(p, {"reconnect"}) =>
          Attended(q, {"reconnect"})
    BY <1>2, <2>2 DEF Attended, Serial, SameQueue
  <2>5. Attended(q, {"reconnect"}) => Attended(SetupReconnect(q), {})
    BY <2>1, SetupReconnectLemma
  <2>6. p.state # "Stopped" => Freed(q)
    BY <2>2 DEF Freed
  <2> QED
    BY <2>1, <2>3, <2>4, <2>5, <2>6, SetupReconnectLemma
<1>3. CASE p.port = "closed" /\ p.device \notin {"absent", "refusing"}
  <2> DEFINE q == [p EXCEPT !.port = "open"]
  <2>1. q \in Printers
    BY DEF Printers
  <2>2. /\ q.path = p.path /\ q.port = "open" /\ q.connecting = p.connecting
        /\ q.io = p.io /\ q.state = p.state /\ SameQueue(p, q)
    BY DEF Printers, SameQueue
  <2>3. OpenSerial(p) = Connected(q)
    BY <1>3 DEF OpenSerial
  <2> HIDE DEF q
  <2>4. /\ Connected(q) \in Printers
        /\ Connected(q).path = q.path /\ Connected(q).port = q.port
        /\ Connected(q).connecting = q.connecting
        /\ Connected(q).state = "Initializing"
        /\ Connected(q).timeoutTimer = "check"
        /\ ListensOn(Connected(q))
        /\ Adds(q, Connected(q), {"send", "readOk", "readErr", "init"})
    BY <2>1, ConnectedLemma
  <2>5. Freed(Connected(q))
    BY <2>2, <2>4 DEF Freed
  <2> QED
    BY <2>2, <2>3, <2>4, <2>5 DEF Attended, Serial, Adds, ListensOn, Ready
<1> QED
  BY <1>1, <1>2, <1>3

LEMMA HandlersRepeated ==
  ASSUME NEW n \in Nat, NEW h \in Completions
  PROVE  [i \in 1..n |-> Handler(h)] \in Seq(Handlers)
BY HandlerType

LEMMA FailWaitingLemma ==
  ASSUME NEW p \in Printers
  PROVE  /\ FailWaiting(p) \in Printers
         /\ FailWaiting(p).port = p.port /\ FailWaiting(p).state = p.state
         /\ Waiting(p.io) \subseteq Waiting(FailWaiting(p).io)
<1> DEFINE writes == [i \in DOMAIN p.held |-> Handler("writeErr")]
           fails == [i \in 1..p.reads |-> Handler("readErr")]
           io == p.io \o writes \o fails
<1>1. writes \in Seq(Handlers) /\ fails \in Seq(Handlers)
  <2>1. /\ DOMAIN p.held = 1..Len(p.held) /\ Len(p.held) \in Nat
        /\ p.reads \in Nat
    BY DEF Printers
  <2> QED
    BY <2>1, HandlersRepeated DEF Completions
<1>2. FailWaiting(p) = [p EXCEPT !.reads = 0, !.held = << >>, !.io = io]
  BY DEF FailWaiting
<1> HIDE DEF writes, fails
<1>3. p.io \in Seq(Handlers)
  BY DEF Printers
<1>4. io \in Seq(Handlers) /\ Waiting(p.io) \subseteq Waiting(io)
  <2>1. /\ p.io \o writes \in Seq(Handlers)
        /\ Waiting(p.io \o writes) = Waiting(p.io) \cup Waiting(writes)
    BY <1>1, <1>3, WaitingConcat
  <2>2. /\ io \in Seq(Handlers)
        /\ Waiting(io) = Waiting(p.io \o writes) \cup Waiting(fails)
    BY <1>1, <2>1, WaitingConcat
  <2> QED
    BY <2>1, <2>2
<1> HIDE DEF io
<1>5. FailWaiting(p) \in Printers
  <2>1. << >> \in Seq(Frames) /\ << >> \in Seq(Lines)
    OBVIOUS
  <2>2. [p EXCEPT !.reads = 0, !.held = << >>, !.io = io] \in Printers
    BY <1>4, <2>1, ClosedType
  <2> QED
    BY <1>2, <2>2
<1> QED
  BY <1>2, <1>4, <1>5 DEF Printers

LEMMA OpenSocketLemma ==
  ASSUME NEW p \in Printers
  PROVE  /\ OpenSocket(p) \in Printers
         /\ p.state # "Stopped" => Freed(OpenSocket(p))
<1> DEFINE q == [p EXCEPT !.timeoutTimer = "idle"]
           j == [q EXCEPT !.joined = TRUE]
           f == [Post(q, "connectErr") EXCEPT !.port = "closed"]
           o == [p EXCEPT !.port = "opening", !.connecting = TRUE,
                          !.timeoutTimer = "connect"]
<1>1. /\ q \in Printers /\ q.state = p.state
      /\ j \in Printers /\ j.state = p.state
      /\ o \in Printers /\ o.state = p.state
  BY DEF Printers
<1> HIDE DEF q, j, o
<1>2. /\ Post(q, "connectErr") \in Printers
      /\ Post(q, "connectErr").state = p.state
      /\ Post(j, "connectOk") \in Printers
      /\ Post(j, "connectOk").state = p.state
  BY <1>1, PostLemma DEF Completions
<1>3. f \in Printers /\ f.state = p.state
  BY <1>2 DEF Printers
<1> HIDE DEF f
<1>4. FailWaiting(f) \in Printers /\ FailWaiting(f).state = p.state
  BY <1>3, FailWaitingLemma
<1>5. OpenSocket(p) \in {o, Post(j, "connectOk"), FailWaiting(f),
                         Post(q, "connectErr")}
  BY DEF OpenSocket, q, j, f, o
<1> QED
  BY <1>1, <1>2, <1>4, <1>5 DEF Freed

LEMMA DoConnectLemma ==
  ASSUME NEW p \in Printers
  PROVE  /\ DoConnect(p) \in Printers
         /\ Attended(p, {"reconnect"}) => Attended(DoConnect(p), {})
         /\ Freed(p) => Freed(DoConnect(p))
<1>1. CASE p.state = "Stopped"
  BY <1>1 DEF DoConnect, Attended
<1>2. CASE p.state # "Stopped" /\ p.path = "serial"
  BY <1>2, OpenSerialLemma DEF DoConnect
<1>3. CASE p.state # "Stopped" /\ p.path # "serial"
  BY <1>3, OpenSocketLemma DEF DoConnect, Attended, Serial
<1> QED
  BY <1>1, <1>2, <1>3

LEMMA ConnectDoneLemma ==
  ASSUME NEW p \in Printers, NEW ok \in BOOLEAN
  PROVE  /\ ConnectDone(p, ok) \in Printers
         /\ Freed(p) => Freed(ConnectDone(p, ok))
<1> DEFINE q == [p EXCEPT !.timeoutTimer = "idle"]
<1>1. /\ q \in Printers /\ SameQueue(p, q) /\ q.port = p.port
      /\ q.state = p.state /\ q.io = p.io
  BY DEF Printers, SameQueue
<1>2. ConnectDone(p, ok) = IF ok THEN Connected(q) ELSE SetupReconnect(q)
  BY DEF ConnectDone
<1> HIDE DEF q
<1>3. Freed(p) => Freed(q)
  BY <1>1, FreedSame
<1>4. Freed(q) => Freed(Connected(q))
  BY <1>1, ConnectedLemma, FreedSame DEF Adds
<1> QED
  BY <1>1, <1>2, <1>3, <1>4, ConnectedLemma, SetupReconnectLemma

LEMMA ConnectTimeoutLemma ==
  ASSUME NEW p \in Printers
  PROVE  /\ ConnectTimeout(p) \in Printers
         /\ Freed(p) => Freed(ConnectTimeout(p))
<1> DEFINE io == IF p.connecting THEN Append(p.io, Handler("connectErr"))
                 ELSE p.io
           q == IF p.path = "tcp"
                  THEN [p EXCEPT !.connecting = FALSE, !.reads = 0,
                                 !.held = << >>, !.io = io]
                  ELSE p
           r == [p EXCEPT !.connecting = FALSE, !.reads = 0,
                          !.held = << >>, !.io = io]
<1>1. io \in Seq(Handlers)
  <2>1. p.io \in Seq(Handlers)
    BY DEF Printers
  <2> QED
    BY <2>1, HandlerType, WaitingAppend DEF Completions
<1> HIDE DEF io
<1>2. r \in Printers
  <2>1. << >> \in Seq(Frames) /\ << >> \in Seq(Lines)
    OBVIOUS
  <2> QED
    BY <1>1, <2>1, ClosedType
<1>3. r.port = p.port /\ r.state = p.state
  BY DEF Printers
<1> HIDE DEF r
<1>4. q \in Printers /\ (Freed(p) => Freed(q))
  BY <1>2, <1>3, FreedSame DEF r
<1>5. ConnectTimeout(p) = SetupReconnect(q)
  BY DEF ConnectTimeout, q, io
<1> HIDE DEF q
<1> QED
  BY <1>4, <1>5, SetupReconnectLemma

LEMMA LoseConnectionLemma ==
  ASSUME NEW p \in Printers
  PROVE  /\ LoseConnection(p) \in Printers
         /\ Serial(p) => Attended(LoseConnection(p), {})
         /\ Freed(LoseConnection(p))
<1> DEFINE q == SetState(p, "Disconnected")
           r == Reset(q)
<1>1. /\ q \in Printers /\ SamePort(p, q) /\ Adds(p, q, {"send"})
      /\ q.state = "Disconnected"
  BY SetStateLemma DEF States
<1> HIDE DEF q
<1>2. /\ r \in Printers /\ r.path = q.path /\ r.state = q.state
      /\ r.port = "closed" /\ r.connecting = FALSE /\ r.timeoutTimer = "idle"
      /\ r.queue = << >> /\ r.executing = NoCommand
      /\ ~q.connecting => Adds(q, r, {"init", "send"})
  BY <1>1, ResetLemma
<1>3. LoseConnection(p) = DoConnect(r)
  BY DEF LoseConnection, r, q
<1> HIDE DEF r
<1>4. Serial(p) => Attended(r, {"reconnect"})
  BY <1>1, <1>2 DEF Serial, Attended, SamePort, Adds, Pending
<1>5. Freed(r)
  BY <1>1, <1>2 DEF Freed
<1> QED
  BY <1>2, <1>3, <1>4, <1>5, DoConnectLemma

LEMMA TimeoutCheckLemma ==
  ASSUME NEW p \in Printers
  PROVE  /\ TimeoutCheck(p) \in Printers
         /\ Attended(p, {"check"}) => Attended(TimeoutCheck(p), {})
         /\ Freed(p) => Freed(TimeoutCheck(p))
<1>1. CASE p.queue # << >> /\ p.quiet >= QuietLimit
  <2>1. TimeoutCheck(p) = LoseConnection(p)
    BY <1>1 DEF TimeoutCheck
  <2> QED
    BY <2>1, LoseConnectionLemma DEF Attended
<1>2. CASE ~(p.queue # << >> /\ p.quiet >= QuietLimit)
  <2> DEFINE q == [p EXCEPT !.timeoutTimer = "check"]
  <2>1. TimeoutCheck(p) = q
    BY <1>2 DEF TimeoutCheck, SetupTimeoutCheck
  <2>2. q \in Printers
    BY DEF Printers
  <2>3. /\ q.path = p.path /\ q.port = p.port /\ q.connecting = p.connecting
        /\ q.timeoutTimer = "check" /\ q.reads = p.reads
        /\ q.reconnectTimer = p.reconnectTimer
        /\ q.io = p.io /\ q.state = p.state /\ SameQueue(p, q)
    BY DEF Printers, SameQueue
  <2> HIDE DEF q
  <2>4. Attended(p, {"check"}) => Attended(q, {})
    BY <2>3 DEF Attended, Serial, SameQueue, Pending
  <2>5. Freed(p) => Freed(q)
    BY <2>3, FreedSame
  <2> QED
    BY <2>1, <2>2, <2>4, <2>5
<1> QED
  BY <1>1, <1>2

-----------------------------------------------------------------------------
(***************************************************************************)
(* A method that leaves the port and the state alone, whose commands are   *)
(* doomed on a closed port, keeps the connection attended.                 *)
(***************************************************************************)
Heeds(p, q) ==
  p.port = "closed" /\ Pending(q) =>
    Pending(p) \/ "writeErr" \in Waiting(q.io)

LEMMA AttendedFrame ==
  ASSUME NEW p, NEW q, NEW X, NEW K,
         K \cap {"connectOk", "connectErr", "connTimeout"} = {},
         SamePort(p, q), Adds(p, q, K), q.state = p.state, Heeds(p, q),
         Attended(p, X)
  PROVE  Attended(q, X)
BY DEF SamePort, Adds, Heeds, Attended, Serial

LEMMA FreedFrame ==
  ASSUME NEW p, NEW q, SamePort(p, q),
         q.state # "Stopped" \/ q.state = p.state, Freed(p)
  PROVE  Freed(q)
BY DEF SamePort, Freed

LEMMA GetTemperatureLemma ==
  ASSUME NEW p \in Printers
  PROVE  /\ GetTemperature(p) \in Printers
         /\ SamePort(p, GetTemperature(p)) /\ SameQueue(p, GetTemperature(p))
         /\ GetTemperature(p).state = p.state
         /\ Adds(p, GetTemperature(p), {"send"})
<1>1. "M105" \in Texts /\ "temp" \in Callbacks
  BY DEF Texts, OwnTexts, Callbacks
<1>2. CASE p.state = "Connected"
  <2>1. GetTemperature(p) = SendCommand(p, "M105", "temp")
    BY <1>2 DEF GetTemperature
  <2> QED
    BY <1>1, <2>1, SendCommandLemma
<1>3. CASE p.state # "Connected"
  <2>1. GetTemperature(p) = p
    BY <1>3 DEF GetTemperature
  <2> QED
    BY <2>1 DEF SamePort, SameQueue, Adds
<1> QED
  BY <1>2, <1>3

LEMMA ShowStartupMessageLemma ==
  ASSUME NEW p \in Printers
  PROVE  /\ ShowStartupMessage(p) \in Printers
         /\ SamePort(p, ShowStartupMessage(p))
         /\ SameQueue(p, ShowStartupMessage(p))
         /\ ShowStartupMessage(p).state = p.state
         /\ Adds(p, ShowStartupMessage(p), {"send"})
<1>1. "M117" \in Texts /\ "none" \in Callbacks
  BY DEF Texts, OwnTexts, Callbacks
<1> QED
  BY <1>1, SendCommandLemma DEF ShowStartupMessage

LEMMA InitializeLemma ==
  ASSUME NEW p \in Printers
  PROVE  /\ Initialize(p) \in Printers
         /\ Attended(p, {"init"}) => Attended(Initialize(p), {})
         /\ Freed(p) => Freed(Initialize(p))
<1> DEFINE q == SendCommand(p, "M110", "none")
           r == [q EXCEPT !.lineNo = 1]
           s == SendCommand(r, "M115", "info")
<1>1. /\ "M110" \in Texts /\ "M115" \in Texts
      /\ "none" \in Callbacks /\ "info" \in Callbacks
  BY DEF Texts, OwnTexts, Callbacks
<1>2. /\ q \in Printers /\ SamePort(p, q) /\ SameQueue(p, q)
      /\ q.state = p.state /\ Adds(p, q, {"send"})
  BY <1>1, SendCommandLemma
<1> HIDE DEF q
<1>3. r \in Printers
  BY <1>2, LineNumbers DEF Printers
<1>4. /\ SamePort(q, r) /\ SameQueue(q, r) /\ r.state = q.state
      /\ r.io = q.io
  BY <1>2 DEF Printers, SamePort, SameQueue
<1> HIDE DEF r
<1>5. /\ s \in Printers /\ SamePort(r, s) /\ SameQueue(r, s)
      /\ s.state = r.state /\ Adds(r, s, {"send"})
  BY <1>1, <1>3, SendCommandLemma
<1>6. Initialize(p) = DoWrite(s)
  BY DEF Initialize, s, r, q
<1> HIDE DEF s
<1>7. /\ DoWrite(s) \in Printers /\ SamePort(s, DoWrite(s))
      /\ DoWrite(s).state = s.state /\ Adds(s, DoWrite(s), {"writeErr"})
      /\ \/ DoWrite(s) = s
         \/ s.port = "closed" => Ready(DoWrite(s), "writeErr")
  BY <1>5, DoWriteLemma
<1>8. /\ SamePort(p, Initialize(p)) /\ Initialize(p).state = p.state
      /\ Adds(p, Initialize(p), {"send", "writeErr"})
  BY <1>2, <1>4, <1>5, <1>6, <1>7 DEF SamePort, Adds
<1>9. Heeds(p, Initialize(p))
  BY <1>2, <1>4, <1>5, <1>6, <1>7
     DEF Heeds, SamePort, SameQueue, Pending, Ready
<1>10. Attended(p, {"init"}) => Attended(p, {})
  BY DEF Attended
<1> QED
  BY <1>6, <1>7, <1>8, <1>9, <1>10, AttendedFrame, FreedFrame

-----------------------------------------------------------------------------
(* What the printer says. *)

LEMMA QueueType ==
  ASSUME NEW p \in Printers, NEW queue \in Seq(Commands)
  PROVE  [p EXCEPT !.queue = queue] \in Printers
BY DEF Printers

LEMMA AnswerLemma ==
  ASSUME NEW p \in Printers
  PROVE  /\ Answer(p) \in Printers
         /\ SamePort(p, Answer(p))
         /\ Answer(p).executing = p.executing
         /\ Answer(p).state \in {p.state, "Connected"}
         /\ Adds(p, Answer(p), {"send"})
<1> DEFINE cb == Head(p.queue).cb
           info == GetTemperature(ShowStartupMessage(SetState(p, "Connected")))
           called ==
             CASE cb = "info" -> info
               [] cb = "temp" -> [p EXCEPT !.tempTimer = TRUE]
               [] cb = "client" -> [p EXCEPT !.replies = @ + 1]
               [] cb = "job" -> LinesProcessed(p, 1)
               [] cb = "stale" -> [p EXCEPT !.halted = TRUE]
               [] OTHER -> p
           Called(q) == /\ q \in Printers /\ SamePort(p, q)
                        /\ q.executing = p.executing
                        /\ q.state \in {p.state, "Connected"}
                        /\ Adds(p, q, {"send"}) /\ q.queue = p.queue
<1>1. CASE p.queue = << >>
  <2>1. Answer(p) = p
    BY <1>1 DEF Answer
  <2> QED
    BY <2>1 DEF SamePort, Adds
<1>2. CASE p.queue # << >>
  <2>1. Answer(p) = [called EXCEPT !.queue = Tail(@)]
    BY <1>2 DEF Answer
  <2>2. Called(info)
    <3> DEFINE q == SetState(p, "Connected")
               r == ShowStartupMessage(q)
    <3>1. /\ q \in Printers /\ SamePort(p, q) /\ SameQueue(p, q)
          /\ q.state = "Connected" /\ Adds(p, q, {"send"})
      BY SetStateLemma DEF States
    <3> HIDE DEF q
    <3>2. /\ r \in Printers /\ SamePort(q, r) /\ SameQueue(q, r)
          /\ r.state = q.state /\ Adds(q, r, {"send"})
      BY <3>1, ShowStartupMessageLemma
    <3>3. info = GetTemperature(r)
      BY DEF q
    <3> HIDE DEF r
    <3>4. /\ info \in Printers /\ SamePort(r, info) /\ SameQueue(r, info)
          /\ info.state = r.state /\ Adds(r, info, {"send"})
      BY <3>2, <3>3, GetTemperatureLemma
    <3> HIDE DEF info
    <3> QED
      BY <3>1, <3>2, <3>4 DEF SamePort, SameQueue, Adds
  <2>3. Called([p EXCEPT !.tempTimer = TRUE]) /\ Called([p EXCEPT !.halted = TRUE])
    BY DEF Printers, SamePort, Adds
  <2>4. Called(LinesProcessed(p, 1))
    BY LinesProcessedLemma DEF SameQueue
  <2>5. Called(p)
    BY DEF SamePort, Adds
  <2>6. Called([p EXCEPT !.replies = @ + 1])
    <3>1. p.replies + 1 \in Nat
      BY DEF Printers
    <3> QED
      BY <3>1 DEF Printers, SamePort, Adds
  <2> HIDE DEF Called, info, cb
  <2>7. Called(called)
    BY <2>2, <2>3, <2>4, <2>5, <2>6
  <2> HIDE DEF called
  <2> USE DEF Called
  <2>8. called.queue \in Seq(Commands) /\ called.queue # << >>
    BY <1>2, <2>7 DEF Printers
  <2>9. Tail(called.queue) \in Seq(Commands)
    BY <2>8
  <2>10. Answer(p) \in Printers
    BY <2>1, <2>7, <2>9, QueueType
  <2>11. /\ SamePort(called, Answer(p))
         /\ Answer(p).executing = called.executing
         /\ Answer(p).state = called.state /\ Answer(p).io = called.io
    BY <2>1, <2>7 DEF Printers, SamePort
  <2> QED
    BY <2>7, <2>10, <2>11 DEF SamePort, Adds
<1> QED
  BY <1>1, <1>2

LEMMA SequencesOfLength ==
  ASSUME NEW S, NEW n \in Nat, NEW f \in [1..n -> S]
  PROVE  f \in Seq(S)
BY SeqDef

(* A non-empty set of positions has a first one. *)
LEMMA FirstOf ==
  ASSUME NEW T \in SUBSET Nat, T # {}
  PROVE  \E i \in T : \A j \in T : i <= j
<1> DEFINE R == {ss \in Nat \X Nat : ss[1] < ss[2]}
<1>1. IsWellFoundedOn(R, Nat)
  BY NatLessThanWellFounded DEF OpToRel
<1>2. PICK x \in T : \A y \in T : ~(<< y, x >> \in R)
  <2> HIDE DEF R
  <2> QED
    BY <1>1, WFMin
<1>3. ASSUME NEW y \in T
      PROVE  x <= y
  <2>1. x \in Nat /\ y \in Nat /\ << y, x >> \in Nat \X Nat
    OBVIOUS
  <2>2. ~(y < x)
    BY <1>2, <2>1
  <2> QED
    BY <2>1, <2>2
<1> QED
  BY <1>3

(* The lines that go in front of the queue, and their place. *)
LEMMA ResendLinesType ==
  ASSUME NEW p \in Printers, NEW line \in Int
  PROVE  LET at == {i \in DOMAIN p.history : p.history[i].line = line}
             start == CHOOSE i \in at : \A j \in at : i <= j
         IN  at # {} =>
               /\ start \in at /\ start \in 1..Len(p.history)
               /\ \A j \in at : start <= j
               /\ line \in 0..MaxLineNo
               /\ ResendLines(p.history, start) \in Seq(Commands)
<1> DEFINE at == {i \in DOMAIN p.history : p.history[i].line = line}
           start == CHOOSE i \in at : \A j \in at : i <= j
           again == ResendLines(p.history, start)
<1>1. /\ p.history \in Seq(Sent) /\ p.queue \in Seq(Commands)
      /\ at \subseteq 1..Len(p.history) /\ Len(p.history) \in Nat
  BY DEF Printers
<1>2. ASSUME at # {}
      PROVE  /\ start \in at /\ start \in 1..Len(p.history)
             /\ \A j \in at : start <= j
             /\ line \in 0..MaxLineNo /\ again \in Seq(Commands)
  <2>1. PICK i \in at : \A j \in at : i <= j
    <3>1. at \subseteq Nat /\ at # {}
      BY <1>1, <1>2
    <3> HIDE DEF at
    <3> QED
      BY <3>1, FirstOf
  <2>2. start \in at /\ \A j \in at : start <= j
    BY <2>1
  <2>3. p.history[i] \in Sent /\ p.history[i].line = line
    BY <1>1, <2>1
  <2>4. line \in 0..MaxLineNo
    BY <2>3, LimitAssumption DEF Sent
  <2> HIDE DEF at, start
  <2>5. start \in Nat /\ 1 <= start /\ start <= Len(p.history)
    BY <1>1, <2>2
  <2>6. ASSUME NEW j \in 1..(Len(p.history) - start)
        PROVE  [text |-> p.history[start + j - 1].text, cb |-> "none"]
                 \in Commands
    <3>1. start + j - 1 \in 1..Len(p.history)
      BY <1>1, <2>5
    <3>2. p.history[start + j - 1] \in Sent
      BY <1>1, <3>1
    <3> QED
      BY <3>2 DEF Sent, Commands, Callbacks
  <2>7. Len(p.history) - start \in Nat
    BY <1>1, <2>5
  <2>8. again \in [1..(Len(p.history) - start) -> Commands]
    BY <2>6 DEF ResendLines
  <2> HIDE DEF again
  <2>9. again \in Seq(Commands)
    BY <2>7, <2>8, SequencesOfLength
  <2> QED
    BY <1>1, <2>2, <2>4, <2>5, <2>9
<1> QED
  BY <1>2

LEMMA HandleResendLemma ==
  ASSUME NEW p \in Printers, NEW line \in Int, line # NoLine
  PROVE  /\ HandleResend(p, line) \in Printers
         /\ SamePort(p, HandleResend(p, line))
         /\ HandleResend(p, line).executing = p.executing
         /\ HandleResend(p, line).state \in {p.state, "Error"}
         /\ Adds(p, HandleResend(p, line), {"send"})
<1> DEFINE at == {i \in DOMAIN p.history : p.history[i].line = line}
           start == CHOOSE i \in at : \A j \in at : i <= j
           again == ResendLines(p.history, start)
           q == [p EXCEPT !.queue = again \o @,
                          !.history = SubSeq(@, 1, start - 1),
                          !.lineNo = line]
<1>1. CASE p.lineNo = line
  <2>1. HandleResend(p, line) = p
    BY <1>1 DEF HandleResend
  <2> QED
    BY <2>1 DEF SamePort, Adds
<1>2. CASE p.lineNo # line /\ at = {}
  <2>1. HandleResend(p, line) = RaiseError(p)
    BY <1>2 DEF HandleResend
  <2> QED
    BY <2>1, RaiseErrorLemma
<1>3. CASE p.lineNo # line /\ at # {}
  <2>1. HandleResend(p, line) = q
    BY <1>3 DEF HandleResend
  <2>2. /\ p.history \in Seq(Sent) /\ p.queue \in Seq(Commands)
        /\ at \subseteq 1..Len(p.history) /\ Len(p.history) \in Nat
    BY DEF Printers
  <2>3. /\ start \in 1..Len(p.history) /\ line \in 0..MaxLineNo
        /\ again \in Seq(Commands)
    BY <1>3, ResendLinesType
  <2> HIDE DEF at, start
  <2>4. start \in Nat /\ 1 <= start /\ start <= Len(p.history)
    BY <2>2, <2>3
  <2>6. SubSeq(p.history, 1, start - 1) \in Seq(Sent)
    BY <2>2, <2>4
  <2> HIDE DEF again
  <2>7. again \o p.queue \in Seq(Commands)
    BY <2>2, <2>3, ConcatProperties
  <2>8. q \in Printers
    BY <2>3, <2>6, <2>7 DEF Printers
  <2>9. /\ SamePort(p, q) /\ q.executing = p.executing /\ q.state = p.state
        /\ q.io = p.io
    BY DEF Printers, SamePort
  <2> HIDE DEF q
  <2> QED
    BY <2>1, <2>8, <2>9 DEF Adds
<1> QED
  BY <1>1, <1>2, <1>3

(***************************************************************************)
(* A handler that ends in doRead keeps the connection attended: it may     *)
(* have changed the state of a stopped printer, whose buffer must then be  *)
(* empty.                                                                  *)
(***************************************************************************)
LEMMA ReadAgain ==
  ASSUME NEW p \in Printers, NEW q \in Printers,
         SamePort(p, q), Adds(p, q, {"send", "writeErr"}), Heeds(p, q),
         \/ q.state = p.state
         \/ q.state # "Stopped" /\ q.rx = << >>
  PROVE  /\ DoRead(q) \in Printers
         /\ Attended(p, {"readOk"}) => Attended(DoRead(q), {})
         /\ Freed(p) => Freed(DoRead(q))
<1> DEFINE r == DoRead(q)
<1>1. /\ r \in Printers
      /\ r.path = q.path /\ r.port = q.port /\ r.connecting = q.connecting
      /\ r.reconnectTimer = q.reconnectTimer
      /\ r.timeoutTimer = q.timeoutTimer
      /\ SameQueue(q, r) /\ r.state = q.state
      /\ Adds(q, r, {"readOk", "readErr"}) /\ ListensOn(r)
      /\ q.rx = << >> /\ q.port = "closed" => Ready(r, "readErr")
  BY DoReadLemma
<1> HIDE DEF r
<1>2. ASSUME Attended(p, {"readOk"})
      PROVE  Attended(r, {})
  <2>1. Serial(r)
    BY <1>1, <1>2 DEF Attended, Serial, SamePort, Adds
  <2>2. r.port \in {"open", "dead"} =>
          r.timeoutTimer = "check" \/ "check" \in Waiting(r.io)
    BY <1>1, <1>2 DEF Attended, SamePort, Adds
  <2>3. r.state # "Stopped" /\ r.port \notin {"open", "dead"} =>
          \/ r.reconnectTimer = "reconnect"
          \/ Waiting(r.io) \cap {"reconnect", "readErr", "writeErr"} # {}
    BY <1>1, <1>2 DEF Attended, SamePort, Adds, Ready
  <2>4. r.state = "Stopped" => r.port = "closed"
    BY <1>1, <1>2 DEF Attended, SamePort
  <2>5. r.port = "closed" /\ Pending(r) => "writeErr" \in Waiting(r.io)
    BY <1>1, <1>2
       DEF Attended, SamePort, Adds, Heeds, Pending, SameQueue
  <2> QED
    BY <1>1, <2>1, <2>2, <2>3, <2>4, <2>5 DEF Attended, ListensOn, Ready
<1>3. Freed(p) => Freed(r)
  BY <1>1, FreedFrame, FreedSame DEF Adds
<1> QED
  BY <1>1, <1>2, <1>3 DEF r

(* p is the record the handler found, r the one it calls NextCommand on. *)
LEMMA NextCommandLemma ==
  ASSUME NEW p \in Printers, NEW r \in Printers,
         SamePort(p, r), Adds(p, r, {"send"}),
         \/ r.state = p.state
         \/ r.state # "Stopped" /\ r.rx = << >>
  PROVE  /\ NextCommand(r) \in Printers
         /\ Attended(p, {"readOk"}) => Attended(NextCommand(r), {})
         /\ Freed(p) => Freed(NextCommand(r))
<1> DEFINE s == [r EXCEPT !.resend = NoLine, !.executing = NoCommand]
           w == DoWrite(s)
<1>1. s \in Printers
  <2>1. NoLine \in Int
    BY DEF NoLine
  <2> QED
    BY <2>1 DEF Printers
<1>2. /\ SamePort(r, s) /\ s.state = r.state /\ s.io = r.io
      /\ s.executing = NoCommand
  BY DEF Printers, SamePort
<1> HIDE DEF s
<1>3. /\ w \in Printers /\ SamePort(s, w) /\ w.queue = s.queue
      /\ w.state = s.state /\ Adds(s, w, {"writeErr"})
      /\ \/ w = s /\ (s.executing # NoCommand \/ s.queue = << >>)
         \/ s.port = "closed" => Ready(w, "writeErr")
  BY <1>1, DoWriteLemma
<1>4. NextCommand(r) = DoRead(w)
  BY DEF NextCommand, w, s
<1> HIDE DEF w
<1>5. SamePort(p, w) /\ Adds(p, w, {"send", "writeErr"})
  BY <1>2, <1>3 DEF SamePort, Adds
<1>6. Heeds(p, w)
  BY <1>2, <1>3 DEF Heeds, SamePort, Pending, Ready
<1>7. \/ w.state = p.state
      \/ w.state # "Stopped" /\ w.rx = << >>
  BY <1>2, <1>3 DEF SamePort
<1> QED
  BY <1>3, <1>4, <1>5, <1>6, <1>7, ReadAgain

LEMMA FirstResendType ==
  ASSUME NEW lines \in Seq(Lines)
  PROVE  FirstResend(lines) \in Int
<1> DEFINE at == {i \in DOMAIN lines : lines[i].t = "resend"}
           first == CHOOSE i \in at : \A j \in at : i <= j
<1>1. CASE at = {}
  BY <1>1 DEF FirstResend, NoLine
<1>2. CASE at # {}
  <2>1. at \subseteq 1..Len(lines) /\ Len(lines) \in Nat
    OBVIOUS
  <2>2. at \in SUBSET Nat
    BY <2>1
  <2>3. first \in at
    <3> HIDE DEF at
    <3> QED
      BY <1>2, <2>2, FirstOf
  <2>4. lines[first] \in Lines
    BY <2>1, <2>3
  <2>5. FirstResend(lines) = lines[first].n
    BY <1>2 DEF FirstResend
  <2> QED
    BY <2>4, <2>5 DEF Lines
<1> QED
  BY <1>1, <1>2

LEMMA ConfirmedLemma ==
  ASSUME NEW q \in Printers
  PROVE  /\ Confirmed(q) \in Printers
         /\ Attended(q, {"readOk"}) => Attended(Confirmed(q), {})
         /\ Freed(q) => Freed(Confirmed(q))
<1> DEFINE p == [q EXCEPT !.rx = << >>]
           line == IF q.resend # NoLine THEN q.resend ELSE FirstResend(q.rx)
<1>1. p \in Printers
  <2>1. << >> \in Seq(Lines)
    OBVIOUS
  <2> QED
    BY <2>1 DEF Printers
<1>2. /\ p.path = q.path /\ p.port = q.port /\ p.connecting = q.connecting
      /\ p.reconnectTimer = q.reconnectTimer
      /\ p.timeoutTimer = q.timeoutTimer /\ p.reads = q.reads
      /\ p.rx = << >> /\ p.state = q.state /\ p.io = q.io
      /\ SameQueue(q, p)
  BY DEF Printers, SameQueue
<1>3. line \in Int
  BY FirstResendType DEF Printers
<1>4. Confirmed(q) =
        IF p.lineNo = 0 THEN NextCommand([p EXCEPT !.lineNo = 1])
        ELSE IF line # NoLine THEN NextCommand(HandleResend(p, line))
        ELSE IF p.pendingError THEN DoRead(RaiseError(p))
        ELSE NextCommand(Answer(p))
  BY DEF Confirmed
<1> HIDE DEF p, line
<1>5. /\ Attended(q, {"readOk"}) => Attended(p, {"readOk"})
      /\ Freed(q) => Freed(p)
  BY <1>2, FreedSame DEF Attended, Serial, SameQueue, Pending
<1>6. CASE p.lineNo = 0
  <2> DEFINE r == [p EXCEPT !.lineNo = 1]
  <2>1. r \in Printers
    BY <1>1, LineNumbers DEF Printers
  <2>2. SamePort(p, r) /\ Adds(p, r, {"send"}) /\ r.state = p.state
    BY <1>1 DEF Printers, SamePort, Adds
  <2>3. Confirmed(q) = NextCommand(r)
    BY <1>4, <1>6
  <2> HIDE DEF r
  <2> QED
    BY <1>1, <1>5, <2>1, <2>2, <2>3, NextCommandLemma
<1>7. CASE p.lineNo # 0 /\ line # NoLine
  <2> DEFINE r == HandleResend(p, line)
  <2>1. /\ r \in Printers /\ SamePort(p, r)
        /\ r.state \in {p.state, "Error"} /\ Adds(p, r, {"send"})
    BY <1>1, <1>3, <1>7, HandleResendLemma
  <2>2. Confirmed(q) = NextCommand(r)
    BY <1>4, <1>7
  <2> HIDE DEF r
  <2>3. r.rx = << >>
    BY <1>2, <2>1 DEF SamePort
  <2> QED
    BY <1>1, <1>5, <2>1, <2>2, <2>3, NextCommandLemma
<1>8. CASE p.lineNo # 0 /\ line = NoLine /\ p.pendingError
  <2> DEFINE r == RaiseError(p)
  <2>1. /\ r \in Printers /\ SamePort(p, r) /\ r.queue = << >>
        /\ r.executing = p.executing
        /\ r.state = "Error" /\ Adds(p, r, {"send"})
    BY <1>1, RaiseErrorLemma
  <2>2. Confirmed(q) = DoRead(r)
    BY <1>4, <1>8
  <2> HIDE DEF r
  <2>3. r.rx = << >> /\ Adds(p, r, {"send", "writeErr"}) /\ Heeds(p, r)
    BY <1>2, <2>1 DEF SamePort, Adds, Heeds, Pending
  <2> QED
    BY <1>1, <1>5, <2>1, <2>2, <2>3, ReadAgain
<1>9. CASE p.lineNo # 0 /\ line = NoLine /\ ~p.pendingError
  <2> DEFINE r == Answer(p)
  <2>1. /\ r \in Printers /\ SamePort(p, r)
        /\ r.state \in {p.state, "Connected"} /\ Adds(p, r, {"send"})
    BY <1>1, AnswerLemma
  <2>2. Confirmed(q) = NextCommand(r)
    BY <1>4, <1>9
  <2> HIDE DEF r
  <2>3. r.rx = << >>
    BY <1>2, <2>1 DEF SamePort
  <2> QED
    BY <1>1, <1>5, <2>1, <2>2, <2>3, NextCommandLemma
<1> QED
  BY <1>6, <1>7, <1>8, <1>9

LEMMA RestartedLemma ==
  ASSUME NEW q \in Printers
  PROVE  /\ Restarted(q) \in Printers
         /\ SamePort(q, Restarted(q)) /\ Restarted(q).state = q.state
         /\ Adds(q, Restarted(q), {"send", "writeErr"})
         /\ Heeds(q, Restarted(q))
<1> DEFINE p == [q EXCEPT !.resend = NoLine, !.executing = NoCommand]
           failed == IF p.state # "Error" /\ p.job.st # "None"
                       THEN JobSetError(p) ELSE p
           f == [failed EXCEPT !.lineNo = MaxLineNo]
           m == ShowStartupMessage(f)
<1>1. p \in Printers
  <2>1. NoLine \in Int
    BY DEF NoLine
  <2> QED
    BY <2>1 DEF Printers
<1>2. /\ SamePort(q, p) /\ p.state = q.state /\ p.io = q.io
      /\ p.queue = q.queue /\ p.executing = NoCommand
  BY DEF Printers, SamePort
<1>3. Restarted(q) = IF p.state \in {"Connected", "Error"} THEN DoWrite(m)
                     ELSE p
  BY DEF Restarted
<1> HIDE DEF p
<1>4. CASE p.state \notin {"Connected", "Error"}
  BY <1>1, <1>2, <1>3, <1>4 DEF Adds, Heeds, Pending
<1>5. CASE p.state \in {"Connected", "Error"}
  <2>1. /\ failed \in Printers /\ SamePort(p, failed) /\ SameQueue(p, failed)
        /\ failed.state = p.state /\ failed.io = p.io
    <3>1. [p.job EXCEPT !.st = "Error"] \in Jobs
      BY <1>1 DEF Printers, Jobs, JobStates
    <3>2. JobSetError(p) = [p EXCEPT !.job = [p.job EXCEPT !.st = "Error"]]
      BY <1>1 DEF JobSetError, Printers
    <3>3. JobSetError(p) \in Printers
      BY <1>1, <3>1, <3>2 DEF Printers
    <3>4. /\ SamePort(p, JobSetError(p)) /\ SameQueue(p, JobSetError(p))
          /\ JobSetError(p).state = p.state /\ JobSetError(p).io = p.io
      BY <1>1, <3>2 DEF Printers, SamePort, SameQueue
    <3> QED
      BY <1>1, <3>3, <3>4 DEF SamePort, SameQueue
  <2> HIDE DEF failed
  <2>2. f \in Printers
    BY <2>1, LineNumbers DEF Printers
  <2>3. /\ SamePort(failed, f) /\ SameQueue(failed, f)
        /\ f.state = failed.state /\ f.io = failed.io
    BY <2>1 DEF Printers, SamePort, SameQueue
  <2> HIDE DEF f
  <2>4. /\ m \in Printers /\ SamePort(f, m) /\ SameQueue(f, m)
        /\ m.state = f.state /\ Adds(f, m, {"send"})
    BY <2>2, ShowStartupMessageLemma
  <2> HIDE DEF m
  <2>5. /\ DoWrite(m) \in Printers /\ SamePort(m, DoWrite(m))
        /\ DoWrite(m).queue = m.queue /\ DoWrite(m).state = m.state
        /\ Adds(m, DoWrite(m), {"writeErr"})
        /\ \/ DoWrite(m) = m
           \/ m.port = "closed" => Ready(DoWrite(m), "writeErr")
    BY <2>4, DoWriteLemma
  <2>6. Restarted(q) = DoWrite(m)
    BY <1>3, <1>5
  <2>7. SamePort(q, DoWrite(m)) /\ DoWrite(m).state = q.state
    BY <1>2, <2>1, <2>3, <2>4, <2>5 DEF SamePort
  <2>8. Adds(q, DoWrite(m), {"send", "writeErr"})
    BY <1>2, <2>1, <2>3, <2>4, <2>5 DEF Adds
  <2>9. Heeds(q, DoWrite(m))
    BY <1>2, <2>1, <2>3, <2>4, <2>5
       DEF Heeds, Pending, SamePort, SameQueue, Ready
  <2> QED
    BY <2>5, <2>6, <2>7, <2>8, <2>9
<1> QED
  BY <1>4, <1>5

LEMMA ReadDoneLemma ==
  ASSUME NEW q \in Printers
  PROVE  /\ ReadDone(q) \in Printers
         /\ Attended(q, {"readOk"}) => Attended(ReadDone(q), {})
         /\ Freed(q) => Freed(ReadDone(q))
<1> DEFINE line == IF q.rx = << >> THEN [t |-> "other", n |-> NoLine]
                   ELSE Head(q.rx)
           rx == IF q.rx = << >> THEN q.rx ELSE Tail(q.rx)
           resend == IF q.resend = NoLine /\ line.t = "resend" THEN line.n
                     ELSE q.resend
           p == [q EXCEPT !.quiet = 0, !.rx = rx, !.resend = resend]
<1>1. q.rx \in Seq(Lines) /\ q.resend \in Int
  BY DEF Printers
<1>2. line \in Lines /\ rx \in Seq(Lines)
  <2>1. [t |-> "other", n |-> NoLine] \in Lines
    BY DEF Lines, NoLine
  <2>2. q.rx # << >> => Head(q.rx) \in Lines /\ Tail(q.rx) \in Seq(Lines)
    BY <1>1
  <2> QED
    BY <1>1, <2>1, <2>2
<1>3. ReadDone(q) =
        CASE line.t = "ok" -> Confirmed(p)
          [] line.t # "ok" /\ p.executing \in HeatWait -> DoRead(p)
          [] line.t = "start" /\ p.executing \notin HeatWait ->
               DoRead(Restarted(p))
          [] line.t = "error" /\ p.executing \notin HeatWait ->
               DoRead([p EXCEPT !.pendingError = TRUE])
          [] line.t \in {"resend", "other"} /\ p.executing \notin HeatWait ->
               DoRead(p)
  BY DEF ReadDone
<1> HIDE DEF line, rx
<1>4. resend \in Int
  BY <1>1, <1>2 DEF Lines
<1> HIDE DEF resend
<1>5. p \in Printers
  BY <1>2, <1>4 DEF Printers
<1>6. /\ p.path = q.path /\ p.port = q.port /\ p.connecting = q.connecting
      /\ p.reconnectTimer = q.reconnectTimer
      /\ p.timeoutTimer = q.timeoutTimer /\ p.reads = q.reads
      /\ p.state = q.state /\ p.io = q.io /\ SameQueue(q, p)
  BY DEF Printers, SameQueue
<1> HIDE DEF p
<1>7. /\ Attended(q, {"readOk"}) => Attended(p, {"readOk"})
      /\ Freed(q) => Freed(p)
  BY <1>6, FreedSame DEF Attended, Serial, SameQueue, Pending
<1> DEFINE Good(r) == /\ r \in Printers
                      /\ Attended(p, {"readOk"}) => Attended(r, {})
                      /\ Freed(p) => Freed(r)
<1>8. Good(Confirmed(p))
  BY <1>5, ConfirmedLemma
<1>9. Good(DoRead(p))
  <2>1. SamePort(p, p) /\ Adds(p, p, {"send", "writeErr"}) /\ Heeds(p, p)
    BY DEF SamePort, Adds, Heeds
  <2> QED
    BY <1>5, <2>1, ReadAgain
<1>10. Good(DoRead(Restarted(p)))
  BY <1>5, RestartedLemma, ReadAgain
<1>11. Good(DoRead([p EXCEPT !.pendingError = TRUE]))
  <2> DEFINE r == [p EXCEPT !.pendingError = TRUE]
  <2>1. r \in Printers
    BY <1>5 DEF Printers
  <2>2. /\ SamePort(p, r) /\ Adds(p, r, {"send", "writeErr"}) /\ Heeds(p, r)
        /\ r.state = p.state
    BY <1>5 DEF Printers, SamePort, Adds, Heeds, Pending
  <2> HIDE DEF r
  <2>3. Good(DoRead(r))
    BY <1>5, <2>1, <2>2, ReadAgain
  <2> QED
    BY <2>3 DEF r
<1> HIDE DEF Good
<1>12. line.t \in {"ok", "resend", "error", "start", "other"}
  BY <1>2 DEF Lines
<1>13. Good(ReadDone(q))
  BY <1>3, <1>8, <1>9, <1>10, <1>11, <1>12
<1> QED
  BY <1>7, <1>13 DEF Good

-----------------------------------------------------------------------------
(* The methods of the job, and the public methods of the printer. *)

(* What an operation on the job may do to the connection: nothing. *)
Aside(p, q) ==
  /\ q \in Printers
  /\ SamePort(p, q) /\ SameQueue(p, q) /\ q.state = p.state
  /\ Adds(p, q, {"send"})

LEMMA AsideTrans ==
  ASSUME NEW p, NEW q, NEW r, Aside(p, q), Aside(q, r)
  PROVE  Aside(p, r)
BY DEF Aside, SamePort, SameQueue, Adds

LEMMA AsideAttended ==
  ASSUME NEW p, NEW q, NEW X, Aside(p, q), Attended(p, X)
  PROVE  Attended(q, X)
<1>1. Heeds(p, q)
  BY DEF Aside, Heeds, SameQueue, Pending
<1> QED
  BY <1>1, AttendedFrame DEF Aside

LEMMA AsideFreed ==
  ASSUME NEW p, NEW q, Aside(p, q), Freed(p)
  PROVE  Freed(q)
BY FreedSame DEF Aside, SamePort, Adds

(* Assigning to the job, or halting. *)
LEMMA JobAside ==
  ASSUME NEW p \in Printers, NEW job \in Jobs, NEW halted \in BOOLEAN
  PROVE  Aside(p, [p EXCEPT !.job = job, !.halted = halted])
<1> DEFINE q == [p EXCEPT !.job = job, !.halted = halted]
<1>1. q \in Printers
  BY DEF Printers
<1>2. SamePort(p, q) /\ SameQueue(p, q) /\ q.state = p.state /\ q.io = p.io
  BY DEF Printers, SamePort, SameQueue
<1> QED
  BY <1>1, <1>2 DEF Aside, Adds

LEMMA PrintLineAside ==
  ASSUME NEW p \in Printers
  PROVE  Aside(p, PrintLine(p))
BY LinesProcessedLemma DEF PrintLine, Aside

LEMMA SendCommandsAside ==
  ASSUME NEW p \in Printers, NEW texts \in Seq(Texts)
  PROVE  Aside(p, SendCommands(p, texts))
BY SendCommandsLemma DEF Aside

LEMMA ResumeSequenceOver ==
  ASSUME NEW saved, NEW T, {"G0", "G90", "M82", "M83", "M117"} \subseteq T
  PROVE  ResumeSequence(saved) \in Seq(T)
<1>1. /\ << "G0" >> \in Seq(T) /\ << "G90" >> \in Seq(T)
      /\ << "M83" >> \in Seq(T) /\ << "M82" >> \in Seq(T)
      /\ << "M117" >> \in Seq(T) /\ << >> \in Seq(T)
  OBVIOUS
<1> DEFINE s1 == IF saved.erel THEN << "M83" >> ELSE << >>
           s2 == IF ~saved.rel THEN << "G90" >> \o s1
                 ELSE IF ~saved.erel THEN << "M82" >> ELSE << >>
<1>2. s2 \in Seq(T)
  <2>1. s1 \in Seq(T)
    BY <1>1
  <2> HIDE DEF s1
  <2>2. << "G90" >> \o s1 \in Seq(T)
    BY <1>1, <2>1, ConcatProperties
  <2> QED
    BY <1>1, <2>2
<1>3. ResumeSequence(saved) = << "G0" >> \o s2 \o << "M117" >>
  BY DEF ResumeSequence
<1> HIDE DEF s2
<1> QED
  BY <1>1, <1>2, <1>3, ConcatProperties

LEMMA ResumeSequenceType ==
  ASSUME NEW saved
  PROVE  ResumeSequence(saved) \in Seq(Texts)
BY ResumeSequenceOver DEF Texts, OwnTexts

LEMMA JobStartAside ==
  ASSUME NEW p \in Printers
  PROVE  Aside(p, JobStart(p))
<1> DEFINE running == [p.job EXCEPT !.st = "Running"]
           first == [p.job EXCEPT !.st = "Running", !.pos = 0]
<1>1. /\ p.job \in Jobs /\ p.halted \in BOOLEAN
      /\ running \in Jobs /\ first \in Jobs
  BY DEF Printers, Jobs, JobStates
<1>2. CASE p.job.st = "Paused"
  <2> DEFINE q == SendCommands(p, ResumeSequence(p.job.saved))
             r == [q EXCEPT !.job = [q.job EXCEPT !.st = "Running"]]
  <2>1. Aside(p, q)
    BY ResumeSequenceType, SendCommandsAside
  <2>2. JobStart(p) = PrintLine(r)
    BY <1>2 DEF JobStart
  <2> HIDE DEF q
  <2>3. [q.job EXCEPT !.st = "Running"] \in Jobs /\ q.halted \in BOOLEAN
        /\ q \in Printers
    BY <2>1 DEF Aside, Printers, Jobs, JobStates
  <2>4. Aside(q, r)
    <3>1. r = [q EXCEPT !.job = [q.job EXCEPT !.st = "Running"],
                        !.halted = q.halted]
      BY <2>3 DEF Printers
    <3> QED
      BY <2>3, <3>1, JobAside
  <2> HIDE DEF r
  <2>5. Aside(r, PrintLine(r))
    BY <2>4, PrintLineAside DEF Aside
  <2> QED
    BY <2>1, <2>2, <2>4, <2>5, AsideTrans
<1>3. CASE p.job.st # "Paused" /\ p.job.ended
  <2>1. JobStart(p) = [p EXCEPT !.job = running, !.halted = TRUE]
    BY <1>3 DEF JobStart
  <2> QED
    BY <1>1, <2>1, JobAside
<1>4. CASE p.job.st # "Paused" /\ ~p.job.ended
  <2> DEFINE r == [p EXCEPT !.job = first]
  <2>1. JobStart(p) = PrintLine(r)
    BY <1>4 DEF JobStart
  <2>2. r = [p EXCEPT !.job = first, !.halted = p.halted]
    BY DEF Printers
  <2> HIDE DEF r
  <2>3. Aside(p, r)
    BY <1>1, <2>2, JobAside
  <2>4. Aside(r, PrintLine(r))
    BY <2>3, PrintLineAside DEF Aside
  <2> QED
    BY <2>1, <2>3, <2>4, AsideTrans
<1> QED
  BY <1>2, <1>3, <1>4

LEMMA JobStopAside ==
  ASSUME NEW p \in Printers
  PROVE  Aside(p, JobStop(p))
<1> DEFINE job == [p.job EXCEPT !.st = "Stopped"]
           q == [p EXCEPT !.job = job]
           texts == << "M18", "M107", "M104", "M140", "G91", "G0" >>
<1>1. job \in Jobs /\ p.halted \in BOOLEAN
  BY DEF Printers, Jobs, JobStates
<1>2. texts \in Seq(Texts)
  BY DEF Texts, OwnTexts
<1>3. JobStop(p) = SendCommands(q, texts)
  BY DEF JobStop
<1>4. q = [p EXCEPT !.job = job, !.halted = p.halted]
  BY DEF Printers
<1> HIDE DEF job, q, texts
<1>5. Aside(p, q)
  BY <1>1, <1>4, JobAside
<1>6. Aside(q, SendCommands(q, texts))
  BY <1>2, <1>5, SendCommandsAside DEF Aside
<1> QED
  BY <1>3, <1>5, <1>6, AsideTrans

LEMMA JobPauseAside ==
  ASSUME NEW p \in Printers
  PROVE  Aside(p, JobPause(p))
<1> DEFINE job == [p.job EXCEPT !.st = "Paused", !.saved = p.mode]
           q == [p EXCEPT !.job = job]
           texts == (IF ~p.mode.rel THEN << "G91" >> ELSE << >>)
                      \o << "G0", "M117" >>
<1>1. job \in Jobs /\ p.halted \in BOOLEAN
  BY DEF Printers, Jobs, JobStates
<1>2. texts \in Seq(Texts)
  <2>1. /\ << "G91" >> \in Seq(Texts) /\ << >> \in Seq(Texts)
        /\ << "G0", "M117" >> \in Seq(Texts)
    BY DEF Texts, OwnTexts
  <2> QED
    BY <2>1, ConcatProperties
<1>3. JobPause(p) = SendCommands(q, texts)
  BY DEF JobPause
<1>4. q = [p EXCEPT !.job = job, !.halted = p.halted]
  BY DEF Printers
<1> HIDE DEF job, q, texts
<1>5. Aside(p, q)
  BY <1>1, <1>4, JobAside
<1>6. Aside(q, SendCommands(q, texts))
  BY <1>2, <1>5, SendCommandsAside DEF Aside
<1> QED
  BY <1>3, <1>5, <1>6, AsideTrans

LEMMA StartLemma ==
  ASSUME NEW p \in Printers
  PROVE  /\ Start(p) \in Printers
         /\ Attended(p, {}) => Attended(Start(p), {})
         /\ Freed(p) => Freed(Start(p))
<1>1. CASE p.state # "Stopped"
  BY <1>1 DEF Start
<1>2. CASE p.state = "Stopped"
  <2> DEFINE q == SetState(p, "Disconnected")
  <2>1. /\ q \in Printers /\ SamePort(p, q) /\ SameQueue(p, q)
        /\ q.state = "Disconnected" /\ Adds(p, q, {"send"})
    BY SetStateLemma DEF States
  <2>2. Start(p) = DoConnect(q)
    BY <1>2 DEF Start
  <2> HIDE DEF q
  <2>3. Attended(p, {}) => Attended(q, {"reconnect"})
    BY <2>1 DEF Attended, Serial, SamePort, SameQueue, Adds, Pending
  <2>4. Freed(p) => Freed(q)
    BY <2>1, FreedSame DEF SamePort
  <2> QED
    BY <2>1, <2>2, <2>3, <2>4, DoConnectLemma
<1> QED
  BY <1>1, <1>2

LEMMA StopLemma ==
  ASSUME NEW p \in Printers
  PROVE  /\ Stop(p) \in Printers
         /\ Attended(p, {}) => Attended(Stop(p), {})
         /\ Freed(p) => Freed(Stop(p))
<1> DEFINE q == SetState(p, "Stopped")
<1>1. /\ q \in Printers /\ SamePort(p, q) /\ q.state = "Stopped"
      /\ Adds(p, q, {"send"})
  BY SetStateLemma DEF States
<1>2. Stop(p) = Reset(q)
  BY DEF Stop
<1> HIDE DEF q
<1>3. /\ Reset(q) \in Printers
      /\ Reset(q).path = q.path /\ Reset(q).state = q.state
      /\ Reset(q).port = "closed" /\ Reset(q).connecting = FALSE
      /\ Reset(q).timeoutTimer = "idle"
      /\ Reset(q).queue = << >> /\ Reset(q).executing = NoCommand
      /\ ~q.connecting => Adds(q, Reset(q), {"init", "send"})
  BY <1>1, ResetLemma
<1>4. Attended(p, {}) => Attended(Stop(p), {})
  BY <1>1, <1>2, <1>3 DEF Attended, Serial, SamePort, Adds, Pending
<1>5. Freed(Stop(p))
  BY <1>2, <1>3 DEF Freed
<1> QED
  BY <1>2, <1>3, <1>4, <1>5

LEMMA DeviceSettingsChangedLemma ==
  ASSUME NEW p \in Printers
  PROVE  /\ DeviceSettingsChanged(p) \in Printers
         /\ Attended(p, {}) => Attended(DeviceSettingsChanged(p), {})
         /\ Freed(p) => Freed(DeviceSettingsChanged(p))
<1>1. CASE p.state = "Stopped"
  BY <1>1 DEF DeviceSettingsChanged
<1>2. CASE p.state # "Stopped"
  <2>1. DeviceSettingsChanged(p) = DoConnect(Reset(p))
    BY <1>2 DEF DeviceSettingsChanged
  <2>2. /\ Reset(p) \in Printers
        /\ Reset(p).path = p.path /\ Reset(p).state = p.state
        /\ Reset(p).port = "closed" /\ Reset(p).connecting = FALSE
        /\ Reset(p).timeoutTimer = "idle"
        /\ Reset(p).queue = << >> /\ Reset(p).executing = NoCommand
        /\ ~p.connecting => Adds(p, Reset(p), {"init", "send"})
    BY ResetLemma
  <2>3. Attended(p, {}) => Attended(Reset(p), {"reconnect"})
    BY <1>2, <2>2 DEF Attended, Serial, Adds, Pending
  <2>4. Freed(Reset(p))
    BY <2>2 DEF Freed
  <2> QED
    BY <2>1, <2>2, <2>3, <2>4, DoConnectLemma
<1> QED
  BY <1>1, <1>2

LEMMA SendCommandAside ==
  ASSUME NEW p \in Printers, NEW text \in Texts, NEW cb \in Callbacks
  PROVE  Aside(p, SendCommand(p, text, cb))
BY SendCommandLemma DEF Aside

LEMMA ResetPrinterAside ==
  ASSUME NEW p \in Printers
  PROVE  Aside(p, ResetPrinter(p))
<1>1. "M999" \in Texts /\ "none" \in Callbacks
  BY DEF Texts, OwnTexts, Callbacks
<1>2. Aside(p, p)
  BY DEF Aside, SamePort, SameQueue, Adds
<1> QED
  BY <1>1, <1>2, SendCommandAside DEF ResetPrinter

LEMMA SetPrintJobLemma ==
  ASSUME NEW p \in Printers
  PROVE  /\ SetPrintJob(p) \in Printers
         /\ Attended(p, {}) => Attended(SetPrintJob(p), {})
         /\ Freed(p) => Freed(SetPrintJob(p))
<1> DEFINE age(c) == IF c.cb = "job" THEN [c EXCEPT !.cb = "stale"] ELSE c
           queue == [i \in DOMAIN p.queue |-> age(p.queue[i])]
           io == [i \in DOMAIN p.io |->
                    [p.io[i] EXCEPT !.cmd = age(p.io[i].cmd)]]
           job == [st |-> "Stopped", pos |-> 0, ended |-> FALSE,
                   saved |-> p.job.saved]
           q == [p EXCEPT !.job = job, !.queue = queue, !.io = io]
<1>1. /\ p.queue \in Seq(Commands) /\ p.io \in Seq(Handlers)
      /\ DOMAIN p.queue = 1..Len(p.queue) /\ Len(p.queue) \in Nat
      /\ DOMAIN p.io = 1..Len(p.io) /\ Len(p.io) \in Nat
  BY DEF Printers
<1>2. \A c \in Commands : age(c) \in Commands
  BY DEF Commands, Callbacks
<1> HIDE DEF age
<1>3. queue \in Seq(Commands)
  <2>1. queue \in [1..Len(p.queue) -> Commands]
    BY <1>1, <1>2
  <2> QED
    BY <1>1, <2>1, SequencesOfLength
<1>4. io \in Seq(Handlers)
  <2>1. \A i \in DOMAIN p.io : p.io[i] \in Handlers
    BY <1>1
  <2>0. age(Bare) = Bare
    BY DEF age, Bare
  <2>2. \A i \in DOMAIN p.io :
          [p.io[i] EXCEPT !.cmd = age(p.io[i].cmd)] \in Handlers
    BY <1>2, <2>0, <2>1 DEF Handlers
  <2>3. io \in [1..Len(p.io) -> Handlers]
    BY <1>1, <2>2
  <2> QED
    BY <1>1, <2>3, SequencesOfLength
<1>5. Waiting(io) = Waiting(p.io)
  <2>1. \A i \in DOMAIN p.io : p.io[i] \in Handlers
    BY <1>1
  <2>2. DOMAIN io = DOMAIN p.io /\ \A i \in DOMAIN io : io[i].h = p.io[i].h
    BY <2>1 DEF Handlers
  <2> HIDE DEF io
  <2> QED
    BY <2>2 DEF Waiting
<1>6. queue = << >> <=> p.queue = << >>
  BY <1>1
<1>7. job \in Jobs
  BY DEF Printers, Jobs, JobStates
<1>8. SetPrintJob(p) = IF p.job.st \in {"Running", "Paused"} THEN p ELSE q
  BY DEF SetPrintJob, age
<1> HIDE DEF queue, io, job
<1>9. q \in Printers
  BY <1>3, <1>4, <1>7 DEF Printers
<1>10. /\ q.path = p.path /\ q.port = p.port /\ q.connecting = p.connecting
       /\ q.timeoutTimer = p.timeoutTimer /\ q.reads = p.reads
       /\ q.reconnectTimer = p.reconnectTimer /\ q.state = p.state
       /\ q.io = io /\ q.queue = queue /\ q.executing = p.executing
  BY DEF Printers
<1> HIDE DEF q
<1>11. Attended(p, {}) => Attended(q, {})
  BY <1>5, <1>6, <1>10 DEF Attended, Serial, Pending
<1>12. Freed(p) => Freed(q)
  BY <1>5, <1>6, <1>10 DEF Freed
<1> QED
  BY <1>8, <1>9, <1>11, <1>12

-----------------------------------------------------------------------------
(* The actions. *)

(* Four properties of the connection follow from Attended. *)
LEMMA AttendedImplies ==
  ASSUME Attended(printer, {})
  PROVE  Listening /\ Watched /\ Maintained /\ Doomed
<1> USE DEF Attended, Ready
<1>1. Listening
  BY DEF Listening, ListensOn
<1>2. Watched
  BY DEF Watched, WatchedBy
<1>3. Maintained
  BY DEF Maintained, Retries
<1>4. Doomed
  BY DEF Doomed
<1> QED
  BY <1>1, <1>2, <1>3, <1>4

LEMMA InitAttended ==
  ASSUME Init, InitPath = "serial"
  PROVE  Attended(printer, {})
BY DEF Init, NewPrinter, Attended, Serial, Waiting, Pending

LEMMA InitFreed ==
  ASSUME Init
  PROVE  Freed(printer)
BY DEF Init, NewPrinter, Freed

LEMMA InitType ==
  ASSUME Init
  PROVE  TypeOK
<1>1. NewPrinter(InitPath) \in Printers
  <2>1. /\ << >> \in Seq(Lines) /\ << >> \in Seq(Frames)
        /\ << >> \in Seq(Commands) /\ << >> \in Seq(Sent)
        /\ << >> \in Seq(Handlers) /\ NoLine \in Int
    BY DEF NoLine
  <2>2. [rel |-> FALSE, erel |-> FALSE] \in Modes
    BY DEF Modes
  <2>3. [st |-> "None", pos |-> 0, ended |-> FALSE,
         saved |-> [rel |-> FALSE, erel |-> FALSE]] \in Jobs
    BY <2>2 DEF Jobs, JobStates
  <2> QED
    BY <2>1, <2>2, <2>3, ServerAssumption, LimitAssumption
       DEF NewPrinter, Printers, States
<1>2. PoweredUp \in Firmwares
  BY DEF PoweredUp, Firmwares, Modes
<1> QED
  BY <1>1, <1>2, BudgetAssumption DEF Init, TypeOK

-----------------------------------------------------------------------------
(* The io_service takes the first ready handler. *)

LEMMA TakenLemma ==
  ASSUME TypeOK, NEW h, Due(h)
  PROVE  /\ Taken \in Printers /\ Head(printer.io) \in Handlers
         /\ h \in Waiting(printer.io)
         /\ Waiting(printer.io) = Waiting(Taken.io) \cup {h}
         /\ SameQueue(printer, Taken) /\ Taken.state = printer.state
         /\ Attended(printer, {}) => Attended(Taken, {h})
         /\ Freed(printer) => Freed(Taken)
<1> DEFINE io == printer.io
<1>1. /\ printer \in Printers /\ io \in Seq(Handlers) /\ io # << >>
      /\ Head(io).h = h
  BY DEF TypeOK, Due, Printers
<1>2. /\ Tail(io) \in Seq(Handlers) /\ Head(io) \in Handlers
      /\ Len(io) \in Nat /\ Len(io) > 0 /\ DOMAIN io = 1..Len(io)
      /\ io[1] = Head(io) /\ DOMAIN Tail(io) = 1..(Len(io) - 1)
      /\ \A i \in 1..(Len(io) - 1) : Tail(io)[i] = io[i + 1]
  BY <1>1
<1>3. Waiting(io) = Waiting(Tail(io)) \cup {h}
  <2>1. \A i \in 1..Len(io) : i = 1 \/ i - 1 \in 1..(Len(io) - 1)
    BY <1>2
  <2>2. \A i \in 1..(Len(io) - 1) : i + 1 \in 1..Len(io)
    BY <1>2
  <2>3. Waiting(Tail(io)) \subseteq Waiting(io)
    BY <1>2, <2>2 DEF Waiting
  <2>4. h \in Waiting(io)
    BY <1>1, <1>2 DEF Waiting
  <2>5. ASSUME NEW i \in 1..Len(io)
        PROVE  io[i].h \in Waiting(Tail(io)) \cup {h}
    <3>1. CASE i = 1
      BY <1>1, <1>2, <3>1
    <3>2. CASE i # 1
      <4>1. i - 1 \in 1..(Len(io) - 1) /\ Tail(io)[i - 1] = io[i]
        BY <1>2, <2>1, <3>2
      <4> QED
        BY <1>2, <4>1 DEF Waiting
    <3> QED
      BY <3>1, <3>2
  <2> QED
    BY <1>2, <2>3, <2>4, <2>5 DEF Waiting
<1>4. Taken = [printer EXCEPT !.io = Tail(io)]
  BY DEF Taken
<1>5. Taken \in Printers
  BY <1>1, <1>2, <1>4 DEF Printers
<1>6. /\ Taken.path = printer.path /\ Taken.port = printer.port
      /\ Taken.connecting = printer.connecting
      /\ Taken.timeoutTimer = printer.timeoutTimer
      /\ Taken.reads = printer.reads /\ Taken.state = printer.state
      /\ Taken.reconnectTimer = printer.reconnectTimer
      /\ Taken.io = Tail(io) /\ SameQueue(printer, Taken)
  BY <1>1, <1>4 DEF Printers, SameQueue
<1>7. Attended(printer, {}) => Attended(Taken, {h})
  BY <1>3, <1>6 DEF Attended, Serial, SameQueue, Pending
<1>8. Freed(printer) => Freed(Taken)
  BY <1>3, <1>6 DEF Freed
<1> QED
  BY <1>2, <1>3, <1>5, <1>6, <1>7, <1>8

(* A handler whose result is a printer, attended if it was, is harmless. *)
Attends(p, h, q) ==
  /\ q \in Printers
  /\ Attended(p, {h}) => Attended(q, {})
  /\ Freed(p) => Freed(q)

LEMMA RunHandlerLemma ==
  ASSUME TypeOK, NEW h, NEW result, RunHandler(h, result),
         Attends(Taken, h, result)
  PROVE  /\ TypeOK' /\ left' = left
         /\ Attended(printer, {}) => Attended(printer', {})
         /\ Freed(printer) => Freed(printer')
BY TakenLemma DEF RunHandler, Attends, TypeOK

LEMMA RunIoLemma ==
  ASSUME TypeOK, RunIo
  PROVE  /\ TypeOK' /\ left' = left
         /\ Attended(printer, {}) => Attended(printer', {})
         /\ Freed(printer) => Freed(printer')
<1> DEFINE Goal == /\ TypeOK' /\ left' = left
                   /\ Attended(printer, {}) => Attended(printer', {})
                   /\ Freed(printer) => Freed(printer')
<1>1. ASSUME RunSend PROVE Goal
  <2> DEFINE cmd == Head(printer.io).cmd
             q == Send(Taken, cmd)
  <2>1. Taken \in Printers /\ Head(printer.io) \in Handlers
    BY <1>1, TakenLemma DEF RunSend, RunHandler
  <2>2. cmd \in Commands
    BY <1>1, <2>1 DEF RunSend, RunHandler, Due, Handlers, Completions
  <2>3. RunHandler("send", q)
    BY <1>1 DEF RunSend
  <2> HIDE DEF cmd
  <2>4. /\ q \in Printers /\ SamePort(Taken, q) /\ q.state = Taken.state
        /\ Adds(Taken, q, {"writeErr"})
        /\ \/ Taken.executing # NoCommand
           \/ Taken.port = "closed" => Ready(q, "writeErr")
    BY <2>1, <2>2, SendLemma
  <2> HIDE DEF q
  <2>5. Heeds(Taken, q)
    BY <2>4 DEF Heeds, Pending, Ready
  <2>6. Attended(Taken, {"send"}) => Attended(Taken, {})
    BY DEF Attended
  <2>7. Attends(Taken, "send", q)
    BY <2>4, <2>5, <2>6, AttendedFrame, FreedFrame DEF Attends
  <2> QED
    BY <2>3, <2>7, RunHandlerLemma
<1>2. ASSUME RunReadDone PROVE Goal
  <2>1. Attends(Taken, "readOk", ReadDone(Taken))
    BY <1>2, TakenLemma, ReadDoneLemma DEF RunReadDone, RunHandler, Attends
  <2> QED
    BY <1>2, <2>1, RunHandlerLemma DEF RunReadDone
<1>3. ASSUME RunReadError PROVE Goal
  <2>1. Attends(Taken, "readErr", LoseConnection(Taken))
    BY <1>3, TakenLemma, LoseConnectionLemma
       DEF RunReadError, RunHandler, Attends, Attended
  <2> QED
    BY <1>3, <2>1, RunHandlerLemma DEF RunReadError
<1>4. ASSUME RunWriteError PROVE Goal
  <2>1. Attends(Taken, "writeErr", LoseConnection(Taken))
    BY <1>4, TakenLemma, LoseConnectionLemma
       DEF RunWriteError, RunHandler, Attends, Attended
  <2> QED
    BY <1>4, <2>1, RunHandlerLemma DEF RunWriteError
<1>5. ASSUME RunConnected PROVE Goal
  <2>0. /\ Taken \in Printers /\ "connectOk" \in Waiting(printer.io)
        /\ Freed(printer) => Freed(Taken)
    <3>1. Due("connectOk")
      BY <1>5 DEF RunConnected, RunHandler
    <3> HIDE DEF Goal
    <3> QED
      BY <3>1, TakenLemma, Zenon
  <2>1. /\ ConnectDone(Taken, TRUE) \in Printers
        /\ "connectOk" \in Waiting(printer.io)
        /\ Freed(printer) => Freed(ConnectDone(Taken, TRUE))
    BY <2>0, ConnectDoneLemma
  <2> QED
    BY <1>5, <2>1 DEF RunConnected, RunHandler, TypeOK, Attended, Serial
<1>6. ASSUME RunConnectFailed PROVE Goal
  <2>0. /\ Taken \in Printers /\ "connectErr" \in Waiting(printer.io)
        /\ Freed(printer) => Freed(Taken)
    <3>1. Due("connectErr")
      BY <1>6 DEF RunConnectFailed, RunHandler
    <3> HIDE DEF Goal
    <3> QED
      BY <3>1, TakenLemma, Zenon
  <2>1. /\ ConnectDone(Taken, FALSE) \in Printers
        /\ "connectErr" \in Waiting(printer.io)
        /\ Freed(printer) => Freed(ConnectDone(Taken, FALSE))
    BY <2>0, ConnectDoneLemma
  <2> QED
    BY <1>6, <2>1 DEF RunConnectFailed, RunHandler, TypeOK, Attended, Serial
<1>7. ASSUME RunConnectTimeout PROVE Goal
  <2>0. /\ Taken \in Printers /\ "connTimeout" \in Waiting(printer.io)
        /\ Freed(printer) => Freed(Taken)
    <3>1. Due("connTimeout")
      BY <1>7 DEF RunConnectTimeout, RunHandler
    <3> HIDE DEF Goal
    <3> QED
      BY <3>1, TakenLemma, Zenon
  <2>1. /\ ConnectTimeout(Taken) \in Printers
        /\ "connTimeout" \in Waiting(printer.io)
        /\ Freed(printer) => Freed(ConnectTimeout(Taken))
    BY <2>0, ConnectTimeoutLemma
  <2> QED
    BY <1>7, <2>1 DEF RunConnectTimeout, RunHandler, TypeOK, Attended, Serial
<1>8. ASSUME RunTimeoutCheck PROVE Goal
  <2>1. Attends(Taken, "check", TimeoutCheck(Taken))
    BY <1>8, TakenLemma, TimeoutCheckLemma
       DEF RunTimeoutCheck, RunHandler, Attends
  <2> QED
    BY <1>8, <2>1, RunHandlerLemma DEF RunTimeoutCheck
<1>9. ASSUME RunReconnect PROVE Goal
  <2>1. Attends(Taken, "reconnect", DoConnect(Taken))
    BY <1>9, TakenLemma, DoConnectLemma DEF RunReconnect, RunHandler, Attends
  <2> QED
    BY <1>9, <2>1, RunHandlerLemma DEF RunReconnect
<1>10. ASSUME RunInitialize PROVE Goal
  <2>1. Attends(Taken, "init", Initialize(Taken))
    BY <1>10, TakenLemma, InitializeLemma
       DEF RunInitialize, RunHandler, Attends
  <2> QED
    BY <1>10, <2>1, RunHandlerLemma DEF RunInitialize
<1>11. ASSUME RunGetTemperature PROVE Goal
  <2> DEFINE q == GetTemperature(Taken)
  <2>1. Taken \in Printers
    BY <1>11, TakenLemma DEF RunGetTemperature, RunHandler
  <2>2. Aside(Taken, q)
    BY <2>1, GetTemperatureLemma DEF Aside
  <2>3. Attended(Taken, {"temp"}) => Attended(Taken, {})
    BY DEF Attended
  <2>4. Attends(Taken, "temp", q)
    BY <2>2, <2>3, AsideAttended, AsideFreed DEF Attends, Aside
  <2> QED
    BY <1>11, <2>4, RunHandlerLemma DEF RunGetTemperature
<1> HIDE DEF Goal
<1>12. Goal
  BY <1>1, <1>2, <1>3, <1>4, <1>5, <1>6, <1>7, <1>8, <1>9, <1>10, <1>11
     DEF RunIo
<1> QED
  BY <1>12 DEF Goal

-----------------------------------------------------------------------------
LEMMA SpendType ==
  ASSUME left \in Budgets, NEW kind \in Kinds, Spend(kind)
  PROVE  /\ left' \in Budgets
         /\ left["path"] = 0 => left'["path"] = 0 /\ kind # "path"
<1>1. /\ left[kind] \in Nat /\ left[kind] > 0 /\ left[kind] - 1 \in Nat
      /\ left["all"] \in Nat /\ left["all"] > 0 /\ left["all"] - 1 \in Nat
  BY DEF Spend, Budgets
<1>2. left' = [left EXCEPT ![kind] = left[kind] - 1,
                           !["all"] = left["all"] - 1]
  BY DEF Spend, Kinds
<1>3. left' \in Budgets
  BY <1>1, <1>2 DEF Budgets
<1>4. "path" \in Kinds /\ "path" # "all"
  BY DEF Kinds
<1>5. left["path"] = 0 => kind # "path" /\ left'["path"] = left["path"]
  BY <1>1, <1>2, <1>4 DEF Budgets
<1> QED
  BY <1>3, <1>5

(***************************************************************************)
(* A timer's wait that completes: its handler takes over what the timer    *)
(* stood for.                                                              *)
(***************************************************************************)
LEMMA TimersLemma ==
  ASSUME TypeOK, Timers
  PROVE  /\ TypeOK' /\ (left["path"] = 0 => left'["path"] = 0)
         /\ Attended(printer, {}) => Attended(printer', {})
         /\ Freed(printer) => Freed(printer')
<1> DEFINE p == printer
           Goal == /\ TypeOK' /\ (left["path"] = 0 => left'["path"] = 0)
                   /\ Attended(p, {}) => Attended(printer', {})
                   /\ Freed(p) => Freed(printer')
<1>0. /\ p \in Printers /\ fw \in Firmwares
      /\ printed \in Seq(Texts)
      /\ left \in Budgets
  BY DEF TypeOK
<1>1. ASSUME ReconnectTimerExpires PROVE Goal
  <2> DEFINE h == p.reconnectTimer
             q == Post(p, h)
  <2>1. h \in {"reconnect", "init"} /\ h \in Completions
    BY <1>0, <1>1 DEF ReconnectTimerExpires, Printers, Completions
  <2>2. /\ q \in Printers /\ SamePort(p, q) /\ SameQueue(p, q)
        /\ q.state = p.state /\ Adds(p, q, {h}) /\ Ready(q, h)
    BY <1>0, <2>1, PostLemma
  <2>3. printer' = [q EXCEPT !.reconnectTimer = "idle"]
    BY <1>1 DEF ReconnectTimerExpires
  <2> HIDE DEF q
  <2>4. printer' \in Printers
    BY <2>2, <2>3 DEF Printers
  <2>5. /\ printer'.path = q.path /\ printer'.port = q.port
        /\ printer'.connecting = q.connecting
        /\ printer'.timeoutTimer = q.timeoutTimer
        /\ printer'.reads = q.reads /\ printer'.state = q.state
        /\ printer'.io = q.io /\ SameQueue(q, printer')
    BY <2>2, <2>3 DEF Printers, SameQueue
  <2>6. Attended(p, {}) => Attended(printer', {})
    BY <2>1, <2>2, <2>5 DEF Attended, Serial, SamePort, SameQueue, Adds,
                            Ready, Pending
  <2>7. Freed(p) => Freed(printer')
    BY <2>2, <2>5, FreedSame DEF SamePort
  <2> QED
    BY <1>0, <1>1, <2>4, <2>6, <2>7 DEF ReconnectTimerExpires, TypeOK
<1>2. ASSUME p.timeoutTimer = "check", NEW n \in Nat,
             printer' = [Post(p, "check") EXCEPT !.timeoutTimer = "idle",
                                                 !.quiet = n]
      PROVE  /\ printer' \in Printers
             /\ Attended(p, {}) => Attended(printer', {})
             /\ Freed(p) => Freed(printer')
  <2> DEFINE q == Post(p, "check")
  <2>1. /\ q \in Printers /\ SamePort(p, q) /\ SameQueue(p, q)
        /\ q.state = p.state /\ Adds(p, q, {"check"}) /\ Ready(q, "check")
    BY <1>0, PostLemma DEF Completions
  <2>2. printer' = [q EXCEPT !.timeoutTimer = "idle", !.quiet = n]
    BY <1>2
  <2> HIDE DEF q
  <2>3. printer' \in Printers
    BY <2>1, <2>2 DEF Printers
  <2>4. /\ printer'.path = q.path /\ printer'.port = q.port
        /\ printer'.connecting = q.connecting
        /\ printer'.timeoutTimer = "idle"
        /\ printer'.reconnectTimer = q.reconnectTimer
        /\ printer'.reads = q.reads /\ printer'.state = q.state
        /\ printer'.io = q.io /\ SameQueue(q, printer')
    BY <2>1, <2>2 DEF Printers, SameQueue
  <2>5. Attended(p, {}) => Attended(printer', {})
    BY <2>1, <2>4 DEF Attended, Serial, SamePort, SameQueue, Adds, Ready,
                      Pending
  <2>6. Freed(p) => Freed(printer')
    BY <2>1, <2>4, FreedSame DEF SamePort
  <2> QED
    BY <2>3, <2>5, <2>6
<1>3. ASSUME CheckTimerExpires PROVE Goal
  <2> DEFINE n == IF InTransit \/ p.quiet = QuietLimit THEN p.quiet
                  ELSE p.quiet + 1
  <2>1. p.quiet \in Nat
    BY <1>0 DEF Printers
  <2>2. n \in Nat
    BY <2>1
  <2>3. Post(p, "check").quiet = p.quiet
    BY <1>0 DEF Post, Printers
  <2>4. /\ p.timeoutTimer = "check"
        /\ printer' = [Post(p, "check") EXCEPT !.timeoutTimer = "idle",
                                                !.quiet = n]
    BY <1>3, <2>3 DEF CheckTimerExpires
  <2> HIDE DEF n
  <2> QED
    BY <1>0, <1>2, <1>3, <2>2, <2>4 DEF CheckTimerExpires, TypeOK
<1>4. ASSUME PrinterStalls PROVE Goal
  <2>1. left' \in Budgets /\ (left["path"] = 0 => left'["path"] = 0)
    BY <1>0, <1>4, SpendType DEF PrinterStalls, Kinds
  <2> QED
    BY <1>0, <1>2, <1>4, <2>1, LimitAssumption DEF PrinterStalls, TypeOK
<1>5. ASSUME ConnectTimerExpires PROVE Goal
  <2> DEFINE q == Post(p, "connTimeout")
  <2>1. /\ q \in Printers /\ SamePort(p, q) /\ SameQueue(p, q)
        /\ q.state = p.state /\ Adds(p, q, {"connTimeout"})
    BY <1>0, PostLemma DEF Completions
  <2>2. printer' = [q EXCEPT !.timeoutTimer = "idle"]
    BY <1>5 DEF ConnectTimerExpires
  <2> HIDE DEF q
  <2>3. printer' \in Printers
    BY <2>1, <2>2 DEF Printers
  <2>4. /\ printer'.port = q.port /\ printer'.state = q.state
        /\ printer'.io = q.io /\ SameQueue(q, printer')
    BY <2>1, <2>2 DEF Printers, SameQueue
  <2>5. Freed(p) => Freed(printer')
    BY <2>1, <2>4, FreedSame DEF SamePort
  <2> QED
    BY <1>0, <1>5, <2>3, <2>5 DEF ConnectTimerExpires, TypeOK, Attended, Serial
<1>6. ASSUME TemperatureTimerExpires PROVE Goal
  <2> DEFINE q == Post(p, "temp")
  <2>1. /\ q \in Printers /\ SamePort(p, q) /\ SameQueue(p, q)
        /\ q.state = p.state /\ Adds(p, q, {"temp"})
    BY <1>0, PostLemma DEF Completions
  <2>2. printer' = [q EXCEPT !.tempTimer = FALSE]
    BY <1>6 DEF TemperatureTimerExpires
  <2> HIDE DEF q
  <2>3. printer' \in Printers
    BY <2>1, <2>2 DEF Printers
  <2>4. SamePort(q, printer') /\ SameQueue(q, printer')
        /\ printer'.state = q.state /\ printer'.io = q.io
    BY <2>1, <2>2 DEF Printers, SamePort, SameQueue
  <2>5. Attended(p, {}) => Attended(printer', {})
    BY <2>1, <2>4 DEF Attended, Serial, SamePort, SameQueue, Adds, Pending
  <2>6. left' \in Budgets /\ (left["path"] = 0 => left'["path"] = 0)
    BY <1>0, <1>6, SpendType DEF TemperatureTimerExpires, Kinds
  <2>7. Freed(p) => Freed(printer')
    BY <2>1, <2>4, FreedSame DEF SamePort
  <2> QED
    BY <1>0, <1>6, <2>3, <2>5, <2>6, <2>7 DEF TemperatureTimerExpires, TypeOK
<1> QED
  BY <1>1, <1>3, <1>4, <1>5, <1>6 DEF Timers

(***************************************************************************)
(* What the kernel and the printer do to the record: nothing that Attended *)
(* reads, unless the action says so.                                       *)
(***************************************************************************)
LEMMA LinkLemma ==
  ASSUME TypeOK, Link
  PROVE  /\ TypeOK' /\ (left["path"] = 0 => left'["path"] = 0)
         /\ Attended(printer, {}) => Attended(printer', {})
         /\ Freed(printer) => Freed(printer')
<1> DEFINE p == printer
           Goal == /\ TypeOK' /\ (left["path"] = 0 => left'["path"] = 0)
                   /\ Attended(p, {}) => Attended(printer', {})
                   /\ Freed(p) => Freed(printer')
<1>0. /\ p \in Printers /\ fw \in Firmwares
      /\ printed \in Seq(Texts)
      /\ left \in Budgets
      /\ p.wire \in Seq(Lines) /\ p.rx \in Seq(Lines) /\ p.tx \in Seq(Frames)
      /\ p.reads \in Nat
  BY DEF TypeOK, Printers
<1>1. ASSUME LinesArrive PROVE Goal
  <2>1. PICK k \in 1..Len(p.wire) :
          printer' = [Post(p, "readOk")
                        EXCEPT !.reads = @ - 1,
                               !.rx = @ \o SubSeq(p.wire, 1, k),
                               !.wire = SubSeq(@, k + 1, Len(@))]
    BY <1>1 DEF LinesArrive
  <2> DEFINE q == Post(p, "readOk")
             rx == p.rx \o SubSeq(p.wire, 1, k)
             wire == SubSeq(p.wire, k + 1, Len(p.wire))
  <2>2. /\ q \in Printers /\ SamePort(p, q) /\ SameQueue(p, q)
        /\ q.state = p.state /\ Adds(p, q, {"readOk"}) /\ Ready(q, "readOk")
    BY <1>0, PostLemma DEF Completions
  <2>3. SubSeq(p.wire, 1, k) \in Seq(Lines) /\ wire \in Seq(Lines)
    BY <1>0
  <2>4. rx \in Seq(Lines) /\ p.reads - 1 \in Nat
    BY <1>0, <1>1, <2>3, ConcatProperties DEF LinesArrive
  <2>5. printer' = [q EXCEPT !.reads = p.reads - 1, !.rx = rx, !.wire = wire]
    <3>1. q.reads = p.reads /\ q.rx = p.rx /\ q.wire = p.wire
      BY <1>0 DEF Post, Printers
    <3> HIDE DEF q
    <3> QED
      BY <2>1, <3>1 DEF q
  <2> HIDE DEF q, rx, wire
  <2>6. printer' \in Printers
    BY <2>2, <2>3, <2>4, <2>5 DEF Printers
  <2>7. /\ printer'.path = q.path /\ printer'.port = q.port
        /\ printer'.connecting = q.connecting
        /\ printer'.timeoutTimer = q.timeoutTimer
        /\ printer'.reconnectTimer = q.reconnectTimer
        /\ printer'.state = q.state /\ printer'.io = q.io
        /\ SameQueue(q, printer')
    BY <2>2, <2>5 DEF Printers, SameQueue
  <2>8. Attended(p, {}) => Attended(printer', {})
    BY <2>2, <2>7 DEF Attended, Serial, SamePort, SameQueue, Adds, Ready,
                      Pending
  <2>9. Freed(p) => Freed(printer')
    BY <2>2, <2>7, FreedSame DEF SamePort
  <2> QED
    BY <1>0, <1>1, <2>6, <2>8, <2>9 DEF LinesArrive, TypeOK
<1>2. ASSUME ReadFails PROVE Goal
  <2> DEFINE q == Post(p, "readErr")
  <2>1. /\ q \in Printers /\ SamePort(p, q) /\ SameQueue(p, q)
        /\ q.state = p.state /\ Adds(p, q, {"readErr"})
        /\ Ready(q, "readErr")
    BY <1>0, PostLemma DEF Completions
  <2>2. q.reads = p.reads
    BY <2>1 DEF SamePort
  <2> HIDE DEF q
  <2>3. printer' = [q EXCEPT !.reads = p.reads - 1] /\ p.reads - 1 \in Nat
    BY <1>0, <1>2, <2>2 DEF ReadFails, q
  <2>4. printer' \in Printers
    BY <2>1, <2>3 DEF Printers
  <2>5. /\ printer'.path = q.path /\ printer'.port = q.port
        /\ printer'.connecting = q.connecting
        /\ printer'.timeoutTimer = q.timeoutTimer
        /\ printer'.reconnectTimer = q.reconnectTimer
        /\ printer'.state = q.state /\ printer'.io = q.io
        /\ SameQueue(q, printer')
    BY <2>1, <2>3 DEF Printers, SameQueue
  <2>6. Attended(p, {}) => Attended(printer', {})
    BY <2>1, <2>5 DEF Attended, Serial, SamePort, SameQueue, Adds, Ready,
                      Pending
  <2>7. Freed(p) => Freed(printer')
    BY <2>1, <2>5, FreedSame DEF SamePort
  <2> QED
    BY <1>0, <1>2, <2>4, <2>6, <2>7 DEF ReadFails, TypeOK
<1>3. ASSUME Established PROVE Goal
  <2> DEFINE q == IF p.connecting THEN Post(p, "connectOk") ELSE p
             tx == q.tx \o p.held
  <2>1. q \in Printers /\ q.state = p.state
    BY <1>0, PostLemma DEF Completions
  <2>2. p.port = "opening" /\ tx \in Seq(Frames) /\ << >> \in Seq(Frames)
    BY <1>0, <1>3, <2>1, ConcatProperties DEF Established, Printers
  <2>3. printer' = [q EXCEPT !.port = "open", !.connecting = FALSE,
                             !.tx = tx, !.held = << >>]
    BY <1>3 DEF Established
  <2> HIDE DEF q, tx
  <2>4. printer' \in Printers
    BY <2>1, <2>2, <2>3, JoinedType
  <2>5. printer'.state = p.state
    BY <2>1, <2>3 DEF Printers
  <2>6. Freed(p) => Freed(printer')
    BY <2>2, <2>5 DEF Freed
  <2> QED
    BY <1>0, <1>3, <2>2, <2>4, <2>6 DEF Established, TypeOK, Attended, Serial
<1>4. ASSUME Refused PROVE Goal
  <2> DEFINE q == IF p.connecting THEN Post(p, "connectErr") ELSE p
             r == [q EXCEPT !.port = "refused", !.connecting = FALSE]
  <2>1. q \in Printers /\ q.state = p.state
    BY <1>0, PostLemma DEF Completions
  <2>2. p.port = "opening" /\ printer' = FailWaiting(r)
    BY <1>4 DEF Refused
  <2> HIDE DEF q
  <2>3. r \in Printers /\ r.state = p.state
    BY <2>1 DEF Printers
  <2> HIDE DEF r
  <2>4. printer' \in Printers /\ printer'.state = p.state
    BY <2>2, <2>3, FailWaitingLemma
  <2>5. Freed(p) => Freed(printer')
    BY <2>2, <2>4 DEF Freed
  <2> QED
    BY <1>0, <1>4, <2>2, <2>4, <2>5 DEF Refused, TypeOK, Attended, Serial
<1>5. ASSUME Replug PROVE Goal
  <2>1. left' \in Budgets /\ (left["path"] = 0 => left'["path"] = 0)
    BY <1>0, <1>5, SpendType DEF Replug, Kinds
  <2>2. PICK d \in Devices \ {p.device} :
          printer' = IF d # "absent" THEN [p EXCEPT !.device = d]
                     ELSE [p EXCEPT !.device = d, !.tx = << >>,
                             !.wire = << >>,
                             !.port = IF @ = "open" THEN "dead" ELSE @]
    BY <1>5 DEF Replug
  <2> DEFINE port == IF p.port = "open" THEN "dead" ELSE p.port
  <2>3. /\ d \in {"present", "absent", "refusing"}
        /\ port \in {"closed", "opening", "refused", "open", "dead", "stuck"}
        /\ << >> \in Seq(Frames) /\ << >> \in Seq(Lines)
    BY <1>0, ServerAssumption DEF Printers
  <2>4. CASE d # "absent"
    <3>1. printer' = [p EXCEPT !.device = d]
      BY <2>2, <2>4
    <3>2. printer' \in Printers
      BY <1>0, <2>3, <3>1 DEF Printers
    <3>3. SamePort(p, printer') /\ SameQueue(p, printer')
          /\ printer'.state = p.state /\ printer'.io = p.io
      BY <1>0, <3>1 DEF Printers, SamePort, SameQueue
    <3>4. Attended(p, {}) => Attended(printer', {})
      BY <3>3 DEF Attended, Serial, SamePort, SameQueue, Pending
    <3>5. Freed(p) => Freed(printer')
      BY <3>3, FreedSame DEF SamePort
    <3> QED
      BY <1>0, <1>5, <2>1, <3>2, <3>4, <3>5 DEF Replug, TypeOK
  <2>5. CASE d = "absent"
    <3>1. printer' = [p EXCEPT !.device = d, !.tx = << >>, !.wire = << >>,
                               !.port = port]
      BY <2>2, <2>5
    <3> HIDE DEF port
    <3>2. printer' \in Printers
      BY <1>0, <2>3, <3>1 DEF Printers
    <3>3. /\ printer'.path = p.path /\ printer'.port = port
          /\ printer'.connecting = p.connecting
          /\ printer'.timeoutTimer = p.timeoutTimer
          /\ printer'.reconnectTimer = p.reconnectTimer
          /\ printer'.reads = p.reads
          /\ printer'.state = p.state /\ printer'.io = p.io
          /\ SameQueue(p, printer')
      BY <1>0, <3>1 DEF Printers, SameQueue
    <3>4. Attended(p, {}) => Attended(printer', {})
      BY <3>3 DEF Attended, Serial, SameQueue, Pending, port
    <3>5. Freed(p) => Freed(printer')
      BY <3>3 DEF Freed, port
    <3> QED
      BY <1>0, <1>5, <2>1, <3>2, <3>4, <3>5 DEF Replug, TypeOK
  <2> QED
    BY <2>4, <2>5
<1>6. ASSUME LoseFrame PROVE Goal
  <2>1. left' \in Budgets /\ (left["path"] = 0 => left'["path"] = 0)
    BY <1>0, <1>6, SpendType DEF LoseFrame, Kinds
  <2>2. printer' = [p EXCEPT !.tx = Tail(p.tx)] /\ Tail(p.tx) \in Seq(Frames)
    BY <1>0, <1>6 DEF LoseFrame
  <2>3. printer' \in Printers
    BY <1>0, <2>2 DEF Printers
  <2>4. SamePort(p, printer') /\ SameQueue(p, printer')
        /\ printer'.state = p.state /\ printer'.io = p.io
    BY <1>0, <2>2 DEF Printers, SamePort, SameQueue
  <2>5. Attended(p, {}) => Attended(printer', {})
    BY <2>4 DEF Attended, Serial, SamePort, SameQueue, Pending
  <2>6. Freed(p) => Freed(printer')
    BY <2>4, FreedSame DEF SamePort
  <2> QED
    BY <1>0, <1>6, <2>1, <2>3, <2>5, <2>6 DEF LoseFrame, TypeOK
<1> QED
  BY <1>1, <1>2, <1>3, <1>4, <1>5, <1>6 DEF Link

-----------------------------------------------------------------------------
(* The firmware reads a frame and writes lines; it moves nothing else. *)

LEMMA ReplyType ==
  ASSUME NEW p \in Printers, NEW lines \in Seq(Lines), NEW tx \in Seq(Frames)
  PROVE  LET q == [Reply(p, lines) EXCEPT !.tx = tx]
         IN  /\ q \in Printers
             /\ Attended(p, {}) => Attended(q, {})
             /\ Freed(p) => Freed(q)
<1> DEFINE wire == IF Writable(p) THEN p.wire \o lines ELSE p.wire
           q == [Reply(p, lines) EXCEPT !.tx = tx]
<1>1. p.wire \in Seq(Lines)
  BY DEF Printers
<1>2. wire \in Seq(Lines)
  BY <1>1, ConcatProperties
<1>3. q = [p EXCEPT !.wire = wire, !.tx = tx]
  BY DEF Reply, Printers
<1> HIDE DEF wire, q
<1>4. q \in Printers
  BY <1>2, <1>3 DEF Printers
<1>5. /\ SamePort(p, q) /\ SameQueue(p, q) /\ q.state = p.state
      /\ q.io = p.io
  BY <1>3 DEF Printers, SamePort, SameQueue
<1>6. Attended(p, {}) => Attended(q, {})
  BY <1>5 DEF Attended, Serial, SamePort, SameQueue, Pending
<1>7. Freed(p) => Freed(q)
  BY <1>5, FreedSame DEF SamePort
<1> QED
  BY <1>4, <1>6, <1>7 DEF q

LEMMA LineType ==
  ASSUME NEW t \in {"ok", "resend", "error", "start", "other"}
  PROVE  Line(t) \in Lines
BY DEF Line, Lines, NoLine

LEMMA AnswersType ==
  /\ \A frame \in Frames : Acknowledgement(frame) \in Seq(Lines)
  /\ \A f \in Firmwares : Refusal(f) \in Seq(Lines)
<1>1. /\ << Line("ok") >> \in Seq(Lines) /\ << Line("error") >> \in Seq(Lines)
      /\ << Line("other") >> \in Seq(Lines) /\ << >> \in Seq(Lines)
  BY LineType
<1>2. ASSUME NEW frame \in Frames
      PROVE  Acknowledgement(frame) \in Seq(Lines)
  BY <1>1, ConcatProperties DEF Acknowledgement
<1>3. ASSUME NEW f \in Firmwares
      PROVE  Refusal(f) \in Seq(Lines)
  <2>1. [t |-> "resend", n |-> f.last + 1] \in Lines
    BY DEF Firmwares, Lines
  <2>2. << [t |-> "resend", n |-> f.last + 1], Line("ok") >> \in Seq(Lines)
    BY <2>1, LineType
  <2> QED
    BY <1>1, <2>2, ConcatProperties DEF Refusal
<1> QED
  BY <1>2, <1>3

LEMMA ExecutedType ==
  ASSUME NEW f \in Firmwares, NEW frame \in Frames, InSequence(f, frame)
  PROVE  Executed(f, frame) \in Firmwares
<1> DEFINE last == CASE frame.text = "M110" -> 0
                     [] frame.n # NoLine -> frame.n
                     [] OTHER -> f.last
           mode == Positioned(f.mode, frame.text)
<1>1. f.last \in Nat /\ f.mode \in Modes
  BY DEF Firmwares
<1>2. last \in Nat
  BY <1>1 DEF InSequence
<1>3. mode \in Modes
  BY <1>1 DEF Positioned, Modes
<1>4. Executed(f, frame) = [f EXCEPT !.last = last, !.mode = mode]
  BY DEF Executed, Firmwares
<1> HIDE DEF last, mode
<1> QED
  BY <1>2, <1>3, <1>4 DEF Firmwares

LEMMA FirmwareLemma ==
  ASSUME TypeOK, FirmwareStep
  PROVE  /\ TypeOK' /\ (left["path"] = 0 => left'["path"] = 0)
         /\ Attended(printer, {}) => Attended(printer', {})
         /\ Freed(printer) => Freed(printer')
<1> DEFINE p == printer
           frame == Head(p.tx)
           Moves == /\ printer' \in Printers
                    /\ Attended(p, {}) => Attended(printer', {})
                    /\ Freed(p) => Freed(printer')
           Goal == /\ TypeOK' /\ (left["path"] = 0 => left'["path"] = 0)
                   /\ Attended(p, {}) => Attended(printer', {})
                   /\ Freed(p) => Freed(printer')
<1>0. /\ p \in Printers /\ fw \in Firmwares
      /\ printed \in Seq(Texts)
      /\ left \in Budgets /\ p.tx \in Seq(Frames)
  BY DEF TypeOK, Printers
<1>1. ASSUME p.tx # << >>
      PROVE  frame \in Frames /\ Tail(p.tx) \in Seq(Frames)
  BY <1>0, <1>1
<1>2. ASSUME NEW lines \in Seq(Lines), p.tx # << >>, TakeFrame(lines)
      PROVE  Moves
  <2>1. Reply(p, lines).tx = p.tx
    BY <1>0 DEF Reply, Printers
  <2>2. printer' = [Reply(p, lines) EXCEPT !.tx = Tail(p.tx)]
    BY <1>2, <2>1 DEF TakeFrame
  <2> QED
    BY <1>0, <1>1, <1>2, <2>2, ReplyType
<1>3. ASSUME p.tx # << >>, InSequence(fw, frame), Execute(frame)
      PROVE  fw' \in Firmwares /\ printed' \in Seq(Texts)
  <2>1. fw' \in Firmwares
    BY <1>0, <1>1, <1>3, ExecutedType DEF Execute
  <2>2. frame.text \in Texts
    BY <1>1, <1>3 DEF Frames
  <2>3. Append(printed, frame.text) \in Seq(Texts)
    BY <1>0, <2>2
  <2> QED
    BY <1>0, <1>3, <2>1, <2>3 DEF Execute
<1>4. /\ p.tx # << >> => Acknowledgement(frame) \in Seq(Lines)
      /\ Refusal(fw) \in Seq(Lines)
      /\ << Line("ok") >> \in Seq(Lines)
      /\ << Line("start") >> \in Seq(Lines)
      /\ << Line("error"), Line("ok") >> \in Seq(Lines)
  BY <1>0, <1>1, AnswersType, LineType
<1> HIDE DEF Moves, frame
<1>5. ASSUME FirmwareExecutes PROVE Goal
  <2>1. CASE InSequence(fw, frame)
    <3>1. /\ p.tx # << >> /\ Execute(frame) /\ left' = left
          /\ TakeFrame(Acknowledgement(frame))
      BY <1>5, <2>1 DEF FirmwareExecutes, frame
    <3> QED
      BY <1>0, <1>2, <1>3, <1>4, <2>1, <3>1 DEF TypeOK, Moves
  <2>2. CASE ~InSequence(fw, frame)
    <3>1. /\ p.tx # << >> /\ TakeFrame(Refusal(fw)) /\ left' = left
          /\ fw' = fw /\ printed' = printed
      BY <1>5, <2>2 DEF FirmwareExecutes, frame
    <3> QED
      BY <1>0, <1>2, <1>4, <3>1 DEF TypeOK, Moves
  <2> QED
    BY <2>1, <2>2
<1>6. ASSUME FrameCorrupted PROVE Goal
  <2>1. left' \in Budgets /\ (left["path"] = 0 => left'["path"] = 0)
    BY <1>0, <1>6, SpendType DEF FrameCorrupted, Kinds
  <2> DEFINE lines == IF Head(p.tx).n = NoLine THEN << Line("ok") >>
                      ELSE Refusal(fw)
  <2>2. /\ p.tx # << >> /\ TakeFrame(lines) /\ fw' = fw
        /\ printed' = printed
    BY <1>6 DEF FrameCorrupted
  <2>3. lines \in Seq(Lines)
    BY <1>4
  <2> HIDE DEF lines
  <2> QED
    BY <1>0, <1>2, <2>1, <2>2, <2>3 DEF TypeOK, Moves
<1>7. ASSUME FirmwareOverconfirms PROVE Goal
  <2>1. left' \in Budgets /\ (left["path"] = 0 => left'["path"] = 0)
    BY <1>0, <1>7, SpendType DEF FirmwareOverconfirms, Kinds
  <2> DEFINE lines == Acknowledgement(frame) \o << Line("ok") >>
  <2>2. /\ p.tx # << >> /\ InSequence(fw, frame) /\ Execute(frame)
        /\ TakeFrame(lines)
    BY <1>7 DEF FirmwareOverconfirms, frame
  <2>3. lines \in Seq(Lines)
    BY <1>4, <2>2, ConcatProperties
  <2> HIDE DEF lines
  <2> QED
    BY <1>2, <1>3, <2>1, <2>2, <2>3 DEF TypeOK, Moves
<1>8. ASSUME FirmwareFails PROVE Goal
  <2>1. left' \in Budgets /\ (left["path"] = 0 => left'["path"] = 0)
    BY <1>0, <1>8, SpendType DEF FirmwareFails, Kinds
  <2>2. /\ p.tx # << >> /\ InSequence(fw, frame) /\ printed' = printed
        /\ fw' = Executed(fw, frame)
        /\ TakeFrame(<< Line("error"), Line("ok") >>)
    BY <1>8 DEF FirmwareFails, frame
  <2>3. fw' \in Firmwares
    BY <1>0, <1>1, <2>2, ExecutedType
  <2> QED
    BY <1>0, <1>2, <1>4, <2>1, <2>2, <2>3 DEF TypeOK, Moves
<1>9. ASSUME FirmwareReboots PROVE Goal
  <2>1. left' \in Budgets /\ (left["path"] = 0 => left'["path"] = 0)
    BY <1>0, <1>9, SpendType DEF FirmwareReboots, Kinds
  <2>2. << >> \in Seq(Frames)
    OBVIOUS
  <2>3. /\ printer' = [Reply(p, << Line("start") >>) EXCEPT !.tx = << >>]
        /\ printed' = printed /\ fw' = PoweredUp
    BY <1>9 DEF FirmwareReboots
  <2>4. Moves
    BY <1>0, <1>4, <2>2, <2>3, ReplyType DEF Moves
  <2>5. fw' \in Firmwares
    BY <2>3 DEF PoweredUp, Firmwares, Modes
  <2> QED
    BY <1>0, <2>1, <2>3, <2>4, <2>5 DEF TypeOK, Moves
<1> QED
  BY <1>5, <1>6, <1>7, <1>8, <1>9 DEF FirmwareStep

-----------------------------------------------------------------------------
(* Requests. *)

LEMMA RequestsLemma ==
  ASSUME TypeOK, Requests
  PROVE  /\ TypeOK' /\ (left["path"] = 0 => left'["path"] = 0)
         /\ Attended(printer, {}) /\ left["path"] = 0 =>
              Attended(printer', {})
         /\ Freed(printer) => Freed(printer')
<1> DEFINE p == printer
           Fine(q) == /\ q \in Printers
                      /\ Attended(p, {}) => Attended(q, {})
                      /\ Freed(p) => Freed(q)
           Goal == /\ TypeOK' /\ (left["path"] = 0 => left'["path"] = 0)
                   /\ Attended(p, {}) /\ left["path"] = 0 =>
                        Attended(printer', {})
                   /\ Freed(p) => Freed(printer')
<1>0. /\ p \in Printers /\ fw \in Firmwares
      /\ printed \in Seq(Texts)
      /\ left \in Budgets
  BY DEF TypeOK
<1>1. ASSUME NEW kind \in Kinds, NEW q, Request(kind, q),
             printed' \in {printed, << >>}, Fine(q)
      PROVE  Goal
  <2>1. /\ left' \in Budgets
        /\ left["path"] = 0 => left'["path"] = 0
        /\ printer' = q /\ fw' = fw
    BY <1>0, <1>1, SpendType DEF Request
  <2>2. printed' \in Seq(Texts)
    <3>1. << >> \in Seq(Texts)
      OBVIOUS
    <3> QED
      BY <1>0, <1>1, <3>1
  <2> QED
    BY <1>0, <1>1, <2>1, <2>2 DEF TypeOK
<1>2. ASSUME NEW q, Aside(p, q) PROVE Fine(q)
  BY <1>2, AsideAttended, AsideFreed DEF Aside
<1>3. ASSUME StartPrinter PROVE Goal
  <2>1. Fine(Start(p))
    BY <1>0, StartLemma
  <2> QED
    BY <1>1, <1>3, <2>1 DEF StartPrinter, Kinds
<1>4. ASSUME StopPrinter PROVE Goal
  <2>1. Fine(Stop(p))
    BY <1>0, StopLemma
  <2> QED
    BY <1>1, <1>4, <2>1 DEF StopPrinter, Kinds
<1>5. ASSUME ChangeSettings PROVE Goal
  <2>1. Fine(DeviceSettingsChanged(p))
    BY <1>0, DeviceSettingsChangedLemma
  <2> QED
    BY <1>1, <1>5, <2>1 DEF ChangeSettings, Kinds
<1>6. ASSUME ChangePath PROVE Goal
  <2>1. PICK path \in Paths \ {p.path} :
          Request("path", DeviceSettingsChanged([p EXCEPT !.path = path]))
    BY <1>6 DEF ChangePath
  <2> DEFINE q == [p EXCEPT !.path = path]
  <2>2. /\ q \in Printers /\ SameQueue(p, q) /\ q.port = p.port
        /\ q.state = p.state /\ q.io = p.io
    BY <1>0 DEF Printers, SameQueue
  <2> HIDE DEF q
  <2>3. /\ DeviceSettingsChanged(q) \in Printers
        /\ Freed(p) => Freed(DeviceSettingsChanged(q))
    BY <2>2, FreedSame, DeviceSettingsChangedLemma
  <2>4. /\ Spend("path") /\ printer' = DeviceSettingsChanged(q)
        /\ fw' = fw /\ printed' = printed
    BY <1>6, <2>1 DEF Request, ChangePath, q
  <2>5. left' \in Budgets /\ left["path"] # 0
    BY <1>0, <2>4, SpendType DEF Kinds
  <2> QED
    BY <1>0, <2>3, <2>4, <2>5 DEF TypeOK
<1>7. ASSUME SubmitGcode PROVE Goal
  <2>1. PICK text \in UserTexts :
          Request("gcode", SendCommand(p, text, "none"))
    BY <1>7 DEF SubmitGcode
  <2>2. text \in Texts /\ "none" \in Callbacks /\ printed' = printed
    BY <1>7 DEF Texts, Callbacks, SubmitGcode
  <2>3. Fine(SendCommand(p, text, "none"))
    BY <1>0, <1>2, <2>2, SendCommandAside
  <2> QED
    BY <1>1, <2>1, <2>2, <2>3 DEF Kinds
<1>8. ASSUME SetTemperature PROVE Goal
  <2>1. "M104" \in Texts /\ "client" \in Callbacks
    BY DEF Texts, OwnTexts, Callbacks
  <2>2. Fine(SendCommand(p, "M104", "client"))
    BY <1>0, <1>2, <2>1, SendCommandAside
  <2> QED
    BY <1>1, <1>8, <2>2 DEF SetTemperature, Kinds
<1>9. ASSUME SubmitJob PROVE Goal
  <2> DEFINE q == SetPrintJob(p)
  <2>1. Fine(q)
    BY <1>0, SetPrintJobLemma
  <2> HIDE DEF q
  <2>2. Fine(JobStart(q))
    BY <2>1, JobStartAside, AsideAttended, AsideFreed DEF Aside
  <2>3. PICK start \in BOOLEAN :
          /\ Request("submit", IF start THEN JobStart(q) ELSE q)
          /\ printed' = << >>
    BY <1>9 DEF SubmitJob, q
  <2> HIDE DEF Fine
  <2>4. Fine(IF start THEN JobStart(q) ELSE q)
    BY <2>1, <2>2
  <2> QED
    BY <1>1, <2>3, <2>4 DEF Kinds
<1>10. ASSUME ResumeJob PROVE Goal
  <2>1. Fine(JobStart(p))
    BY <1>0, <1>2, JobStartAside
  <2> QED
    BY <1>1, <1>10, <2>1 DEF ResumeJob, Kinds
<1>11. ASSUME PauseJob PROVE Goal
  <2>1. Fine(JobPause(p))
    BY <1>0, <1>2, JobPauseAside
  <2> QED
    BY <1>1, <1>11, <2>1 DEF PauseJob, Kinds
<1>12. ASSUME CancelJob PROVE Goal
  <2>1. Fine(JobStop(p))
    BY <1>0, <1>2, JobStopAside
  <2> QED
    BY <1>1, <1>12, <2>1 DEF CancelJob, Kinds
<1>13. ASSUME ResetRequest PROVE Goal
  <2>1. Fine(ResetPrinter(p))
    BY <1>0, <1>2, ResetPrinterAside
  <2> QED
    BY <1>1, <1>13, <2>1 DEF ResetRequest, Kinds
<1> HIDE DEF Goal
<1>14. Goal
  BY <1>3, <1>4, <1>5, <1>6, <1>7, <1>8, <1>9, <1>10, <1>11, <1>12, <1>13
     DEF Requests
<1> QED
  BY <1>14 DEF Goal

-----------------------------------------------------------------------------
LEMMA NextLemma ==
  ASSUME TypeOK, [Next]_vars
  PROVE  /\ TypeOK' /\ (left["path"] = 0 => left'["path"] = 0)
         /\ Attended(printer, {}) /\ left["path"] = 0 =>
              Attended(printer', {})
         /\ Freed(printer) => Freed(printer')
<1>1. CASE RunIo
  BY <1>1, RunIoLemma
<1>2. CASE Timers
  BY <1>2, TimersLemma
<1>3. CASE Link
  BY <1>3, LinkLemma
<1>4. CASE FirmwareStep
  BY <1>4, FirmwareLemma
<1>5. CASE Requests
  BY <1>5, RequestsLemma
<1>6. CASE UNCHANGED vars
  BY <1>6 DEF vars, TypeOK
<1> QED
  BY <1>1, <1>2, <1>3, <1>4, <1>5, <1>6 DEF Next

(***************************************************************************)
(* Type correctness: whatever handlers, timers, lines and requests come in *)
(* whatever order, every field of the printer keeps its type.              *)
(***************************************************************************)
THEOREM TypeCorrect == Spec => []TypeOK
<1>1. Init => TypeOK
  BY InitType
<1>2. TypeOK /\ [Next]_vars => TypeOK'
  BY NextLemma
<1> QED
  BY <1>1, <1>2, PTL DEF Spec

(***************************************************************************)
(* The connection of a printer that starts on a serial device and is not   *)
(* moved to another path.                                                  *)
(***************************************************************************)
SerialOnly == InitPath = "serial" /\ Budget["path"] = 0

IInv == TypeOK /\ left["path"] = 0 /\ Attended(printer, {})

(***************************************************************************)
(* The inductive invariant of the connection: between two handlers the     *)
(* printer is attended by timers, operations and ready handlers.           *)
(***************************************************************************)
THEOREM Inductive ==
  ASSUME SerialOnly
  PROVE  Spec => []IInv
<1>1. Init => IInv
  BY InitType, InitAttended DEF Init, IInv, SerialOnly
<1>2. IInv /\ [Next]_vars => IInv'
  BY NextLemma DEF IInv
<1> QED
  BY <1>1, <1>2, PTL DEF Spec

(***************************************************************************)
(* An open port is listened to: on every path through readDone, and from   *)
(* every handler that resets, reconnects or fails, a read is outstanding   *)
(* again or its completion is ready.                                       *)
(***************************************************************************)
THEOREM AnswersAreRead ==
  ASSUME SerialOnly
  PROVE  Spec => []Listening
<1>1. IInv => Listening
  BY AttendedImplies DEF IInv
<1> QED
  BY <1>1, Inductive, PTL

(***************************************************************************)
(* An open port is watched: whatever cancels m_timeoutTimer starts it anew *)
(* or gives the port up, so a silent printer is noticed.                   *)
(***************************************************************************)
THEOREM SilenceIsNoticed ==
  ASSUME SerialOnly
  PROVE  Spec => []Watched
<1>1. IInv => Watched
  BY AttendedImplies DEF IInv
<1> QED
  BY <1>1, Inductive, PTL

(***************************************************************************)
(* start() maintains the connection: a printer that is not stopped and has *)
(* no open port always has the retry timer running or a handler ready that *)
(* connects, although connected() and setupReconnect() share one timer.    *)
(***************************************************************************)
THEOREM ConnectionIsMaintained ==
  ASSUME SerialOnly
  PROVE  Spec => []Maintained
<1>1. IInv => Maintained
  BY AttendedImplies DEF IInv
<1> QED
  BY <1>1, Inductive, PTL

(***************************************************************************)
(* stop() gives the device or the connection up: no handler that was ready *)
(* or a timer that was running when it was called opens the port of a      *)
(* printer that stays stopped, over any link and whatever the path becomes.*)
(***************************************************************************)
THEOREM StoppedIsReleased == Spec => []Released
<1>1. Init => TypeOK /\ Freed(printer)
  BY InitType, InitFreed
<1>2. TypeOK /\ Freed(printer) /\ [Next]_vars => TypeOK' /\ Freed(printer)'
  BY NextLemma
<1>3. Freed(printer) => Released
  BY DEF Freed, Released
<1> QED
  BY <1>1, <1>2, <1>3, PTL DEF Spec

(***************************************************************************)
(* A command on a closed serial device is answered: while m_commandQueue   *)
(* or m_executingCommand hold one, the failed write that will reset the    *)
(* queue is ready.  (Over TCP a connect timeout may end the write without  *)
(* its handler's noticing.)                                                *)
(***************************************************************************)
THEOREM NoCommandIsForgotten ==
  ASSUME SerialOnly
  PROVE  Spec => []Doomed
<1>1. IInv => Doomed
  BY AttendedImplies DEF IInv
<1> QED
  BY <1>1, Inductive, PTL
=============================================================================
