--------------------------- MODULE ProtocolProofs ---------------------------
(***************************************************************************)
(* The theorems about the protocol between dashprint and the printer: with *)
(* a printer that confirms each frame once, at most one frame or its       *)
(* confirmation is under way, and the mode of the printer is known.        *)
(***************************************************************************)
EXTENDS JobProofs

-----------------------------------------------------------------------------
(* Confirmations among the lines that are read, arriving or joined. *)

HasOk(lines) == \E i \in DOMAIN lines : lines[i].t = "ok"
OneOk(lines) ==
  \A i, j \in DOMAIN lines : lines[i].t = "ok" /\ lines[j].t = "ok" => i = j

LEMMA NoOks == ~HasOk(<< >>) /\ OneOk(<< >>)
BY DEF HasOk, OneOk

LEMMA OksConcat ==
  ASSUME NEW a \in Seq(Lines), NEW b \in Seq(Lines)
  PROVE  /\ HasOk(a \o b) <=> HasOk(a) \/ HasOk(b)
         /\ OneOk(a) /\ OneOk(b) /\ ~(HasOk(a) /\ HasOk(b)) => OneOk(a \o b)
<1>1. /\ Len(a) \in Nat /\ Len(b) \in Nat
      /\ DOMAIN a = 1..Len(a) /\ DOMAIN b = 1..Len(b)
      /\ DOMAIN (a \o b) = 1..(Len(a) + Len(b))
      /\ \A i \in 1..Len(a) : (a \o b)[i] = a[i]
      /\ \A i \in 1..Len(b) : (a \o b)[Len(a) + i] = b[i]
  OBVIOUS
<1> DEFINE c == a \o b
<1>2. \A i \in DOMAIN c :
        \/ i \in DOMAIN a /\ c[i] = a[i]
        \/ i - Len(a) \in DOMAIN b /\ c[i] = b[i - Len(a)] /\ i > Len(a)
  <2> SUFFICES ASSUME NEW i \in 1..(Len(a) + Len(b)), i \notin 1..Len(a)
               PROVE  /\ i - Len(a) \in 1..Len(b) /\ i > Len(a)
                      /\ c[i] = b[i - Len(a)]
    BY <1>1
  <2>1. i - Len(a) \in 1..Len(b) /\ i > Len(a) /\ i = Len(a) + (i - Len(a))
    BY <1>1
  <2> QED
    BY <1>1, <2>1
<1>3. \A i \in DOMAIN a : i \in DOMAIN c /\ c[i] = a[i] /\ i <= Len(a)
  BY <1>1
<1>4. \A i \in DOMAIN b : Len(a) + i \in DOMAIN c /\ c[Len(a) + i] = b[i]
  BY <1>1
<1> HIDE DEF c
<1>5. HasOk(c) <=> HasOk(a) \/ HasOk(b)
  BY <1>2, <1>3, <1>4 DEF HasOk
<1>6. ASSUME OneOk(a), OneOk(b), ~(HasOk(a) /\ HasOk(b))
      PROVE  OneOk(c)
  <2> SUFFICES ASSUME NEW i \in DOMAIN c, NEW j \in DOMAIN c,
                      c[i].t = "ok", c[j].t = "ok"
               PROVE  i = j
    BY DEF OneOk
  <2>1. i \in Nat /\ j \in Nat
    BY <1>1 DEF c
  <2>2. CASE i \in DOMAIN a /\ c[i] = a[i] /\ j \in DOMAIN a /\ c[j] = a[j]
    BY <1>6, <2>2 DEF OneOk
  <2>3. CASE /\ i - Len(a) \in DOMAIN b /\ c[i] = b[i - Len(a)]
             /\ j - Len(a) \in DOMAIN b /\ c[j] = b[j - Len(a)]
    <3>1. i - Len(a) = j - Len(a)
      BY <1>6, <2>3 DEF OneOk
    <3> QED
      BY <1>1, <2>1, <3>1
  <2> QED
    BY <1>2, <1>6, <2>2, <2>3 DEF HasOk
<1> QED
  BY <1>5, <1>6 DEF c

(* A part of some lines, moved by k positions. *)
LEMMA OksPart ==
  ASSUME NEW a \in Seq(Lines), NEW b \in Seq(Lines), NEW k \in Int,
         \A i \in DOMAIN b : k + i \in DOMAIN a /\ b[i] = a[k + i]
  PROVE  /\ HasOk(b) => HasOk(a)
         /\ OneOk(a) => OneOk(b)
<1>1. DOMAIN b \subseteq Int
  BY DEF Lines
<1>2. ASSUME OneOk(a), NEW i \in DOMAIN b, NEW j \in DOMAIN b,
             b[i].t = "ok", b[j].t = "ok"
      PROVE  i = j
  <2>1. k + i = k + j
    BY <1>2 DEF OneOk
  <2> QED
    BY <1>1, <2>1
<1> QED
  BY <1>2 DEF HasOk, OneOk

LEMMA OksTail ==
  ASSUME NEW a \in Seq(Lines), a # << >>
  PROVE  /\ Tail(a) \in Seq(Lines)
         /\ HasOk(Tail(a)) => HasOk(a)
         /\ OneOk(a) => OneOk(Tail(a))
<1>1. /\ Tail(a) \in Seq(Lines)
      /\ \A i \in DOMAIN Tail(a) : 1 + i \in DOMAIN a /\ Tail(a)[i] = a[1 + i]
  OBVIOUS
<1>2. 1 \in Int
  OBVIOUS
<1> QED
  BY <1>1, <1>2, OksPart, Zenon

(* Lines that arrive: the first k of them go, the others stay. *)
LEMMA OksSplit ==
  ASSUME NEW a \in Seq(Lines), NEW k \in 1..Len(a), OneOk(a)
  PROVE  LET first == SubSeq(a, 1, k)
             last == SubSeq(a, k + 1, Len(a))
         IN  /\ first \in Seq(Lines) /\ last \in Seq(Lines)
             /\ OneOk(first) /\ OneOk(last)
             /\ HasOk(first) => HasOk(a)
             /\ HasOk(last) => HasOk(a)
             /\ ~(HasOk(first) /\ HasOk(last))
<1> DEFINE first == SubSeq(a, 1, k)
           last == SubSeq(a, k + 1, Len(a))
<1>1. /\ Len(a) \in Nat /\ k \in Nat /\ k <= Len(a) /\ DOMAIN a = 1..Len(a)
      /\ first \in Seq(Lines) /\ last \in Seq(Lines)
      /\ DOMAIN first = 1..k /\ DOMAIN last = 1..(Len(a) - k)
      /\ \A i \in 1..k : first[i] = a[i]
      /\ \A i \in 1..(Len(a) - k) : last[i] = a[k + i]
  OBVIOUS
<1> HIDE DEF first, last
<1>0. 0 \in Int /\ k \in Int
  BY <1>1
<1>2. \A i \in DOMAIN first : 0 + i \in DOMAIN a /\ first[i] = a[0 + i] /\ i <= k
  BY <1>1
<1>3. \A i \in DOMAIN last : k + i \in DOMAIN a /\ last[i] = a[k + i] /\ k + i > k
  BY <1>1
<1>4. /\ OneOk(first) /\ (HasOk(first) => HasOk(a))
  BY <1>0, <1>1, <1>2, OksPart, Zenon
<1>5. /\ OneOk(last) /\ (HasOk(last) => HasOk(a))
  BY <1>0, <1>1, <1>3, OksPart, Zenon
<1>6. ASSUME NEW i \in DOMAIN first, first[i].t = "ok",
             NEW j \in DOMAIN last, last[j].t = "ok"
      PROVE  FALSE
  <2>1. i \in DOMAIN a /\ a[i].t = "ok" /\ i <= k
    BY <1>1, <1>2, <1>6
  <2>2. k + j \in DOMAIN a /\ a[k + j].t = "ok" /\ k + j > k
    BY <1>3, <1>6
  <2>3. i = k + j
    BY <2>1, <2>2 DEF OneOk
  <2> QED
    BY <1>1, <2>1, <2>2, <2>3
<1> QED
  BY <1>1, <1>4, <1>5, <1>6 DEF first, last, HasOk

LEMMA ConfirmationsAre ==
  ASSUME NEW a \in Seq(Lines), OneOk(a)
  PROVE  /\ ~HasOk(a) => Confirmations(a) = 0
         /\ HasOk(a) => Confirmations(a) = 1
<1> DEFINE oks == {i \in DOMAIN a : a[i].t = "ok"}
<1>1. CASE ~HasOk(a)
  <2>1. oks = {}
    BY <1>1 DEF HasOk
  <2> QED
    BY <1>1, <2>1, FS_EmptySet DEF Confirmations
<1>2. CASE HasOk(a)
  <2>1. PICK i \in DOMAIN a : a[i].t = "ok"
    BY <1>2 DEF HasOk
  <2>2. oks = {i}
    BY <2>1 DEF OneOk
  <2> QED
    BY <1>2, <2>2, FS_Singleton DEF Confirmations
<1> QED
  BY <1>1, <1>2

-----------------------------------------------------------------------------
(***************************************************************************)
(* What a method leaves alone that neither writes nor reads: the wire, the *)
(* device at its end, and the time since the last sign of it.              *)
(***************************************************************************)
SameWire(p, q) ==
  q.tx = p.tx /\ q.wire = p.wire /\ q.device = p.device /\ q.quiet = p.quiet

LEMMA SameWireTrans ==
  ASSUME NEW p, NEW q, NEW r, SameWire(p, q), SameWire(q, r)
  PROVE  SameWire(p, r)
BY DEF SameWire

LEMMA PostWire ==
  ASSUME NEW p \in Printers, NEW h
  PROVE  SameWire(p, Post(p, h))
BY DEF SameWire, Post, Printers

LEMMA SendCommandWire ==
  ASSUME NEW p \in Printers, NEW text, NEW cb
  PROVE  SameWire(p, SendCommand(p, text, cb))
BY DEF SameWire, SendCommand, Printers

LEMMA SendCommandsWire ==
  ASSUME NEW p \in Printers, NEW texts
  PROVE  SameWire(p, SendCommands(p, texts))
BY DEF SameWire, SendCommands, Printers

LEMMA LinesProcessedWire ==
  ASSUME NEW p \in Printers, NEW n
  PROVE  SameWire(p, LinesProcessed(p, n))
BY DEF SameWire, LinesProcessed, Printers

LEMMA ResetCommandQueueWire ==
  ASSUME NEW p \in Printers
  PROVE  SameWire(p, ResetCommandQueue(p))
<1> DEFINE with(cb) == {i \in DOMAIN p.queue : p.queue[i].cb = cb}
           timer == p.tempTimer \/ with("temp") # {}
           crash == p.halted \/ with("stale") # {}
           calls == p.replies + Cardinality(with("client"))
           q == [p EXCEPT !.resend = NoLine, !.pendingError = FALSE,
                          !.queue = << >>, !.tempTimer = timer,
                          !.replies = calls, !.halted = crash]
           n == Cardinality(with("job"))
<1>1. q \in Printers
  <2>1. timer \in BOOLEAN /\ crash \in BOOLEAN
    OBVIOUS
  <2>2. calls \in Nat
    <3>1. p.replies \in Nat
      BY DEF Printers
    <3>2. Cardinality(with("client")) \in Nat
      BY CallbacksCounted
    <3> HIDE DEF with
    <3> QED
      BY <3>1, <3>2
  <2> HIDE DEF timer, crash, calls
  <2> QED
    BY <2>1, <2>2, DroppedType
<1>2. SameWire(p, q)
  BY DEF SameWire, Printers
<1>3. ResetCommandQueue(p) = LinesProcessed(q, n)
  BY DEF ResetCommandQueue
<1> HIDE DEF q, n
<1> QED
  BY <1>1, <1>2, <1>3, LinesProcessedWire, SameWireTrans

LEMMA SetStateWire ==
  ASSUME NEW p \in Printers, NEW s \in States
  PROVE  SameWire(p, SetState(p, s))
<1> DEFINE r == IF s = "Error" THEN ResetCommandQueue(p) ELSE p
<1>1. r \in Printers /\ SameWire(p, r)
  BY ResetCommandQueueLemma, ResetCommandQueueWire DEF SameWire
<1>2. SetState(p, s) = IF s = p.state THEN p ELSE [r EXCEPT !.state = s]
  BY DEF SetState
<1> HIDE DEF r
<1>3. SameWire(r, [r EXCEPT !.state = s])
  BY <1>1 DEF SameWire, Printers
<1> QED
  BY <1>1, <1>2, <1>3 DEF SameWire

LEMMA RaiseErrorWire ==
  ASSUME NEW p \in Printers
  PROVE  SameWire(p, RaiseError(p))
<1> DEFINE r == ResetCommandQueue(p)
           e == SetState(r, "Error")
<1>1. r \in Printers /\ SameWire(p, r)
  BY ResetCommandQueueLemma, ResetCommandQueueWire
<1> HIDE DEF r
<1>2. e \in Printers /\ SameWire(r, e)
  BY <1>1, SetStateLemma, SetStateWire DEF States
<1> HIDE DEF e
<1>3. SameWire(e, JobSetError(e))
  BY <1>2 DEF SameWire, JobSetError, Printers
<1>4. RaiseError(p) = IF r.state = "Error" THEN r
                      ELSE IF e.job.st # "None" THEN JobSetError(e) ELSE e
  BY DEF RaiseError, r, e
<1> QED
  BY <1>1, <1>2, <1>3, <1>4 DEF SameWire

LEMMA DoReadWire ==
  ASSUME NEW p \in Printers
  PROVE  SameWire(p, DoRead(p)) /\ DoRead(p).rx = p.rx
BY DEF SameWire, DoRead, Post, Printers

LEMMA ArmReconnectWire ==
  ASSUME NEW p \in Printers, NEW what
  PROVE  SameWire(p, ArmReconnect(p, what)) /\ ArmReconnect(p, what).rx = p.rx
BY DEF SameWire, ArmReconnect, CancelReconnect, Printers

LEMMA GetTemperatureWire ==
  ASSUME NEW p \in Printers
  PROVE  SameWire(p, GetTemperature(p))
BY SendCommandWire DEF GetTemperature, SameWire

LEMMA ResetWire ==
  ASSUME NEW p \in Printers
  PROVE  /\ Reset(p).tx = p.tx /\ Reset(p).wire = << >>
         /\ Reset(p).device = p.device /\ Reset(p).rx = p.rx
<1> DEFINE io == IF p.connecting THEN Append(p.io, Handler("connectErr"))
                 ELSE p.io
           closed == [p EXCEPT !.port = "closed", !.joined = FALSE,
                               !.reads = 0, !.held = << >>,
                               !.wire = << >>, !.connecting = FALSE,
                               !.io = io]
           idle == ArmReconnect(closed, "idle")
           quiet == [idle EXCEPT !.timeoutTimer = "idle",
                                 !.executing = NoCommand]
<1>1. io \in Seq(Handlers)
  <2>1. p.io \in Seq(Handlers)
    BY DEF Printers
  <2> QED
    BY <2>1, HandlerType, WaitingAppend DEF Completions
<1> HIDE DEF io
<1>2. closed \in Printers
  <2>1. << >> \in Seq(Lines) /\ << >> \in Seq(Frames)
    OBVIOUS
  <2> QED
    BY <1>1, <2>1, ClosedType
<1>3. /\ closed.tx = p.tx /\ closed.wire = << >>
      /\ closed.device = p.device /\ closed.rx = p.rx
  BY DEF Printers
<1> HIDE DEF closed
<1>4. idle \in Printers /\ SameWire(closed, idle) /\ idle.rx = closed.rx
  BY <1>2, ArmReconnectLemma, ArmReconnectWire
<1>5. idle = CancelReconnect(closed)
  BY <1>2 DEF ArmReconnect, CancelReconnect, Printers
<1> HIDE DEF idle
<1>6. quiet \in Printers
  BY <1>4 DEF Printers
<1>7. SameWire(idle, quiet) /\ quiet.rx = idle.rx
  BY <1>4 DEF Printers, SameWire
<1>8. Reset(p) = ResetCommandQueue(quiet)
  BY <1>5 DEF Reset, quiet, closed, io
<1> HIDE DEF quiet
<1>9. /\ SameWire(quiet, ResetCommandQueue(quiet))
      /\ SamePort(quiet, ResetCommandQueue(quiet))
  BY <1>6, ResetCommandQueueLemma, ResetCommandQueueWire
<1> QED
  BY <1>3, <1>4, <1>7, <1>8, <1>9 DEF SameWire, SamePort

LEMMA HandleResendWire ==
  ASSUME NEW p \in Printers, NEW line
  PROVE  SameWire(p, HandleResend(p, line))
<1> DEFINE at == {i \in DOMAIN p.history : p.history[i].line = line}
           start == CHOOSE i \in at : \A j \in at : i <= j
           again == ResendLines(p.history, start)
           q == [p EXCEPT !.queue = again \o @,
                          !.history = SubSeq(@, 1, start - 1),
                          !.lineNo = line]
<1>1. \/ HandleResend(p, line) = p
      \/ HandleResend(p, line) = RaiseError(p)
      \/ HandleResend(p, line) = q
  BY DEF HandleResend
<1>2. SameWire(p, p) /\ SameWire(p, q)
  BY DEF SameWire, Printers
<1> QED
  BY <1>1, <1>2, RaiseErrorWire

LEMMA AnswerWire ==
  ASSUME NEW p \in Printers
  PROVE  SameWire(p, Answer(p))
<1> DEFINE cb == Head(p.queue).cb
           q == SetState(p, "Connected")
           r == ShowStartupMessage(q)
           info == GetTemperature(r)
           called ==
             CASE cb = "info" -> info
               [] cb = "temp" -> [p EXCEPT !.tempTimer = TRUE]
               [] cb = "client" -> [p EXCEPT !.replies = @ + 1]
               [] cb = "job" -> LinesProcessed(p, 1)
               [] cb = "stale" -> [p EXCEPT !.halted = TRUE]
               [] OTHER -> p
           Called(s) == s \in Printers /\ SameWire(p, s)
<1>1. Called(info)
  <2>1. q \in Printers /\ SameWire(p, q)
    BY SetStateLemma, SetStateWire DEF States
  <2> HIDE DEF q
  <2>2. r \in Printers /\ SameWire(q, r)
    BY <2>1, ShowStartupMessageLemma, SendCommandWire DEF ShowStartupMessage
  <2> HIDE DEF r
  <2>3. info \in Printers /\ SameWire(r, info)
    BY <2>2, GetTemperatureLemma, GetTemperatureWire
  <2> QED
    BY <2>1, <2>2, <2>3 DEF SameWire
<1>2. /\ Called([p EXCEPT !.tempTimer = TRUE])
      /\ Called([p EXCEPT !.replies = @ + 1])
      /\ Called([p EXCEPT !.halted = TRUE]) /\ Called(p)
  <2>1. p.replies + 1 \in Nat
    BY DEF Printers
  <2> QED
    BY <2>1 DEF Printers, SameWire
<1>3. Called(LinesProcessed(p, 1))
  BY LinesProcessedLemma, LinesProcessedWire
<1>4. Answer(p) = IF p.queue = << >> THEN p
                  ELSE [called EXCEPT !.queue = Tail(@)]
  BY DEF Answer
<1> HIDE DEF Called, info, cb
<1>5. Called(called)
  BY <1>1, <1>2, <1>3
<1> HIDE DEF called
<1> USE DEF Called
<1>6. SameWire(called, [called EXCEPT !.queue = Tail(@)])
  BY <1>5 DEF SameWire, Printers
<1> QED
  BY <1>4, <1>5, <1>6 DEF SameWire

(* A write on an open port puts one frame on the wire. *)
LEMMA TransmitSends ==
  ASSUME NEW p \in Printers, NEW frame \in Frames, Writable(p)
  PROVE  LET r == Transmit(p, frame)
         IN  /\ r.tx = Append(p.tx, frame) /\ r.executing = frame.text
             /\ r.wire = p.wire /\ r.device = p.device /\ r.quiet = 0
             /\ r.io = p.io
BY DEF Transmit, Printers

LEMMA DoWriteSends ==
  ASSUME NEW p \in Printers, Writable(p), MayWrite(p)
  PROVE  LET r == DoWrite(p)
         IN  \E frame \in Frames :
               /\ r.tx = Append(p.tx, frame) /\ r.executing = frame.text
               /\ r.wire = p.wire /\ r.device = p.device /\ r.quiet = 0
               /\ r.io = p.io
<1> DEFINE Sends(q, frame) ==
      /\ q \in Printers /\ frame \in Frames /\ Writable(q)
      /\ q.tx = p.tx /\ q.wire = p.wire /\ q.device = p.device
      /\ q.io = p.io
<1>1. ASSUME NEW q, NEW frame, Sends(q, frame), DoWrite(p) = Transmit(q, frame)
      PROVE  LET r == DoWrite(p)
             IN  \E f \in Frames :
                   /\ r.tx = Append(p.tx, f) /\ r.executing = f.text
                   /\ r.wire = p.wire /\ r.device = p.device /\ r.quiet = 0
                   /\ r.io = p.io
  BY <1>1, TransmitSends
<1>2. CASE NumbersUsedUp(p)
  <2> DEFINE q == [p EXCEPT !.lineNo = 0]
             frame == [n |-> NoLine, text |-> "M110"]
  <2>1. q \in Printers
    BY LineNumbers DEF Printers
  <2>2. frame \in Frames
    BY DEF Frames, NoLine, Texts, OwnTexts
  <2>3. DoWrite(p) = Transmit(q, frame)
    BY <1>2 DEF DoWrite, MayWrite
  <2>4. Sends(q, frame)
    BY <2>1, <2>2 DEF Writable, Printers
  <2> HIDE DEF q, frame, Sends
  <2> QED
    BY <1>1, <2>3, <2>4
<1>3. CASE ~NumbersUsedUp(p)
  <2> DEFINE text == Head(p.queue).text
             numbered == UsesLineNumber(text)
             mode == CommandEffects(p.mode, text)
             lineNo == IF numbered THEN p.lineNo + 1 ELSE p.lineNo
             history == IF numbered
                          THEN Remember(p.history, [line |-> p.lineNo, text |-> text])
                          ELSE p.history
             q == [p EXCEPT !.mode = mode, !.lineNo = lineNo,
                            !.history = history]
             frame == [n |-> IF numbered THEN p.lineNo ELSE NoLine,
                       text |-> text]
  <2>1. /\ p.lineNo \in 0..MaxLineNo /\ p.lineNo < MaxLineNo
        /\ p.history \in Seq(Sent) /\ p.mode \in Modes
        /\ p.queue \in Seq(Commands) /\ p.queue # << >>
    BY <1>3, LimitAssumption DEF Printers, NumbersUsedUp, MayWrite
  <2>2. Head(p.queue) \in Commands
    BY <2>1
  <2>3. text \in Texts
    BY <2>2 DEF Commands
  <2>4. DoWrite(p) = Transmit(q, frame)
    BY <1>3 DEF DoWrite, MayWrite
  <2>5. frame \in Frames /\ lineNo \in 0..MaxLineNo
    BY <2>1, <2>3, LimitAssumption DEF Frames, NoLine
  <2>6. [line |-> p.lineNo, text |-> text] \in Sent
    BY <2>1, <2>3, LimitAssumption DEF Sent
  <2>7. history \in Seq(Sent) /\ mode \in Modes
    BY <2>1, <2>6, RememberType, CommandEffectsType
  <2> HIDE DEF frame, lineNo, history, mode, text
  <2>8. q \in Printers
    BY <2>5, <2>7 DEF Printers
  <2>9. Sends(q, frame)
    BY <2>5, <2>8 DEF Writable, Printers
  <2> HIDE DEF q, Sends
  <2> QED
    BY <1>1, <2>4, <2>9
<1> QED
  BY <1>2, <1>3

-----------------------------------------------------------------------------
(***************************************************************************)
(* Lone: one frame or one confirmation is under way at most, and none      *)
(* while no command is in flight.  Open adds what keeps it so on an open   *)
(* port, with the handlers of kinds X counted as if they were still ready: *)
(* what has been read is being handled, no failure is on its way, and no   *)
(* time has passed since the last sign of the printer unless the link is   *)
(* silent.  Fresh is the printer that has never been started.              *)
(***************************************************************************)
Silent(p) == p.tx = << >> /\ ~HasOk(p.wire) /\ ~HasOk(p.rx)

Lone(p) ==
  /\ p.executing = NoCommand => Silent(p)
  /\ Len(p.tx) <= 1
  /\ p.tx # << >> => ~HasOk(p.wire) /\ ~HasOk(p.rx)
  /\ ~(HasOk(p.wire) /\ HasOk(p.rx))
  /\ OneOk(p.wire) /\ OneOk(p.rx)

Failures == {"readErr", "writeErr"}

(* What a printer says that does not restart. *)
Running == {line \in Lines : line.t # "start"}

Open(p, X) ==
  /\ p.path = "serial" /\ p.device = "present" /\ p.port = "open"
  /\ Waiting(p.io) \cap Failures = {}
  /\ p.rx # << >> => "readOk" \in Waiting(p.io) \cup X
  /\ p.quiet > 0 => p.tx = << >> /\ p.wire = << >> /\ p.rx = << >>
  /\ p.wire \in Seq(Running) /\ p.rx \in Seq(Running)
  /\ Lone(p)

Fresh(p) ==
  /\ p.state = "Stopped" /\ p.path = "serial" /\ p.device = "present"
  /\ p.port = "closed" /\ p.io = << >> /\ p.queue = << >>
  /\ p.executing = NoCommand /\ p.reads = 0 /\ ~p.connecting
  /\ p.tx = << >> /\ p.wire = << >> /\ p.rx = << >>
  /\ p.reconnectTimer = "idle" /\ p.timeoutTimer = "idle" /\ ~p.tempTimer
  /\ p.job.st \notin {"Running", "Paused"} /\ ~p.job.ended

LEMMA LoneOneInFlight ==
  ASSUME printer \in Printers, Lone(printer)
  PROVE  OneInFlight
<1> DEFINE p == printer
<1>1. /\ p.wire \in Seq(Lines) /\ p.rx \in Seq(Lines) /\ p.tx \in Seq(Frames)
      /\ Len(p.tx) \in Nat
  BY DEF Printers
<1>2. /\ ~HasOk(p.wire) => Confirmations(p.wire) = 0
      /\ HasOk(p.wire) => Confirmations(p.wire) = 1
      /\ ~HasOk(p.rx) => Confirmations(p.rx) = 0
      /\ HasOk(p.rx) => Confirmations(p.rx) = 1
  BY <1>1, ConfirmationsAre DEF Lone
<1>3. p.tx = << >> => Len(p.tx) = 0
  OBVIOUS
<1> QED
  BY <1>1, <1>2, <1>3 DEF Lone, Silent, OneInFlight, UnderWay

(* A method that leaves the port and the wire alone. *)
Undisturbed(p, q) ==
  /\ q.path = p.path /\ q.port = p.port /\ q.rx = p.rx
  /\ SameWire(p, q) /\ q.executing = p.executing
  /\ "readOk" \in Waiting(p.io) => "readOk" \in Waiting(q.io)
  /\ Waiting(q.io) \cap Failures \subseteq Waiting(p.io)

LEMMA UndisturbedOpen ==
  ASSUME NEW p, NEW q, NEW X, Undisturbed(p, q), Open(p, X)
  PROVE  Open(q, X)
BY DEF Undisturbed, Open, SameWire, Lone, Silent

LEMMA FrameUndisturbed ==
  ASSUME NEW p, NEW q, NEW K, K \cap Failures = {},
         SamePort(p, q), SameWire(p, q), q.executing = p.executing,
         Adds(p, q, K)
  PROVE  Undisturbed(p, q)
BY DEF SamePort, Adds, Undisturbed

LEMMA DoWriteOpen ==
  ASSUME NEW p \in Printers, NEW X, Open(p, X)
  PROVE  Open(DoWrite(p), X)
<1>1. CASE ~MayWrite(p)
  BY <1>1 DEF DoWrite
<1>2. CASE MayWrite(p)
  <2> DEFINE r == DoWrite(p)
  <2>1. Writable(p) /\ p.executing = NoCommand
    BY <1>2 DEF Open, Writable, MayWrite
  <2>2. PICK frame \in Frames :
          /\ r.tx = Append(p.tx, frame) /\ r.executing = frame.text
          /\ r.wire = p.wire /\ r.device = p.device /\ r.quiet = 0
          /\ r.io = p.io
    BY <1>2, <2>1, DoWriteSends
  <2>3. SamePort(p, r)
    BY DoWriteLemma
  <2>4. r.executing # NoCommand
    BY <2>2, TextAssumption DEF Frames
  <2> HIDE DEF r
  <2>5. p.tx = << >> /\ ~HasOk(p.wire) /\ ~HasOk(p.rx)
    BY <2>1 DEF Open, Lone, Silent
  <2>6. Len(r.tx) <= 1
    BY <2>2, <2>5
  <2> QED
    BY <2>2, <2>3, <2>4, <2>5, <2>6 DEF Open, Lone, SamePort, r
<1> QED
  BY <1>1, <1>2

LEMMA SendOpen ==
  ASSUME NEW p \in Printers, NEW cmd \in Commands, NEW X, Open(p, X)
  PROVE  Open(Send(p, cmd), X)
<1> DEFINE q == [p EXCEPT !.queue = Append(@, cmd)]
<1>1. q \in Printers
  <2>1. Append(p.queue, cmd) \in Seq(Commands)
    BY DEF Printers
  <2> QED
    BY <2>1 DEF Printers
<1>2. Undisturbed(p, q)
  BY DEF Undisturbed, SameWire, Printers
<1>3. Send(p, cmd) = DoWrite(q)
  BY DEF Send
<1> HIDE DEF q
<1> QED
  BY <1>1, <1>2, <1>3, UndisturbedOpen, DoWriteOpen

LEMMA DoReadOpen ==
  ASSUME NEW p \in Printers, NEW X, Open(p, X)
  PROVE  Open(DoRead(p), {})
<1>1. /\ SameWire(p, DoRead(p)) /\ DoRead(p).rx = p.rx
      /\ DoRead(p).path = p.path /\ DoRead(p).port = p.port
      /\ SameQueue(p, DoRead(p))
  BY DoReadWire, DoReadLemma
<1>2. CASE p.rx # << >>
  <2>1. /\ Adds(p, DoRead(p), {"readOk"}) /\ Ready(DoRead(p), "readOk")
    BY <1>2, PostLemma DEF DoRead, Completions
  <2> QED
    BY <1>1, <1>2, <2>1
       DEF Open, Lone, Silent, SameWire, SameQueue, Adds, Ready, Failures
<1>3. CASE p.rx = << >>
  <2>1. DoRead(p).io = p.io
    BY <1>3 DEF DoRead, Readable, Open, Printers
  <2> QED
    BY <1>1, <1>3, <2>1 DEF Open, Lone, Silent, SameWire, SameQueue
<1> QED
  BY <1>2, <1>3

LEMMA NextCommandOpen ==
  ASSUME NEW p \in Printers, NEW X, Open(p, X), Silent(p)
  PROVE  Open(NextCommand(p), {})
<1> DEFINE s == [p EXCEPT !.resend = NoLine, !.executing = NoCommand]
           w == DoWrite(s)
<1>1. s \in Printers
  <2>1. NoLine \in Int
    BY DEF NoLine
  <2> QED
    BY <2>1 DEF Printers
<1>2. Open(s, X)
  BY DEF Open, Lone, Silent, Printers
<1>3. NextCommand(p) = DoRead(w)
  BY DEF NextCommand
<1> HIDE DEF s
<1>4. w \in Printers /\ Open(w, X)
  BY <1>1, <1>2, DoWriteLemma, DoWriteOpen
<1> HIDE DEF w
<1> QED
  BY <1>3, <1>4, DoReadOpen

-----------------------------------------------------------------------------
(* The connection. *)

LEMMA SetStateUndisturbed ==
  ASSUME NEW p \in Printers, NEW s \in States
  PROVE  Undisturbed(p, SetState(p, s))
BY SetStateLemma, SetStateWire, FrameUndisturbed DEF Failures

LEMMA ArmReconnectUndisturbed ==
  ASSUME NEW p \in Printers, NEW what \in {"idle", "reconnect", "init"}
  PROVE  Undisturbed(p, ArmReconnect(p, what))
BY ArmReconnectLemma, ArmReconnectWire
   DEF Undisturbed, Adds, Failures, SameQueue

LEMMA ConnectedOpen ==
  ASSUME NEW p \in Printers, NEW X, Open(p, X)
  PROVE  Open(Connected(p), {})
<1> DEFINE q == SetState(p, "Initializing")
           r == DoRead(q)
           s == [r EXCEPT !.quiet = 0, !.timeoutTimer = "check"]
<1>1. q \in Printers /\ Open(q, X)
  BY SetStateLemma, SetStateUndisturbed, UndisturbedOpen DEF States
<1>2. q \in Printers
  BY <1>1
<1> HIDE DEF q
<1>3. r \in Printers /\ Open(r, {})
  BY <1>1, DoReadLemma, DoReadOpen
<1>4. Connected(p) = ArmReconnect(s, "init")
  BY <1>3 DEF Connected, SetupTimeoutCheck, s, r, q, Printers
<1> HIDE DEF r
<1>5. s \in Printers
  BY <1>3 DEF Printers
<1>6. Open(s, {})
  BY <1>3 DEF Open, Lone, Silent, Printers
<1> HIDE DEF s
<1> QED
  BY <1>4, <1>5, <1>6, ArmReconnectUndisturbed, UndisturbedOpen

LEMMA DoConnectOpen ==
  ASSUME NEW p \in Printers, NEW X, Open(p, X)
  PROVE  Open(DoConnect(p), X)
BY ArmReconnectUndisturbed, UndisturbedOpen
   DEF DoConnect, OpenSerial, SetupReconnect, Open

(* A connection that starts with nothing under way. *)
LEMMA ConnectOpens ==
  ASSUME NEW p \in Printers, p.state # "Stopped", p.path = "serial",
         p.device = "present", p.port = "closed",
         p.tx = << >>, p.wire = << >>, p.rx = << >>,
         Waiting(p.io) \cap Failures = {}
  PROVE  Open(DoConnect(p), {})
<1> DEFINE q == [p EXCEPT !.port = "open"]
<1>1. q \in Printers
  BY DEF Printers
<1>2. DoConnect(p) = Connected(q)
  BY DEF DoConnect, OpenSerial
<1>3. Open(q, {})
  <2>1. /\ q.path = "serial" /\ q.device = "present" /\ q.port = "open"
        /\ q.tx = << >> /\ q.wire = << >> /\ q.rx = << >>
        /\ q.io = p.io
    BY DEF Printers
  <2> HIDE DEF q
  <2>2. Len(q.tx) <= 1 /\ << >> \in Seq(Running)
    BY <2>1
  <2> QED
    BY <2>1, <2>2, NoOks DEF Open, Lone, Silent
<1> HIDE DEF q
<1> QED
  BY <1>1, <1>2, <1>3, ConnectedOpen

LEMMA ResetConnectOpen ==
  ASSUME NEW p \in Printers, p.state # "Stopped", NEW X, Open(p, X),
         ~p.connecting, p.tx = << >>, p.rx = << >>
  PROVE  Open(DoConnect(Reset(p)), {})
<1> DEFINE r == Reset(p)
<1>1. /\ r \in Printers /\ r.path = p.path /\ r.state = p.state
      /\ r.port = "closed" /\ Adds(p, r, {"init", "send"})
  BY ResetLemma
<1>2. /\ r.tx = << >> /\ r.wire = << >> /\ r.device = p.device
      /\ r.rx = << >>
  BY ResetWire
<1> HIDE DEF r
<1>3. Waiting(r.io) \cap Failures = {}
  BY <1>1 DEF Adds, Open, Failures
<1>4. Open(DoConnect(r), {})
  BY <1>1, <1>2, <1>3, ConnectOpens DEF Open
<1> QED
  BY <1>4 DEF r

LEMMA TimeoutCheckOpen ==
  ASSUME NEW p \in Printers, NEW X, Open(p, X), ~p.connecting, QuietLimit > 0
  PROVE  Open(TimeoutCheck(p), X) \/ Open(TimeoutCheck(p), {})
<1>1. CASE p.queue # << >> /\ p.quiet >= QuietLimit
  <2> DEFINE q == SetState(p, "Disconnected")
  <2>1. TimeoutCheck(p) = DoConnect(Reset(q))
    BY <1>1 DEF TimeoutCheck, LoseConnection
  <2>2. /\ q \in Printers /\ q.state = "Disconnected" /\ SamePort(p, q)
    BY SetStateLemma DEF States
  <2>3. Open(q, X)
    BY SetStateUndisturbed, UndisturbedOpen DEF States
  <2>4. SameWire(p, q)
    BY SetStateWire DEF States
  <2>5. p.quiet > 0
    BY <1>1, LimitAssumption DEF Printers
  <2>6. q.tx = << >> /\ q.rx = << >> /\ ~q.connecting
    BY <2>2, <2>4, <2>5 DEF Open, SameWire, SamePort
  <2> HIDE DEF q
  <2> QED
    BY <2>1, <2>2, <2>3, <2>6, ResetConnectOpen
<1>2. CASE ~(p.queue # << >> /\ p.quiet >= QuietLimit)
  <2>1. TimeoutCheck(p) = [p EXCEPT !.timeoutTimer = "check"]
    BY <1>2 DEF TimeoutCheck, SetupTimeoutCheck
  <2>2. Undisturbed(p, [p EXCEPT !.timeoutTimer = "check"])
    BY DEF Undisturbed, SameWire, Printers
  <2> QED
    BY <2>1, <2>2, UndisturbedOpen
<1> QED
  BY <1>1, <1>2

LEMMA TimerIdleUndisturbed ==
  ASSUME NEW p \in Printers
  PROVE  LET q == [p EXCEPT !.timeoutTimer = "idle"]
         IN  q \in Printers /\ Undisturbed(p, q)
BY DEF Undisturbed, SameWire, Printers

LEMMA ConnectDoneOpen ==
  ASSUME NEW p \in Printers, NEW X, Open(p, X), NEW ok \in BOOLEAN
  PROVE  Open(ConnectDone(p, ok), X) \/ Open(ConnectDone(p, ok), {})
<1> DEFINE q == [p EXCEPT !.timeoutTimer = "idle"]
<1>1. q \in Printers /\ Open(q, X)
  BY TimerIdleUndisturbed, UndisturbedOpen
<1>2. ConnectDone(p, ok) = IF ok THEN Connected(q) ELSE ArmReconnect(q, "reconnect")
  BY DEF ConnectDone, SetupReconnect
<1> HIDE DEF q
<1> QED
  BY <1>1, <1>2, ConnectedOpen, ArmReconnectUndisturbed, UndisturbedOpen

LEMMA ConnectTimeoutOpen ==
  ASSUME NEW p \in Printers, NEW X, Open(p, X)
  PROVE  Open(ConnectTimeout(p), X)
<1>1. ConnectTimeout(p) = ArmReconnect(p, "reconnect")
  BY DEF ConnectTimeout, SetupReconnect, Open
<1> QED
  BY <1>1, ArmReconnectUndisturbed, UndisturbedOpen

LEMMA InitializeOpen ==
  ASSUME NEW p \in Printers, NEW X, Open(p, X)
  PROVE  Open(Initialize(p), X)
<1> DEFINE q == SendCommand(p, "M110", "none")
           r == [q EXCEPT !.lineNo = 1]
           s == SendCommand(r, "M115", "info")
<1>1. /\ "M110" \in Texts /\ "M115" \in Texts
      /\ "none" \in Callbacks /\ "info" \in Callbacks
  BY DEF Texts, OwnTexts, Callbacks
<1>2. /\ q \in Printers /\ SamePort(p, q) /\ SameQueue(p, q)
      /\ Adds(p, q, {"send"}) /\ SameWire(p, q)
  BY <1>1, SendCommandLemma, SendCommandWire
<1>3. Initialize(p) = DoWrite(s)
  BY DEF Initialize
<1> HIDE DEF q
<1>4. /\ r \in Printers /\ SamePort(q, r) /\ SameQueue(q, r) /\ r.io = q.io
      /\ SameWire(q, r)
  <2>1. r \in Printers
    BY <1>2, LineNumbers DEF Printers
  <2> QED
    BY <1>2, <2>1 DEF Printers, SamePort, SameQueue, SameWire
<1> HIDE DEF r
<1>5. /\ s \in Printers /\ SamePort(r, s) /\ SameQueue(r, s)
      /\ Adds(r, s, {"send"}) /\ SameWire(r, s)
  BY <1>1, <1>4, SendCommandLemma, SendCommandWire
<1> HIDE DEF s
<1>6. Undisturbed(p, s)
  <2>1. SamePort(p, s) /\ SameWire(p, s) /\ s.executing = p.executing
        /\ Adds(p, s, {"send"})
    BY <1>2, <1>4, <1>5 DEF SamePort, SameQueue, SameWire, Adds
  <2> QED
    BY <2>1, FrameUndisturbed DEF Failures
<1> QED
  BY <1>3, <1>5, <1>6, UndisturbedOpen, DoWriteOpen

-----------------------------------------------------------------------------
(* What the printer says. *)

LEMMA ConfirmedOpen ==
  ASSUME NEW q \in Printers, NEW X, Open(q, X),
         q.tx = << >>, ~HasOk(q.wire)
  PROVE  Open(Confirmed(q), {})
<1> DEFINE p == [q EXCEPT !.rx = << >>]
           line == IF q.resend # NoLine THEN q.resend ELSE FirstResend(q.rx)
<1>1. p \in Printers
  <2>1. << >> \in Seq(Lines)
    OBVIOUS
  <2> QED
    BY <2>1 DEF Printers
<1>2. /\ p.path = q.path /\ p.port = q.port /\ p.rx = << >>
      /\ p.io = q.io /\ p.executing = q.executing /\ SameWire(q, p)
  BY DEF Printers, SameWire
<1>3. line \in Int
  BY FirstResendType DEF Printers
<1>4. Confirmed(q) =
        IF p.lineNo = 0 THEN NextCommand([p EXCEPT !.lineNo = 1])
        ELSE IF line # NoLine THEN NextCommand(HandleResend(p, line))
        ELSE IF p.pendingError THEN DoRead(RaiseError(p))
        ELSE NextCommand(Answer(p))
  BY DEF Confirmed
<1> HIDE DEF p, line
<1>5. Open(p, X) /\ Silent(p)
  <2>1. << >> \in Seq(Running)
    OBVIOUS
  <2> QED
    BY <1>2, <2>1, NoOks DEF Open, Lone, Silent, SameWire
<1>6. ASSUME NEW r \in Printers, Undisturbed(p, r)
      PROVE  Open(NextCommand(r), {})
  <2>1. Open(r, X) /\ Silent(r)
    BY <1>5, <1>6, UndisturbedOpen DEF Silent, Undisturbed, SameWire
  <2> QED
    BY <2>1, NextCommandOpen
<1>7. CASE p.lineNo = 0
  <2> DEFINE r == [p EXCEPT !.lineNo = 1]
  <2>1. r \in Printers
    BY <1>1, LineNumbers DEF Printers
  <2>2. Undisturbed(p, r)
    BY <1>1 DEF Printers, Undisturbed, SameWire
  <2>3. Confirmed(q) = NextCommand(r)
    BY <1>4, <1>7
  <2> HIDE DEF r
  <2> QED
    BY <1>6, <2>1, <2>2, <2>3
<1>8. CASE p.lineNo # 0 /\ line # NoLine
  <2>1. HandleResend(p, line) \in Printers /\ Undisturbed(p, HandleResend(p, line))
    BY <1>1, <1>3, <1>8, HandleResendLemma, HandleResendWire,
       FrameUndisturbed DEF Failures
  <2> QED
    BY <1>4, <1>6, <1>8, <2>1
<1>9. CASE p.lineNo # 0 /\ line = NoLine /\ p.pendingError
  <2>1. RaiseError(p) \in Printers /\ Undisturbed(p, RaiseError(p))
    BY <1>1, RaiseErrorLemma, RaiseErrorWire, FrameUndisturbed DEF Failures
  <2> QED
    BY <1>4, <1>5, <1>9, <2>1, UndisturbedOpen, DoReadOpen
<1>10. CASE p.lineNo # 0 /\ line = NoLine /\ ~p.pendingError
  <2>1. Answer(p) \in Printers /\ Undisturbed(p, Answer(p))
    BY <1>1, AnswerLemma, AnswerWire, FrameUndisturbed DEF Failures
  <2> QED
    BY <1>4, <1>6, <1>10, <2>1
<1> QED
  BY <1>7, <1>8, <1>9, <1>10

LEMMA ReadDoneOpen ==
  ASSUME NEW q \in Printers, Open(q, {"readOk"})
  PROVE  Open(ReadDone(q), {})
<1> DEFINE line == IF q.rx = << >> THEN [t |-> "other", n |-> NoLine]
                   ELSE Head(q.rx)
           rx == IF q.rx = << >> THEN q.rx ELSE Tail(q.rx)
           resend == IF q.resend = NoLine /\ line.t = "resend" THEN line.n
                     ELSE q.resend
           p == [q EXCEPT !.quiet = 0, !.rx = rx, !.resend = resend]
           r == [p EXCEPT !.pendingError = TRUE]
<1>1. q.rx \in Seq(Lines) /\ q.resend \in Int /\ q.rx \in Seq(Running)
  BY DEF Printers, Open
<1>2. line \in Lines /\ line.t # "start" /\ rx \in Seq(Lines)
      /\ rx \in Seq(Running)
  <2>1. [t |-> "other", n |-> NoLine] \in Lines
    BY DEF Lines, NoLine
  <2>2. q.rx # << >> =>
          /\ Head(q.rx) \in Running /\ Tail(q.rx) \in Seq(Lines)
          /\ Tail(q.rx) \in Seq(Running)
    BY <1>1
  <2> QED
    BY <1>1, <2>1, <2>2 DEF Running
<1>3. ReadDone(q) =
        CASE line.t = "ok" -> Confirmed(p)
          [] line.t # "ok" /\ p.executing \in HeatWait -> DoRead(p)
          [] line.t = "start" /\ p.executing \notin HeatWait ->
               DoRead(Restarted(p))
          [] line.t = "error" /\ p.executing \notin HeatWait -> DoRead(r)
          [] line.t \in {"resend", "other"} /\ p.executing \notin HeatWait ->
               DoRead(p)
  BY DEF ReadDone
<1>4. OneOk(rx) /\ (HasOk(rx) => HasOk(q.rx))
  BY <1>1, OksTail DEF Open, Lone
<1>5. line.t = "ok" => HasOk(q.rx)
  <2>1. q.rx # << >> => Head(q.rx) = q.rx[1] /\ 1 \in DOMAIN q.rx
    BY <1>1
  <2> QED
    BY <2>1 DEF HasOk
<1> HIDE DEF line, rx
<1>6. resend \in Int
  BY <1>1, <1>2 DEF Lines
<1> HIDE DEF resend
<1>7. p \in Printers
  BY <1>2, <1>6 DEF Printers
<1>8. /\ p.path = q.path /\ p.port = q.port /\ p.device = q.device
      /\ p.io = q.io /\ p.executing = q.executing /\ p.quiet = 0
      /\ p.tx = q.tx /\ p.wire = q.wire /\ p.rx = rx
  BY DEF Printers
<1>9. r \in Printers /\ Undisturbed(p, r)
  BY <1>7 DEF Printers, Undisturbed, SameWire
<1> HIDE DEF p
<1>10. Open(p, {"readOk"})
  BY <1>2, <1>4, <1>8 DEF Open, Lone, Silent
<1> HIDE DEF r
<1>11. line.t = "ok" => Open(Confirmed(p), {})
  <2>1. line.t = "ok" => p.tx = << >> /\ ~HasOk(p.wire)
    BY <1>5, <1>8 DEF Open, Lone
  <2> QED
    BY <1>7, <1>10, <2>1, ConfirmedOpen
<1>12. Open(DoRead(p), {})
  BY <1>7, <1>10, DoReadOpen
<1>13. Open(DoRead(r), {})
  BY <1>9, <1>10, UndisturbedOpen, DoReadOpen
<1>14. line.t \in {"ok", "resend", "error", "other"}
  BY <1>2 DEF Lines
<1> QED
  BY <1>2, <1>3, <1>11, <1>12, <1>13, <1>14

-----------------------------------------------------------------------------
(* What is no longer left of a budget does not happen, and does not return. *)

LEMMA Spent ==
  ASSUME left \in Budgets, NEW kind \in Kinds, Spend(kind),
         NEW k \in Kinds, left[k] = 0
  PROVE  kind # k /\ left'[k] = 0
<1>1. /\ left[kind] \in Nat /\ left[kind] > 0 /\ left["all"] \in Nat
  BY DEF Spend, Budgets
<1>2. left' = [left EXCEPT ![kind] = left[kind] - 1,
                           !["all"] = left["all"] - 1]
  BY DEF Spend, Kinds
<1>3. k # "all"
  BY DEF Kinds
<1> QED
  BY <1>1, <1>2, <1>3 DEF Budgets

LEMMA SpendsOne ==
  ASSUME [Next]_vars
  PROVE  left' = left \/ \E kind \in Kinds : Spend(kind)
<1>1. CASE RunIo
  BY <1>1 DEF RunIo, RunHandler, RunSend, RunReadDone, RunReadError,
     RunWriteError, RunConnected, RunConnectFailed, RunConnectTimeout,
     RunTimeoutCheck, RunReconnect, RunInitialize, RunGetTemperature
<1>2. CASE Timers
  BY <1>2 DEF Timers, ReconnectTimerExpires, CheckTimerExpires,
     PrinterStalls, ConnectTimerExpires, TemperatureTimerExpires, Kinds
<1>3. CASE Link
  BY <1>3 DEF Link, LinesArrive, ReadFails, Established, Refused, Replug,
     LoseFrame, Kinds
<1>4. CASE FirmwareStep
  BY <1>4 DEF FirmwareStep, FirmwareExecutes, FrameCorrupted,
     FirmwareOverconfirms, FirmwareFails, FirmwareReboots, Kinds
<1>5. CASE Requests
  BY <1>5 DEF Requests, Request, StartPrinter, StopPrinter, ChangeSettings,
     ChangePath, SubmitGcode, SetTemperature, SubmitJob, ResumeJob, PauseJob,
     CancelJob, ResetRequest, Kinds
<1>6. CASE UNCHANGED vars
  BY <1>6 DEF vars
<1> QED
  BY <1>1, <1>2, <1>3, <1>4, <1>5, <1>6 DEF Next

LEMMA NothingLeft ==
  ASSUME left \in Budgets, [Next]_vars, NEW k \in Kinds, left[k] = 0
  PROVE  left'[k] = 0 /\ ~Spend(k)
<1>1. ~Spend(k)
  BY Spent
<1>2. left'[k] = 0
  BY SpendsOne, Spent
<1> QED
  BY <1>1, <1>2

(***************************************************************************)
(* The regime of a printer that confirms each frame once on a serial line  *)
(* that stays connected.  Frames may be damaged or lost, commands may      *)
(* fail, and requests of all kinds may come, but for those that close the  *)
(* port.                                                                   *)
(***************************************************************************)
Disorders ==
  {"doubleOk", "reboot", "stall", "plug", "stop", "settings", "path"}

Orderly ==
  /\ InitPath = "serial" /\ QuietLimit > 0
  /\ \A k \in Disorders : Budget[k] = 0

NoDisorder == \A k \in Disorders : left[k] = 0

LEMMA NoDisorderStays ==
  ASSUME left \in Budgets, [Next]_vars, NoDisorder
  PROVE  /\ NoDisorder'
         /\ ~FirmwareOverconfirms /\ ~FirmwareReboots /\ ~PrinterStalls
         /\ ~Replug /\ ~StopPrinter /\ ~ChangeSettings /\ ~ChangePath
<1>1. Disorders \subseteq Kinds
  BY DEF Disorders, Kinds
<1>2. \A k \in Disorders : left'[k] = 0 /\ ~Spend(k)
  BY <1>1, NothingLeft DEF NoDisorder
<1> QED
  BY <1>2 DEF NoDisorder, Disorders, FirmwareOverconfirms, FirmwareReboots,
     PrinterStalls, Replug, StopPrinter, ChangeSettings, ChangePath, Request

-----------------------------------------------------------------------------
(* The handlers. *)

LEMMA TakenOpen ==
  ASSUME TypeOK, NEW h, Due(h), Open(printer, {})
  PROVE  /\ Taken \in Printers /\ Open(Taken, {h}) /\ h \notin Failures
         /\ h # "readOk" => Open(Taken, {})
<1>1. /\ Taken \in Printers
      /\ h \in Waiting(printer.io)
      /\ Waiting(printer.io) = Waiting(Taken.io) \cup {h}
      /\ SameQueue(printer, Taken)
  BY TakenLemma
<1>2. /\ Taken.path = printer.path /\ Taken.port = printer.port
      /\ Taken.rx = printer.rx /\ SameWire(printer, Taken)
  BY DEF Taken, TypeOK, Printers, SameWire
<1> HIDE DEF Taken
<1>3. h \notin Failures
  BY <1>1 DEF Open
<1>4. Open(Taken, {h})
  BY <1>1, <1>2 DEF Open, Lone, Silent, SameQueue, SameWire
<1>5. h # "readOk" => Open(Taken, {})
  BY <1>4 DEF Open
<1> QED
  BY <1>1, <1>3, <1>4, <1>5

LEMMA RunIoOpen ==
  ASSUME TypeOK, Attended(printer, {}), Open(printer, {}), RunIo,
         QuietLimit > 0
  PROVE  Open(printer', {})
<1> DEFINE p == Taken
<1>1. ASSUME NEW h, NEW result, RunHandler(h, result)
      PROVE  /\ p \in Printers /\ Open(p, {h}) /\ h \notin Failures
             /\ h # "readOk" => Open(p, {})
             /\ p.connecting = FALSE /\ printer' = result
             /\ h = "send" => Head(printer.io).cmd \in Commands
  <2>1. TypeOK /\ Due(h) /\ printer' = result
    BY <1>1 DEF RunHandler
  <2>2. /\ p \in Printers /\ Open(p, {h}) /\ h \notin Failures
        /\ h # "readOk" => Open(p, {})
    BY <2>1, TakenOpen
  <2>3. p.connecting = FALSE
    BY <2>1 DEF Taken, TypeOK, Printers, Attended, Serial
  <2>4. Head(printer.io) \in Handlers
    BY <2>1, TakenLemma
  <2>5. h = "send" => Head(printer.io).cmd \in Commands
    BY <2>1, <2>4 DEF Due, Handlers, Completions
  <2> QED
    BY <2>1, <2>2, <2>3, <2>5
<1> HIDE DEF p
<1>0. \A h \in {"send", "connectOk", "connectErr", "connTimeout", "check",
               "reconnect", "init", "temp"} : h # "readOk"
  OBVIOUS
<1>2. CASE RunSend
  <2>0. RunHandler("send", Send(p, Head(printer.io).cmd))
    BY <1>2 DEF RunSend, p
  <2>1. /\ p \in Printers /\ Open(p, {})
        /\ Head(printer.io).cmd \in Commands
        /\ printer' = Send(p, Head(printer.io).cmd)
    BY <1>0, <1>1, <2>0
  <2> QED
    BY <2>1, SendOpen
<1>3. CASE RunReadDone
  <2>0. RunHandler("readOk", ReadDone(p))
    BY <1>3 DEF RunReadDone, p
  <2>1. /\ p \in Printers /\ Open(p, {"readOk"})
        /\ printer' = ReadDone(p)
    BY <1>0, <1>1, <2>0
  <2> QED
    BY <2>1, ReadDoneOpen
<1>4. CASE RunReadError \/ RunWriteError
  BY <1>1, <1>4 DEF RunReadError, RunWriteError, Failures
<1>5. CASE RunConnected \/ RunConnectFailed
  <2>0. \/ RunHandler("connectOk", ConnectDone(p, TRUE))
        \/ RunHandler("connectErr", ConnectDone(p, FALSE))
    BY <1>5 DEF RunConnected, RunConnectFailed, p
  <2>1. PICK ok \in BOOLEAN :
          p \in Printers /\ Open(p, {}) /\ printer' = ConnectDone(p, ok)
    BY <1>0, <1>1, <2>0
  <2> QED
    BY <2>1, ConnectDoneOpen
<1>6. CASE RunConnectTimeout
  <2>0. RunHandler("connTimeout", ConnectTimeout(p))
    BY <1>6 DEF RunConnectTimeout, p
  <2>1. /\ p \in Printers /\ Open(p, {})
        /\ printer' = ConnectTimeout(p)
    BY <1>0, <1>1, <2>0
  <2> QED
    BY <2>1, ConnectTimeoutOpen
<1>7. CASE RunTimeoutCheck
  <2>0. RunHandler("check", TimeoutCheck(p))
    BY <1>7 DEF RunTimeoutCheck, p
  <2>1. /\ p \in Printers /\ Open(p, {})
        /\ p.connecting = FALSE
        /\ printer' = TimeoutCheck(p)
    BY <1>0, <1>1, <2>0
  <2> QED
    BY <2>1, TimeoutCheckOpen
<1>8. CASE RunReconnect
  <2>0. RunHandler("reconnect", DoConnect(p))
    BY <1>8 DEF RunReconnect, p
  <2>1. /\ p \in Printers /\ Open(p, {})
        /\ printer' = DoConnect(p)
    BY <1>0, <1>1, <2>0
  <2> QED
    BY <2>1, DoConnectOpen
<1>9. CASE RunInitialize
  <2>0. RunHandler("init", Initialize(p))
    BY <1>9 DEF RunInitialize, p
  <2>1. /\ p \in Printers /\ Open(p, {})
        /\ printer' = Initialize(p)
    BY <1>0, <1>1, <2>0
  <2> QED
    BY <2>1, InitializeOpen
<1>10. CASE RunGetTemperature
  <2>0. RunHandler("temp", GetTemperature(p))
    BY <1>10 DEF RunGetTemperature, p
  <2>1. p \in Printers /\ Open(p, {}) /\ printer' = GetTemperature(p)
    BY <1>0, <1>1, <2>0
  <2>2. Undisturbed(p, GetTemperature(p))
    BY <2>1, GetTemperatureLemma, GetTemperatureWire, FrameUndisturbed
       DEF SameQueue, Failures
  <2> QED
    BY <2>1, <2>2, UndisturbedOpen
<1> QED
  BY <1>2, <1>3, <1>4, <1>5, <1>6, <1>7, <1>8, <1>9, <1>10 DEF RunIo

-----------------------------------------------------------------------------
(* Timers, the link and the firmware. *)

LEMMA PostUndisturbed ==
  ASSUME NEW p \in Printers, NEW h \in Completions \ Failures
  PROVE  /\ Post(p, h) \in Printers /\ Undisturbed(p, Post(p, h))
         /\ Ready(Post(p, h), h)
         /\ Waiting(Post(p, h).io) \cap Failures \subseteq Waiting(p.io)
<1>1. /\ Post(p, h) \in Printers /\ SamePort(p, Post(p, h))
      /\ SameQueue(p, Post(p, h)) /\ Adds(p, Post(p, h), {h})
      /\ Ready(Post(p, h), h)
  BY PostLemma
<1>2. SameWire(p, Post(p, h))
  BY PostWire
<1> QED
  BY <1>1, <1>2 DEF Undisturbed, SamePort, SameQueue, Adds

LEMMA TimersOpen ==
  ASSUME TypeOK, Attended(printer, {}), Open(printer, {}), Timers,
         ~PrinterStalls
  PROVE  Open(printer', {})
<1> DEFINE p == printer
<1>0. p \in Printers
  BY DEF TypeOK
<1>1. CASE ReconnectTimerExpires
  <2> DEFINE h == p.reconnectTimer
             q == Post(p, h)
  <2>1. h \in Completions \ Failures
    BY <1>0, <1>1 DEF ReconnectTimerExpires, Printers, Completions, Failures
  <2>2. q \in Printers /\ Open(q, {})
    BY <1>0, <2>1, PostUndisturbed, UndisturbedOpen
  <2>3. printer' = [q EXCEPT !.reconnectTimer = "idle"]
    BY <1>1 DEF ReconnectTimerExpires
  <2> HIDE DEF q
  <2> QED
    BY <2>2, <2>3 DEF Printers, Open, Lone, Silent
<1>2. CASE CheckTimerExpires
  <2> DEFINE q == Post(p, "check")
             quiet == IF InTransit \/ q.quiet = QuietLimit THEN q.quiet
                      ELSE q.quiet + 1
  <2>1. q \in Printers /\ Open(q, {})
    BY <1>0, PostUndisturbed, UndisturbedOpen DEF Completions, Failures
  <2>2. printer' = [q EXCEPT !.timeoutTimer = "idle", !.quiet = quiet]
    BY <1>2 DEF CheckTimerExpires
  <2>3. quiet > 0 => q.quiet > 0 \/ ~InTransit
    OBVIOUS
  <2>4. SameWire(p, q) /\ q.rx = p.rx
    BY <1>0, PostWire, PostLemma DEF SamePort, Completions
  <2> HIDE DEF q, quiet
  <2>5. /\ printer'.path = q.path /\ printer'.port = q.port
        /\ printer'.device = q.device /\ printer'.io = q.io
        /\ printer'.rx = q.rx /\ printer'.wire = q.wire
        /\ printer'.tx = q.tx /\ printer'.executing = q.executing
        /\ printer'.quiet = quiet
    BY <2>1, <2>2 DEF Printers
  <2>6. ~InTransit => q.tx = << >> /\ q.wire = << >> /\ q.rx = << >>
    BY <2>4 DEF InTransit, Ready, Open, SameWire
  <2> QED
    BY <2>1, <2>3, <2>5, <2>6 DEF Open, Lone, Silent
<1>3. CASE ConnectTimerExpires
  BY <1>3 DEF ConnectTimerExpires, Attended, Serial
<1>4. CASE TemperatureTimerExpires
  <2> DEFINE q == Post(p, "temp")
  <2>1. q \in Printers /\ Open(q, {})
    BY <1>0, PostUndisturbed, UndisturbedOpen DEF Completions, Failures
  <2>2. printer' = [q EXCEPT !.tempTimer = FALSE]
    BY <1>4 DEF TemperatureTimerExpires
  <2> HIDE DEF q
  <2> QED
    BY <2>1, <2>2 DEF Printers, Open, Lone, Silent
<1> QED
  BY <1>1, <1>2, <1>3, <1>4 DEF Timers

(* Lines that are read move from the wire to the buffer. *)
LEMMA LinesArriveOpen ==
  ASSUME TypeOK, Open(printer, {}), LinesArrive
  PROVE  Open(printer', {})
<1> DEFINE p == printer
           q == Post(p, "readOk")
<1>0. p \in Printers
  BY DEF TypeOK
<1>1. PICK k \in 1..Len(p.wire) :
        printer' = [q EXCEPT !.reads = @ - 1,
                             !.rx = @ \o SubSeq(p.wire, 1, k),
                             !.wire = SubSeq(@, k + 1, Len(@))]
  BY DEF LinesArrive
<1>2. /\ q \in Printers /\ Open(q, {}) /\ Ready(q, "readOk")
      /\ q.wire = p.wire
  <2>1. "readOk" \in Completions \ Failures
    BY DEF Completions, Failures
  <2>2. q \in Printers /\ Undisturbed(p, q) /\ Ready(q, "readOk")
    BY <1>0, <2>1, PostUndisturbed
  <2> HIDE DEF q
  <2>3. Open(q, {})
    BY <2>2, UndisturbedOpen
  <2>4. q.wire = p.wire
    BY <2>2 DEF Undisturbed, SameWire
  <2> QED
    BY <2>2, <2>3, <2>4
<1> HIDE DEF q
<1> DEFINE first == SubSeq(q.wire, 1, k)
           last == SubSeq(q.wire, k + 1, Len(q.wire))
<1>3. /\ q.wire \in Seq(Lines) /\ q.rx \in Seq(Lines)
      /\ q.wire \in Seq(Running) /\ q.rx \in Seq(Running)
      /\ k \in 1..Len(q.wire) /\ OneOk(q.wire)
  BY <1>1, <1>2 DEF Printers, Open, Lone
<1>4. /\ first \in Seq(Lines) /\ last \in Seq(Lines)
      /\ OneOk(first) /\ OneOk(last)
      /\ HasOk(first) => HasOk(q.wire)
      /\ HasOk(last) => HasOk(q.wire)
      /\ ~(HasOk(first) /\ HasOk(last))
  BY <1>3, OksSplit
<1>5. first \in Seq(Running) /\ last \in Seq(Running)
  BY <1>3
<1>6. /\ printer'.path = q.path /\ printer'.port = q.port
      /\ printer'.device = q.device /\ printer'.io = q.io
      /\ printer'.rx = q.rx \o first /\ printer'.wire = last
      /\ printer'.tx = q.tx /\ printer'.executing = q.executing
      /\ printer'.quiet = q.quiet
  BY <1>1, <1>2 DEF Printers
<1>7. q.wire # << >>
  BY <1>3
<1> HIDE DEF first, last
<1>8. q.rx \o first \in Seq(Running)
  BY <1>3, <1>5
<1>9. /\ HasOk(q.rx \o first) <=> HasOk(q.rx) \/ HasOk(first)
      /\ OneOk(q.rx) /\ OneOk(first) /\ ~(HasOk(q.rx) /\ HasOk(first)) =>
           OneOk(q.rx \o first)
  BY <1>3, <1>4, OksConcat
<1> QED
  BY <1>2, <1>4, <1>5, <1>6, <1>7, <1>8, <1>9
     DEF Open, Lone, Silent, Ready

LEMMA LinkOpen ==
  ASSUME TypeOK, Open(printer, {}), Link, ~Replug
  PROVE  Open(printer', {})
<1> DEFINE p == printer
<1>0. p \in Printers
  BY DEF TypeOK
<1>1. CASE ReadFails
  BY <1>1 DEF ReadFails, Open
<1>2. CASE Established \/ Refused
  BY <1>2 DEF Established, Refused, Open
<1>3. CASE LoseFrame
  <2>1. p.tx # << >> /\ printer' = [p EXCEPT !.tx = Tail(p.tx)]
    BY <1>3 DEF LoseFrame
  <2>2. Tail(p.tx) = << >>
    <3>1. p.tx \in Seq(Frames) /\ Len(p.tx) <= 1
      BY <1>0 DEF Printers, Open, Lone
    <3> QED
      BY <2>1, <3>1
  <2>3. /\ printer'.path = p.path /\ printer'.port = p.port
        /\ printer'.device = p.device /\ printer'.io = p.io
        /\ printer'.rx = p.rx /\ printer'.wire = p.wire
        /\ printer'.tx = << >> /\ printer'.executing = p.executing
        /\ printer'.quiet = p.quiet
    BY <1>0, <2>1, <2>2 DEF Printers
  <2>4. Len(printer'.tx) <= 1
    BY <2>3
  <2> QED
    BY <2>1, <2>3, <2>4 DEF Open, Lone, Silent
<1> QED
  BY <1>1, <1>2, <1>3, LinesArriveOpen DEF Link

(* The firmware answers the one frame with lines that hold one ok. *)
LEMMA AnswersRunning ==
  /\ \A frame \in Frames : /\ Acknowledgement(frame) \in Seq(Running)
                           /\ OneOk(Acknowledgement(frame))
  /\ \A f \in Firmwares : Refusal(f) \in Seq(Running) /\ OneOk(Refusal(f))
  /\ << Line("ok") >> \in Seq(Running) /\ OneOk(<< Line("ok") >>)
  /\ << Line("error"), Line("ok") >> \in Seq(Running)
  /\ OneOk(<< Line("error"), Line("ok") >>)
<1> DEFINE ok == Line("ok")
           error == Line("error")
           other == Line("other")
<1>1. /\ ok \in Running /\ error \in Running /\ other \in Running
      /\ ok.t = "ok" /\ error.t = "error" /\ other.t = "other"
  BY LineType DEF Running, Line
<1> HIDE DEF ok, error, other
<1>2. ASSUME NEW a \in Seq(Running), ~HasOk(a),
             NEW b \in Seq(Running), OneOk(b)
      PROVE  a \o b \in Seq(Running) /\ OneOk(a \o b)
  <2>1. a \in Seq(Lines) /\ b \in Seq(Lines) /\ OneOk(a)
    BY <1>2 DEF Running, HasOk, OneOk
  <2> QED
    BY <1>2, <2>1, OksConcat, ConcatProperties
<1>3. /\ << ok >> \in Seq(Running) /\ OneOk(<< ok >>)
      /\ << error >> \in Seq(Running) /\ ~HasOk(<< error >>)
      /\ << other >> \in Seq(Running) /\ ~HasOk(<< other >>)
      /\ << >> \in Seq(Running) /\ ~HasOk(<< >>)
  BY <1>1 DEF OneOk, HasOk
<1>4. ASSUME NEW frame \in Frames
      PROVE  /\ Acknowledgement(frame) \in Seq(Running)
             /\ OneOk(Acknowledgement(frame))
  BY <1>2, <1>3 DEF Acknowledgement, ok, other
<1>5. ASSUME NEW f \in Firmwares
      PROVE  Refusal(f) \in Seq(Running) /\ OneOk(Refusal(f))
  <2> DEFINE again == [t |-> "resend", n |-> f.last + 1]
  <2>1. again \in Running /\ again.t = "resend"
    BY DEF Firmwares, Lines, Running
  <2>2. Refusal(f) = (IF ReportErrors THEN << error >> ELSE << >>)
                       \o << again, ok >>
    BY DEF Refusal, ok, error
  <2> HIDE DEF again
  <2>3. << again, ok >> \in Seq(Running) /\ OneOk(<< again, ok >>)
    BY <1>1, <2>1 DEF OneOk
  <2> QED
    BY <1>2, <1>3, <2>2, <2>3
<1>6. << error, ok >> \in Seq(Running) /\ OneOk(<< error, ok >>)
  BY <1>1 DEF OneOk
<1> QED
  BY <1>3, <1>4, <1>5, <1>6 DEF ok, error

LEMMA TakeFrameOpen ==
  ASSUME TypeOK, Open(printer, {}), printer.tx # << >>,
         NEW lines \in Seq(Running), OneOk(lines), TakeFrame(lines)
  PROVE  Open(printer', {})
<1> DEFINE p == printer
<1>0. p \in Printers /\ p.tx \in Seq(Frames) /\ Len(p.tx) <= 1
      /\ p.wire \in Seq(Lines) /\ p.wire \in Seq(Running)
  BY DEF TypeOK, Printers, Open, Lone
<1>1. Tail(p.tx) = << >>
  BY <1>0
<1>2. printer' = [p EXCEPT !.wire = p.wire \o lines, !.tx = << >>]
  <2>1. Writable(p)
    BY DEF Writable, Open
  <2>2. printer' = [[p EXCEPT !.wire = p.wire \o lines] EXCEPT !.tx = Tail(@)]
    BY <2>1 DEF TakeFrame, Reply
  <2> QED
    BY <1>0, <1>1, <2>2 DEF Printers
<1>3. /\ printer'.path = p.path /\ printer'.port = p.port
      /\ printer'.device = p.device /\ printer'.io = p.io
      /\ printer'.rx = p.rx /\ printer'.wire = p.wire \o lines
      /\ printer'.tx = << >> /\ printer'.executing = p.executing
      /\ printer'.quiet = p.quiet
  BY <1>0, <1>2 DEF Printers
<1>4. lines \in Seq(Lines) /\ p.wire \o lines \in Seq(Running)
  BY <1>0 DEF Running
<1>5. /\ HasOk(p.wire \o lines) <=> HasOk(p.wire) \/ HasOk(lines)
      /\ OneOk(p.wire) /\ OneOk(lines) /\ ~(HasOk(p.wire) /\ HasOk(lines)) =>
           OneOk(p.wire \o lines)
  BY <1>0, <1>4, OksConcat
<1>6. Len(printer'.tx) <= 1
  BY <1>3
<1> QED
  BY <1>3, <1>4, <1>5, <1>6 DEF Open, Lone, Silent

LEMMA FirmwareOpen ==
  ASSUME TypeOK, Open(printer, {}), FirmwareStep,
         ~FirmwareOverconfirms, ~FirmwareReboots
  PROVE  Open(printer', {})
<1> DEFINE frame == Head(printer.tx)
           Takes(lines) == /\ printer.tx # << >> /\ TakeFrame(lines)
                           /\ lines \in Seq(Running) /\ OneOk(lines)
<1>0. fw \in Firmwares /\ (printer.tx # << >> => frame \in Frames)
  BY DEF TypeOK, Printers
<1>1. ASSUME NEW lines, Takes(lines)
      PROVE  Open(printer', {})
  BY <1>1, TakeFrameOpen
<1>2. CASE FirmwareExecutes
  <2>1. printer.tx # << >> /\ (TakeFrame(Acknowledgement(frame)) \/ TakeFrame(Refusal(fw)))
    BY <1>2 DEF FirmwareExecutes
  <2>2. Takes(Acknowledgement(frame)) \/ Takes(Refusal(fw))
    BY <1>0, <2>1, AnswersRunning
  <2> HIDE DEF Takes
  <2> QED
    BY <1>1, <2>2
<1>3. CASE FrameCorrupted
  <2>1. printer.tx # << >> /\ (TakeFrame(<< Line("ok") >>) \/ TakeFrame(Refusal(fw)))
    BY <1>3 DEF FrameCorrupted
  <2>2. Takes(<< Line("ok") >>) \/ Takes(Refusal(fw))
    BY <1>0, <2>1, AnswersRunning
  <2> HIDE DEF Takes
  <2> QED
    BY <1>1, <2>2
<1>4. CASE FirmwareFails
  <2>1. Takes(<< Line("error"), Line("ok") >>)
    BY <1>4, AnswersRunning DEF FirmwareFails
  <2> HIDE DEF Takes
  <2> QED
    BY <1>1, <2>1
<1> QED
  BY <1>2, <1>3, <1>4 DEF FirmwareStep

-----------------------------------------------------------------------------
(* Requests. *)

LEMMA JobStartWire ==
  ASSUME NEW p \in Printers
  PROVE  SameWire(p, JobStart(p))
<1> DEFINE q == SendCommands(p, ResumeSequence(p.job.saved))
           r == [q EXCEPT !.job = [q.job EXCEPT !.st = "Running"]]
           s == [p EXCEPT !.job = [p.job EXCEPT !.st = "Running"],
                          !.halted = TRUE]
           t == [p EXCEPT !.job = [p.job EXCEPT !.st = "Running", !.pos = 0]]
<1>1. q \in Printers /\ SameWire(p, q)
  BY ResumeSequenceType, SendCommandsLemma, SendCommandsWire
<1>2. \/ JobStart(p) = PrintLine(r)
      \/ JobStart(p) = s
      \/ JobStart(p) = PrintLine(t)
  BY DEF JobStart
<1> HIDE DEF q
<1>3. /\ r \in Printers /\ SameWire(q, r)
      /\ s \in Printers /\ SameWire(p, s)
      /\ t \in Printers /\ SameWire(p, t)
  BY <1>1 DEF Printers, Jobs, JobStates, SameWire
<1> HIDE DEF r, s, t
<1>4. SameWire(r, PrintLine(r)) /\ SameWire(t, PrintLine(t))
  BY <1>3, LinesProcessedWire DEF PrintLine
<1> QED
  BY <1>1, <1>2, <1>3, <1>4 DEF SameWire

LEMMA JobEndsWire ==
  ASSUME NEW p \in Printers
  PROVE  SameWire(p, JobStop(p)) /\ SameWire(p, JobPause(p))
BY DEF JobStop, JobPause, SendCommands, SameWire, Printers

LEMMA AsideUndisturbed ==
  ASSUME NEW p, NEW q, Aside(p, q), SameWire(p, q)
  PROVE  Undisturbed(p, q)
BY FrameUndisturbed DEF Aside, SameQueue, Failures

LEMMA SetPrintJobUndisturbed ==
  ASSUME NEW p \in Printers
  PROVE  Undisturbed(p, SetPrintJob(p))
<1> DEFINE age(c) == IF c.cb = "job" THEN [c EXCEPT !.cb = "stale"] ELSE c
           io == [i \in DOMAIN p.io |->
                    [p.io[i] EXCEPT !.cmd = age(p.io[i].cmd)]]
           q == SetPrintJob(p)
<1>1. CASE p.job.st \in {"Running", "Paused"}
  BY <1>1 DEF SetPrintJob, Undisturbed, SameWire
<1>2. CASE p.job.st \notin {"Running", "Paused"}
  <2>1. /\ q.io = io /\ q.executing = p.executing /\ q.path = p.path
        /\ q.port = p.port /\ q.rx = p.rx /\ SameWire(p, q)
    BY <1>2 DEF SetPrintJob, Printers, SameWire
  <2>2. /\ p.io \in Seq(Handlers)
        /\ \A i \in DOMAIN p.io : p.io[i] \in Handlers
    BY DEF Printers
  <2>3. \A i \in DOMAIN p.io : io[i].h = p.io[i].h
    BY <2>2 DEF Handlers
  <2>4. Waiting(io) = Waiting(p.io)
    BY <2>3 DEF Waiting
  <2> HIDE DEF io
  <2> QED
    BY <2>1, <2>4 DEF Undisturbed
<1> QED
  BY <1>1, <1>2

(* No request but start() finds a printer that was never started. *)
LEMMA RequestsOpen ==
  ASSUME TypeOK, Attended(printer, {}), Open(printer, {}), Requests,
         ~StopPrinter, ~ChangeSettings, ~ChangePath
  PROVE  Open(printer', {})
<1> DEFINE p == printer
<1>0. p \in Printers
  BY DEF TypeOK
<1>1. ASSUME NEW q, Aside(p, q), SameWire(p, q)
      PROVE  Open(q, {})
  BY <1>1, AsideUndisturbed, UndisturbedOpen
<1>2. CASE StartPrinter
  BY <1>2 DEF StartPrinter, Attended, Open
<1>3. CASE SubmitGcode \/ SetTemperature
  <2>1. PICK text \in Texts, cb \in Callbacks :
          printer' = SendCommand(p, text, cb)
    BY <1>3 DEF SubmitGcode, SetTemperature, Request, Texts, OwnTexts,
       Callbacks
  <2> QED
    BY <1>0, <1>1, <2>1, SendCommandAside, SendCommandWire
<1>4. CASE SubmitJob
  <2> DEFINE q == SetPrintJob(p)
  <2>1. q \in Printers /\ Open(q, {})
    BY <1>0, SetPrintJobLemma, SetPrintJobUndisturbed, UndisturbedOpen
  <2>2. printer' = q \/ printer' = JobStart(q)
    BY <1>4 DEF SubmitJob, Request
  <2> HIDE DEF q
  <2>3. Open(JobStart(q), {})
    BY <2>1, JobStartAside, JobStartWire, AsideUndisturbed, UndisturbedOpen
  <2> QED
    BY <2>1, <2>2, <2>3
<1>5. CASE ResumeJob \/ PauseJob \/ CancelJob
  BY <1>0, <1>1, <1>5, JobStartAside, JobPauseAside, JobStopAside,
     JobStartWire, JobEndsWire
     DEF ResumeJob, PauseJob, CancelJob, Request
<1>6. CASE ResetRequest
  <2>1. SameWire(p, ResetPrinter(p))
    BY <1>0, SendCommandWire DEF ResetPrinter, SameWire
  <2> QED
    BY <1>0, <1>1, <1>6, <2>1, ResetPrinterAside DEF ResetRequest, Request
<1> QED
  BY <1>2, <1>3, <1>4, <1>5, <1>6 DEF Requests

(* A job that is not running fails at its first line while the printer is  *)
(* not Connected.                                                          *)
LEMMA JobStartsNot ==
  ASSUME NEW p \in Printers, p.state # "Connected",
         p.job.st \notin {"Running", "Paused"}, ~p.job.ended
  PROVE  \E job \in Jobs : /\ JobStart(p) = [p EXCEPT !.job = job]
                           /\ job.st = "Error" /\ ~job.ended /\ job.pos = 1
<1> DEFINE job == [p.job EXCEPT !.st = "Running", !.pos = 0]
           q == [p EXCEPT !.job = job]
           pos == q.job.pos + (IF Len(JobFile) - q.job.pos > 0 THEN 1 ELSE 0)
           ended == q.job.ended \/ Len(JobFile) - q.job.pos <= 0
           failed == [q.job EXCEPT !.st = "Error", !.pos = pos, !.ended = ended]
           r == [q EXCEPT !.job = failed]
<1>1. JobStart(p) = PrintLine(q)
  BY DEF JobStart
<1>2. job.st = "Running" /\ job.pos = 0 /\ ~job.ended /\ job \in Jobs
  BY DEF Printers, Jobs, JobStates
<1> HIDE DEF job
<1>3. q \in Printers /\ q.job = job
  BY <1>2 DEF Printers
<1>4. [q EXCEPT !.job = failed] = [p EXCEPT !.job = failed]
  BY <1>3 DEF Printers
<1>5. q.state # "Connected"
  BY DEF Printers
<1> HIDE DEF q
<1>6. Len(JobFile) \in Nat /\ Len(JobFile) > 0
  BY TextAssumption
<1>7. ~ended /\ ended \in BOOLEAN /\ pos \in Nat /\ pos = 1
  BY <1>2, <1>3, <1>6 DEF Jobs
<1>8. PrintLine(q) = r
  BY <1>2, <1>3, <1>5 DEF PrintLine, LinesProcessed, Continues
<1>9. /\ failed.st = "Error" /\ failed.ended = ended /\ failed \in Jobs
      /\ failed.pos = pos
  <2> HIDE DEF ended, pos
  <2> QED
    BY <1>2, <1>3, <1>7 DEF Jobs, JobStates
<1> HIDE DEF failed, ended
<1> QED
  BY <1>1, <1>4, <1>7, <1>8, <1>9

LEMMA FreshJob ==
  ASSUME NEW p \in Printers, Fresh(p)
  PROVE  Fresh(JobStart(p))
<1>1. PICK job \in Jobs : /\ JobStart(p) = [p EXCEPT !.job = job]
                          /\ job.st = "Error" /\ ~job.ended
  BY JobStartsNot DEF Fresh
<1> QED
  BY <1>1 DEF Fresh, Printers

(* A printer that was never started has no handler, timer or frame. *)
LEMMA FreshStays ==
  ASSUME TypeOK, Attended(printer, {}), Fresh(printer), Next,
         ~FirmwareReboots, ~Replug, ~StopPrinter, ~ChangeSettings,
         ~ChangePath, ~PrinterStalls
  PROVE  Fresh(printer') \/ Open(printer', {})
<1> DEFINE p == printer
<1>0. p \in Printers
  BY DEF TypeOK
<1>1. CASE RunIo
  BY <1>1 DEF RunIo, RunHandler, RunSend, RunReadDone, RunReadError,
     RunWriteError, RunConnected, RunConnectFailed, RunConnectTimeout,
     RunTimeoutCheck, RunReconnect, RunInitialize, RunGetTemperature,
     Due, Fresh
<1>2. CASE Timers
  BY <1>2 DEF Timers, ReconnectTimerExpires, CheckTimerExpires,
     ConnectTimerExpires, TemperatureTimerExpires, Fresh
<1>3. CASE Link
  BY <1>3 DEF Link, LinesArrive, ReadFails, Established, Refused, LoseFrame,
     Writable, Fresh
<1>4. CASE FirmwareStep
  BY <1>4 DEF FirmwareStep, FirmwareExecutes, FrameCorrupted,
     FirmwareOverconfirms, FirmwareFails, Fresh
<1>5. CASE StartPrinter
  <2> DEFINE q == SetState(p, "Disconnected")
  <2>1. printer' = DoConnect(q)
    BY <1>5 DEF StartPrinter, Request, Start
  <2>2. q = [p EXCEPT !.state = "Disconnected"]
    BY DEF SetState, Fresh
  <2>3. /\ q \in Printers /\ q.state = "Disconnected" /\ q.path = "serial"
        /\ q.device = "present" /\ q.port = "closed"
        /\ q.tx = << >> /\ q.wire = << >> /\ q.rx = << >> /\ q.io = << >>
    BY <1>0, <2>2 DEF Printers, States, Fresh
  <2> HIDE DEF q
  <2>4. Waiting(q.io) = {}
    BY <2>3 DEF Waiting
  <2> QED
    BY <2>1, <2>3, <2>4, ConnectOpens
<1>6. CASE SubmitJob
  <2> DEFINE job == [st |-> "Stopped", pos |-> 0, ended |-> FALSE,
                     saved |-> p.job.saved]
             age(c) == IF c.cb = "job" THEN [c EXCEPT !.cb = "stale"] ELSE c
             queue == [i \in DOMAIN p.queue |-> age(p.queue[i])]
             io == [i \in DOMAIN p.io |->
                      [p.io[i] EXCEPT !.cmd = age(p.io[i].cmd)]]
             q == SetPrintJob(p)
  <2>1. q = [p EXCEPT !.job = job, !.queue = queue, !.io = io]
    BY DEF SetPrintJob, Fresh
  <2>2. queue = << >> /\ io = << >>
    BY DEF Fresh
  <2> HIDE DEF queue, io
  <2>3. q \in Printers
    BY <1>0, SetPrintJobLemma
  <2>4. Fresh(q) /\ q.job.st = "Stopped"
    BY <1>0, <2>1, <2>2 DEF Fresh, Printers
  <2>5. printer' = q \/ printer' = JobStart(q)
    BY <1>6 DEF SubmitJob, Request
  <2> HIDE DEF q
  <2> QED
    BY <2>3, <2>4, <2>5, FreshJob
<1>7. CASE ResumeJob
  BY <1>0, <1>7, FreshJob DEF ResumeJob, Request
<1>8. CASE SubmitGcode \/ SetTemperature \/ PauseJob \/ CancelJob \/ ResetRequest
  BY <1>8 DEF SubmitGcode, SetTemperature, PauseJob, CancelJob,
     ResetRequest, Fresh
<1> QED
  BY <1>1, <1>2, <1>3, <1>4, <1>5, <1>6, <1>7, <1>8 DEF Next, Requests

-----------------------------------------------------------------------------
(***************************************************************************)
(* The answers of a printer cannot be mixed up: however frames are damaged *)
(* or lost, commands fail and requests come, at most one frame or its      *)
(* confirmation is under way, and none while nothing is in flight.  The    *)
(* invariant behind it: the port of a started printer stays open, what has *)
(* been read waits for its handler, and the timeout check only gives the   *)
(* connection up when nothing is under way.                                *)
(***************************************************************************)
Unmixed == Fresh(printer) \/ Open(printer, {})

LEMMA UnmixedStays ==
  ASSUME IInv, NoDisorder, Unmixed, [Next]_vars, QuietLimit > 0
  PROVE  Unmixed'
<1>1. /\ ~FirmwareOverconfirms /\ ~FirmwareReboots /\ ~PrinterStalls
      /\ ~Replug /\ ~StopPrinter /\ ~ChangeSettings /\ ~ChangePath
  BY NoDisorderStays DEF IInv, TypeOK
<1>2. CASE Fresh(printer) /\ Next
  BY <1>1, <1>2, FreshStays DEF IInv, Unmixed
<1>3. CASE Open(printer, {}) /\ Next
  BY <1>1, <1>3, RunIoOpen, TimersOpen, LinkOpen, FirmwareOpen, RequestsOpen
     DEF IInv, Unmixed, Next
<1>4. CASE UNCHANGED vars
  BY <1>4 DEF vars, Unmixed
<1> QED
  BY <1>2, <1>3, <1>4 DEF Unmixed

(***************************************************************************)
(* The ok that arrives belongs to the command in flight: no other frame    *)
(* and no other confirmation is under way.                                 *)
(***************************************************************************)
THEOREM OneFrameInFlight ==
  ASSUME Orderly
  PROVE  Spec => []OneInFlight
<1>1. Init => NoDisorder /\ Unmixed
  <2> SUFFICES ASSUME Init PROVE NoDisorder /\ Unmixed
    OBVIOUS
  <2>1. NoDisorder
    BY DEF Init, NoDisorder, Orderly
  <2>2. Fresh(printer)
    BY DEF Init, NewPrinter, Fresh, Orderly
  <2> QED
    BY <2>1, <2>2 DEF Unmixed
<1>2. IInv /\ NoDisorder /\ Unmixed /\ [Next]_vars => NoDisorder' /\ Unmixed'
  BY NoDisorderStays, UnmixedStays DEF IInv, TypeOK, Orderly
<1>3. IInv /\ Unmixed => OneInFlight
  <2> SUFFICES ASSUME IInv, Unmixed PROVE OneInFlight
    OBVIOUS
  <2>1. printer \in Printers
    BY DEF IInv, TypeOK
  <2>2. Fresh(printer) => Lone(printer)
    <3>1. Fresh(printer) => Len(printer.tx) <= 1
      BY DEF Fresh
    <3> QED
      BY <3>1, NoOks DEF Fresh, Lone, Silent
  <2> QED
    BY <2>1, <2>2, LoneOneInFlight DEF Unmixed, Open
<1>4. Spec => []IInv
  <2>1. SerialOnly
    BY DEF Orderly, Disorders, SerialOnly
  <2> QED
    BY <2>1, Inductive
<1> QED
  BY <1>1, <1>2, <1>3, <1>4, PTL DEF Spec

-----------------------------------------------------------------------------
(* Handlers of a set K that a method adds behind those that are ready. *)

Grows(io, jo, K) ==
  /\ Len(io) <= Len(jo)
  /\ \A i \in DOMAIN io : jo[i] = io[i]
  /\ \A i \in DOMAIN jo : i > Len(io) => jo[i] \in K

LEMMA GrowsTrans ==
  ASSUME NEW io \in Seq(Handlers), NEW jo \in Seq(Handlers),
         NEW ko \in Seq(Handlers), NEW K, Grows(io, jo, K), Grows(jo, ko, K)
  PROVE  Grows(io, ko, K)
<1>1. /\ Len(io) \in Nat /\ Len(jo) \in Nat /\ Len(ko) \in Nat
      /\ DOMAIN io = 1..Len(io) /\ DOMAIN jo = 1..Len(jo)
      /\ DOMAIN ko = 1..Len(ko)
  OBVIOUS
<1>2. \A i \in DOMAIN io : i \in DOMAIN jo
  BY <1>1 DEF Grows
<1>3. \A i \in DOMAIN ko : i > Len(io) => i > Len(jo) \/ i \in DOMAIN jo
  BY <1>1
<1> QED
  BY <1>1, <1>2, <1>3 DEF Grows

LEMMA GrowsNot ==
  ASSUME NEW io \in Seq(Handlers), NEW K
  PROVE  Grows(io, io, K)
<1>1. Len(io) \in Nat /\ DOMAIN io = 1..Len(io)
  OBVIOUS
<1> QED
  BY <1>1 DEF Grows

LEMMA AppendGrows ==
  ASSUME NEW io \in Seq(Handlers), NEW K, NEW hd \in K
  PROVE  Grows(io, Append(io, hd), K)
<1>1. /\ Len(io) \in Nat /\ DOMAIN io = 1..Len(io)
      /\ DOMAIN Append(io, hd) = 1..(Len(io) + 1)
      /\ Len(Append(io, hd)) = Len(io) + 1
      /\ Append(io, hd)[Len(io) + 1] = hd
      /\ \A i \in 1..Len(io) : Append(io, hd)[i] = io[i]
  OBVIOUS
<1>2. \A i \in 1..(Len(io) + 1) : i > Len(io) => i = Len(io) + 1
  BY <1>1
<1> QED
  BY <1>1, <1>2 DEF Grows

LEMMA ConcatGrows ==
  ASSUME NEW io \in Seq(Handlers), NEW more \in Seq(Handlers), NEW K,
         \A i \in DOMAIN more : more[i] \in K
  PROVE  Grows(io, io \o more, K)
<1>1. /\ Len(io) \in Nat /\ Len(more) \in Nat
      /\ DOMAIN io = 1..Len(io) /\ DOMAIN more = 1..Len(more)
      /\ DOMAIN (io \o more) = 1..(Len(io) + Len(more))
      /\ Len(io \o more) = Len(io) + Len(more)
      /\ \A i \in 1..Len(io) : (io \o more)[i] = io[i]
      /\ \A i \in 1..(Len(io) + Len(more)) :
           i > Len(io) => (io \o more)[i] = more[i - Len(io)]
  OBVIOUS
<1>2. \A i \in 1..(Len(io) + Len(more)) :
        i > Len(io) => i - Len(io) \in 1..Len(more)
  BY <1>1
<1> QED
  BY <1>1, <1>2 DEF Grows

LEMMA PostGrows ==
  ASSUME NEW p \in Printers, NEW h, NEW K, Handler(h) \in K
  PROVE  Grows(p.io, Post(p, h).io, K)
BY AppendGrows DEF Post, Printers

LEMMA SendCommandGrows ==
  ASSUME NEW p \in Printers, NEW text, NEW cb, NEW K, Sending(text, cb) \in K
  PROVE  Grows(p.io, SendCommand(p, text, cb).io, K)
BY AppendGrows DEF SendCommand, Printers

LEMMA SendCommandsGrows ==
  ASSUME NEW p \in Printers, NEW texts \in Seq(Texts), NEW K,
         \A i \in DOMAIN texts : Sending(texts[i], "none") \in K
  PROVE  Grows(p.io, SendCommands(p, texts).io, K)
<1> DEFINE more == [i \in 1..Len(texts) |-> Sending(texts[i], "none")]
<1>1. /\ DOMAIN texts = 1..Len(texts) /\ Len(texts) \in Nat
      /\ \A i \in 1..Len(texts) : texts[i] \in Texts
  OBVIOUS
<1>2. more \in Seq(Handlers) /\ DOMAIN more = 1..Len(texts)
  BY <1>1, SendingsType DEF Callbacks
<1>3. \A i \in DOMAIN more : more[i] \in K
  BY <1>1
<1>4. SendCommands(p, texts).io = p.io \o more
  BY <1>1 DEF SendCommands, Printers
<1> HIDE DEF more
<1>5. p.io \in Seq(Handlers)
  BY DEF Printers
<1> QED
  BY <1>2, <1>3, <1>4, <1>5, ConcatGrows

LEMMA LinesProcessedGrows ==
  ASSUME NEW p \in Printers, NEW n \in Nat, NEW K,
         \A i \in DOMAIN JobFile : Sending(JobFile[i], "job") \in K
  PROVE  Grows(p.io, LinesProcessed(p, n).io, K)
<1> DEFINE rest == Len(JobFile) - p.job.pos
           k == IF n <= rest THEN n ELSE rest
           next == [i \in 1..k |-> JobFile[p.job.pos + i]]
           more == [i \in 1..k |-> Sending(next[i], "job")]
           q == LinesProcessed(p, n)
<1>1. p.io \in Seq(Handlers) /\ p.job.pos \in Nat
  BY DEF Printers, Jobs
<1>2. rest \in Int /\ k \in Int /\ DOMAIN JobFile = 1..Len(JobFile)
      /\ Len(JobFile) \in Nat /\ k <= rest
  BY <1>1, TextAssumption
<1>3. \A i \in 1..k : p.job.pos + i \in DOMAIN JobFile
  BY <1>1, <1>2
<1>4. \A i \in 1..k : next[i] \in Texts
  BY <1>3, TextAssumption
<1>5. more \in Seq(Handlers) /\ DOMAIN more = 1..k
  <2> HIDE DEF next
  <2> QED
    BY <1>2, <1>4, SendingsType DEF Callbacks
<1>6. \A i \in DOMAIN more : more[i] \in K
  BY <1>3
<1>7. q.io = p.io \/ q.io = p.io \o more
  BY DEF LinesProcessed, Printers
<1> HIDE DEF more, q
<1> QED
  BY <1>1, <1>5, <1>6, <1>7, GrowsNot, ConcatGrows DEF q

-----------------------------------------------------------------------------
(***************************************************************************)
(* The numbers of the lines.  The history holds the last lines that were   *)
(* numbered, one after the other; numbers go from 1 to MaxLineNo - 1 and   *)
(* start again.  The history is shorter than that, so a number in it       *)
(* belongs to one line.                                                    *)
(***************************************************************************)
LastLine(lineNo) == IF lineNo < 2 THEN MaxLineNo - 1 ELSE lineNo - 1

Numbered(history, lineNo) ==
  /\ Len(history) <= HistoryLimit
  /\ \A i \in DOMAIN history :
       LET n == LastLine(lineNo) - (Len(history) - i)
       IN  history[i].line = IF n < 1 THEN n + MaxLineNo - 1 ELSE n

LEMMA RememberNumbered ==
  ASSUME NEW history \in Seq(Sent), NEW lineNo \in 1..(MaxLineNo - 1),
         NEW text \in Texts, HistoryLimit < MaxLineNo,
         Numbered(history, lineNo)
  PROVE  LET next == Remember(history, [line |-> lineNo, text |-> text])
         IN  next # << >> /\ Numbered(next, lineNo + 1)
<1> DEFINE entry == [line |-> lineNo, text |-> text]
           next == Remember(history, entry)
           old == IF Len(history) < HistoryLimit THEN history ELSE Tail(history)
           d == IF Len(history) < HistoryLimit THEN 0 ELSE 1
<1>1. /\ HistoryLimit \in Nat /\ HistoryLimit > 0 /\ MaxLineNo \in Nat
      /\ MaxLineNo > 1 /\ lineNo \in Nat /\ lineNo >= 1
      /\ lineNo < MaxLineNo /\ Len(history) \in Nat
      /\ Len(history) <= HistoryLimit /\ entry \in Sent
      /\ DOMAIN history = 1..Len(history)
  BY LimitAssumption DEF Numbered, Sent
<1>2. /\ old \in Seq(Sent) /\ Len(old) \in Nat /\ d \in {0, 1}
      /\ Len(old) = Len(history) - d /\ Len(old) < HistoryLimit
      /\ \A i \in 1..Len(old) : i + d \in 1..Len(history) /\ old[i] = history[i + d]
  <2>1. CASE Len(history) < HistoryLimit
    <3>1. old = history /\ d = 0
      BY <2>1
    <3> HIDE DEF old, d
    <3> QED
      BY <1>1, <2>1, <3>1
  <2>2. CASE ~(Len(history) < HistoryLimit)
    <3>0. Len(history) = HistoryLimit
      <4>1. /\ Len(history) \in Nat /\ HistoryLimit \in Nat
            /\ Len(history) <= HistoryLimit
        BY <1>1
      <4> QED
        BY <2>2, <4>1
    <3>1. history # << >> /\ Len(history) = HistoryLimit
      BY <1>1, <3>0
    <3>2. old = Tail(history) /\ d = 1
      BY <2>2
    <3>3. /\ Tail(history) \in Seq(Sent) /\ Len(Tail(history)) = Len(history) - 1
          /\ \A i \in 1..(Len(history) - 1) : Tail(history)[i] = history[i + 1]
      BY <3>1
    <3> HIDE DEF old, d
    <3> QED
      BY <1>1, <3>1, <3>2, <3>3
  <2> QED
    BY <2>1, <2>2
<1>3. next = Append(old, entry)
  BY <1>1, <1>2 DEF Remember
<1> HIDE DEF old, d, entry
<1>4. /\ Len(next) = Len(old) + 1 /\ DOMAIN next = 1..(Len(old) + 1)
      /\ next[Len(old) + 1] = entry
      /\ \A i \in 1..Len(old) : next[i] = old[i]
  BY <1>1, <1>2, <1>3
<1>9. entry.line = lineNo
  BY DEF entry
<1>5. next # << >>
  BY <1>2, <1>4
<1> HIDE DEF next
<1>6. ASSUME NEW i \in DOMAIN next
      PROVE  LET n == LastLine(lineNo + 1) - (Len(next) - i)
             IN  next[i].line = IF n < 1 THEN n + MaxLineNo - 1 ELSE n
  <2>1. LastLine(lineNo + 1) = lineNo
    BY <1>1 DEF LastLine
  <2>2. CASE i = Len(old) + 1
    BY <1>1, <1>2, <1>4, <1>9, <2>1, <2>2
  <2>3. CASE i # Len(old) + 1
    <3> DEFINE m == LastLine(lineNo) - (Len(history) - (i + d))
    <3>0. i \in 1..Len(old)
      BY <1>2, <1>4, <2>3
    <3>1. i \in 1..Len(old) /\ i + d \in 1..Len(history)
          /\ next[i] = history[i + d]
      BY <1>2, <1>4, <3>0
    <3>2. next[i].line = IF m < 1 THEN m + MaxLineNo - 1 ELSE m
      BY <1>1, <3>1 DEF Numbered
    <3>3. m = LastLine(lineNo) - (Len(old) - i) /\ i \in Nat /\ i >= 1
          /\ i <= Len(old)
      BY <1>1, <1>2, <3>1
    <3> HIDE DEF m
    <3>4. LastLine(lineNo) = IF lineNo < 2 THEN MaxLineNo - 1 ELSE lineNo - 1
      BY DEF LastLine
    <3>5. /\ Len(old) \in Nat /\ i \in Nat /\ lineNo \in Nat /\ MaxLineNo \in Nat
          /\ i >= 1 /\ i <= Len(old) /\ Len(next) = Len(old) + 1
          /\ Len(old) < HistoryLimit /\ HistoryLimit \in Nat
          /\ lineNo >= 1 /\ lineNo < MaxLineNo
      BY <1>1, <1>2, <1>4, <3>3
    <3> DEFINE n == lineNo - (Len(old) + 1 - i)
    <3>6. LastLine(lineNo + 1) - (Len(next) - i) = n
      BY <2>1, <3>5
    <3>7. CASE lineNo < 2
      <4>1. lineNo = 1 /\ LastLine(lineNo) = MaxLineNo - 1
        BY <3>4, <3>5, <3>7
      <4>2. n < 1 /\ m = n + MaxLineNo - 1
        BY <3>3, <3>5, <4>1
      <4>3. ~(m < 1)
        BY <1>1, <3>3, <3>5, <4>1
      <4> QED
        BY <3>2, <3>6, <4>2, <4>3
    <3>8. CASE ~(lineNo < 2)
      <4>1. LastLine(lineNo) = lineNo - 1
        BY <3>4, <3>8
      <4>2. m = n
        BY <3>3, <3>5, <4>1
      <4> QED
        BY <3>2, <3>6, <4>2
    <3> QED
      BY <3>7, <3>8
  <2> QED
    BY <2>2, <2>3
<1>7. Len(next) <= HistoryLimit
  BY <1>1, <1>2, <1>4
<1> QED
  BY <1>5, <1>6, <1>7 DEF Numbered, next, entry

(* The last line that was numbered is the only one of its number. *)
LEMMA LastOfHistory ==
  ASSUME NEW history \in Seq(Sent), NEW lineNo \in 2..MaxLineNo,
         HistoryLimit < MaxLineNo, Numbered(history, lineNo),
         history # << >>
  PROVE  /\ {i \in DOMAIN history : history[i].line = lineNo - 1} = {Len(history)}
         /\ Numbered(SubSeq(history, 1, Len(history) - 1), lineNo - 1)
<1> DEFINE n == Len(history)
           less == SubSeq(history, 1, n - 1)
<1>1. /\ HistoryLimit \in Nat /\ MaxLineNo \in Nat /\ lineNo \in Nat
      /\ n \in Nat /\ n >= 1 /\ n <= HistoryLimit /\ lineNo >= 2
      /\ DOMAIN history = 1..n /\ lineNo <= MaxLineNo
  BY LimitAssumption DEF Numbered
<1>2. LastLine(lineNo) = lineNo - 1
  BY <1>1 DEF LastLine
<1>3. \A i \in 1..n :
        LET m == lineNo - 1 - (n - i)
        IN  history[i].line = IF m < 1 THEN m + MaxLineNo - 1 ELSE m
  BY <1>1, <1>2 DEF Numbered
<1>4. /\ less \in Seq(Sent) /\ Len(less) = n - 1 /\ DOMAIN less = 1..(n - 1)
      /\ \A i \in 1..(n - 1) : less[i] = history[i]
  BY <1>1
<1> HIDE DEF n, less
<1>5. \A i \in 1..n : history[i].line = lineNo - 1 <=> i = n
  BY <1>1, <1>3
<1>6. {i \in DOMAIN history : history[i].line = lineNo - 1} = {n}
  BY <1>1, <1>5
<1>7. Len(less) <= HistoryLimit
  BY <1>1, <1>4
<1>8. ASSUME NEW i \in DOMAIN less
      PROVE  LET k == LastLine(lineNo - 1) - (Len(less) - i)
             IN  less[i].line = IF k < 1 THEN k + MaxLineNo - 1 ELSE k
  <2>1. /\ i \in Nat /\ i >= 1 /\ i <= n - 1 /\ less[i] = history[i]
        /\ i \in 1..n
    BY <1>1, <1>4
  <2>2. less[i].line = IF lineNo - 1 - (n - i) < 1
                         THEN lineNo - 1 - (n - i) + MaxLineNo - 1
                         ELSE lineNo - 1 - (n - i)
    BY <1>3, <2>1
  <2>3. LastLine(lineNo - 1) = IF lineNo - 1 < 2 THEN MaxLineNo - 1
                               ELSE lineNo - 1 - 1
    BY DEF LastLine
  <2> QED
    BY SMTT(20), <1>1, <1>4, <2>1, <2>2, <2>3
<1> QED
  BY <1>6, <1>7, <1>8 DEF Numbered, n, less

-----------------------------------------------------------------------------
(***************************************************************************)
(* What has been said.  The lines of an answer that are joined and those   *)
(* that are still arriving make one sequence, which ends with the ok.      *)
(***************************************************************************)
Said(p) == p.rx \o p.wire

Ending(lines, S) ==
  /\ lines # << >> /\ lines[Len(lines)].t = "ok"
  /\ \A i \in 1..(Len(lines) - 1) : lines[i] \in S

LEMMA JoinedLines ==
  ASSUME NEW s \in Seq(Lines), NEW t \in Seq(Lines), NEW u \in Seq(Lines)
  PROVE  (s \o t) \o u = s \o (t \o u)
BY ConcatAssociative

LEMMA SaidMoves ==
  ASSUME NEW a \in Seq(Lines), NEW b \in Seq(Lines), NEW k \in 1..Len(b)
  PROVE  (a \o SubSeq(b, 1, k)) \o SubSeq(b, k + 1, Len(b)) = a \o b
<1> DEFINE first == SubSeq(b, 1, k)
           last == SubSeq(b, k + 1, Len(b))
<1>1. /\ Len(b) \in Nat /\ Len(a) \in Nat /\ k \in Nat /\ k <= Len(b) /\ k >= 1
      /\ first \in Seq(Lines) /\ last \in Seq(Lines)
      /\ Len(first) = k /\ Len(last) = Len(b) - k
      /\ \A i \in 1..k : first[i] = b[i]
      /\ \A i \in 1..(Len(b) - k) : last[i] = b[k + i]
  OBVIOUS
<1> HIDE DEF first, last
<1>2. first \o last = b
  <2>1. /\ first \o last \in Seq(Lines) /\ Len(first \o last) = Len(b)
        /\ \A i \in 1..Len(b) :
             (first \o last)[i] = IF i <= k THEN first[i] ELSE last[i - k]
    BY <1>1
  <2>2. \A i \in 1..Len(b) : (first \o last)[i] = b[i]
    <3> SUFFICES ASSUME NEW i \in 1..Len(b)
                 PROVE  (first \o last)[i] = b[i]
      OBVIOUS
    <3>1. CASE i <= k
      <4>1. i \in 1..k
        BY <1>1, <3>1
      <4> QED
        BY <1>1, <2>1, <3>1, <4>1
    <3>2. CASE ~(i <= k)
      <4>1. i - k \in 1..(Len(b) - k) /\ k + (i - k) = i
        BY <1>1, <3>2
      <4> QED
        BY <1>1, <2>1, <3>2, <4>1
    <3> QED
      BY <3>1, <3>2
  <2> QED
    BY <2>1, <2>2, SeqEqual
<1>3. (a \o first) \o last = a \o (first \o last)
  <2>1. first \in Seq(Lines) /\ last \in Seq(Lines)
    BY <1>1
  <2> HIDE DEF first, last
  <2> QED
    BY <2>1, JoinedLines, Zenon
<1> QED
  BY <1>2, <1>3 DEF first, last

LEMMA SaidTail ==
  ASSUME NEW a \in Seq(Lines), a # << >>, NEW b \in Seq(Lines)
  PROVE  /\ a \o b \in Seq(Lines) /\ a \o b # << >>
         /\ Tail(a) \o b = Tail(a \o b) /\ Head(a) = (a \o b)[1]
<1> DEFINE c == a \o b
           t == Tail(a)
           d == Tail(c)
<1>1. /\ Len(a) \in Nat /\ Len(b) \in Nat /\ Len(a) >= 1
      /\ c \in Seq(Lines) /\ Len(c) = Len(a) + Len(b)
      /\ \A i \in 1..Len(c) : c[i] = IF i <= Len(a) THEN a[i] ELSE b[i - Len(a)]
      /\ t \in Seq(Lines) /\ Len(t) = Len(a) - 1
      /\ \A i \in 1..(Len(a) - 1) : t[i] = a[i + 1]
      /\ Head(a) = a[1]
  OBVIOUS
<1> HIDE DEF c
<1>2. c # << >> /\ c[1] = a[1]
  <2>1. Len(c) >= 1
    BY <1>1
  <2>2. 1 \in 1..Len(c) /\ 1 <= Len(a)
    BY <1>1, <2>1
  <2>3. c # << >>
    BY <2>1
  <2> QED
    BY <1>1, <2>2, <2>3
<1>3. /\ d \in Seq(Lines) /\ Len(d) = Len(c) - 1
      /\ \A i \in 1..(Len(c) - 1) : d[i] = c[i + 1]
  BY <1>1, <1>2
<1> HIDE DEF d, t
<1>4. /\ t \o b \in Seq(Lines) /\ Len(t \o b) = Len(a) - 1 + Len(b)
      /\ \A i \in 1..(Len(a) - 1 + Len(b)) :
           (t \o b)[i] = IF i <= Len(a) - 1 THEN t[i] ELSE b[i - (Len(a) - 1)]
  <2>1. /\ t \o b \in Seq(Lines) /\ Len(t \o b) = Len(t) + Len(b)
        /\ \A i \in 1..(Len(t) + Len(b)) :
             (t \o b)[i] = IF i <= Len(t) THEN t[i] ELSE b[i - Len(t)]
    <3>1. t \in Seq(Lines)
      BY <1>1
    <3> QED
      BY <3>1, ConcatProperties
  <2>2. Len(t) = Len(a) - 1
    BY <1>1
  <2> QED
    BY <2>1, <2>2
<1>5. \A i \in 1..Len(d) : (t \o b)[i] = d[i]
  <2> SUFFICES ASSUME NEW i \in 1..Len(d)
               PROVE  (t \o b)[i] = d[i]
    OBVIOUS
  <2>1. i \in Nat /\ i + 1 \in 1..Len(c) /\ d[i] = c[i + 1]
    BY <1>1, <1>3
  <2>2. i - (Len(a) - 1) = i + 1 - Len(a)
    BY <1>1, <2>1
  <2> QED
    BY <1>1, <1>3, <1>4, <2>1, <2>2
<1>6. t \o b = d
  <2>1. t \o b \in Seq(Lines) /\ d \in Seq(Lines)
    BY <1>3, <1>4
  <2>2. Len(t \o b) = Len(d)
    BY <1>1, <1>3, <1>4
  <2>3. \A i \in 1..Len(t \o b) : (t \o b)[i] = d[i]
    BY <1>5, <2>2
  <2> HIDE DEF d, t
  <2> QED
    BY <2>1, <2>2, <2>3, SeqEqual, Zenon
<1> QED
  BY <1>1, <1>2, <1>6 DEF c, d, t

(* The first line of an answer is its ok, or one of those before. *)
LEMMA EndingFirst ==
  ASSUME NEW s \in Seq(Lines), NEW S, Ending(s, S), \A x \in S : x.t # "ok"
  PROVE  /\ s[1].t = "ok" => Len(s) = 1
         /\ s[1].t # "ok" => s[1] \in S /\ Ending(Tail(s), S)
<1> DEFINE n == Len(s)
           last == Tail(s)
<1>1. s # << >> /\ s[n].t = "ok" /\ \A i \in 1..(n - 1) : s[i] \in S
  BY DEF Ending
<1>2. /\ last \in Seq(Lines) /\ Len(last) = n - 1
      /\ \A i \in 1..(n - 1) : last[i] = s[i + 1]
  BY <1>1
<1>3. n \in Nat /\ n >= 1
  <2>1. Len(s) \in Nat \ {0}
    BY <1>1, EmptySeq
  <2> QED
    BY <2>1
<1> HIDE DEF n, last
<1>4. ASSUME s[1].t = "ok" PROVE n = 1
  <2>1. n > 1 => 1 \in 1..(n - 1)
    BY <1>3
  <2>2. ~(n > 1)
    BY <1>1, <1>4, <2>1
  <2> QED
    BY <1>3, <2>2
<1>5. ASSUME s[1].t # "ok" PROVE s[1] \in S /\ Ending(last, S)
  <2>1. n # 1
    BY <1>1, <1>5
  <2>2. n > 1
    BY <1>3, <2>1
  <2>3. last # << >>
    <3>1. last = << >> => Len(last) = 0
      BY EmptySeq
    <3> QED
      BY <1>2, <1>3, <2>2, <3>1
  <2>4. last[n - 1] = s[n]
    BY <1>2, <1>3, <2>2
  <2>5. \A i \in 1..(n - 2) : i + 1 \in 1..(n - 1) /\ i \in 1..(n - 1)
    BY <1>3, <2>2
  <2>6. 1 \in 1..(n - 1)
    BY <1>3, <2>2
  <2>7. \A i \in 1..(n - 1 - 1) : last[i] \in S
    BY <1>1, <1>2, <1>3, <2>5
  <2> QED
    BY <1>1, <1>2, <2>3, <2>4, <2>6, <2>7 DEF Ending
<1> QED
  BY <1>4, <1>5 DEF n, last

-----------------------------------------------------------------------------
(***************************************************************************)
(* The talk between dashprint and the firmware f.  Still: nothing is       *)
(* under way, and both sides agree on the last line number and on the      *)
(* mode.  Flying: the command in flight has been written and not taken by  *)
(* the printer, or executed, or refused.                                   *)
(***************************************************************************)
Others == {Line("other")}
Again(n) == [t |-> "resend", n |-> n]

Written(p, f) ==
  /\ p.rx = << >> /\ p.wire = << >> /\ p.resend = NoLine /\ p.tx # << >>
  /\ Head(p.tx) = [n |-> IF UsesLineNumber(p.executing) THEN p.lineNo - 1
                         ELSE NoLine,
                   text |-> p.executing]
  /\ p.mode = Positioned(f.mode, p.executing)
  /\ UsesLineNumber(p.executing) => f.last = p.lineNo - 2
  /\ p.executing = "M999" => f.last = p.lineNo - 1

Accepted(p, f) ==
  /\ p.tx = << >> /\ p.resend = NoLine /\ p.mode = f.mode
  /\ Ending(Said(p), Others)
  /\ f.last = IF p.lineNo = 0 THEN 0 ELSE p.lineNo - 1

Declined(p, f) ==
  /\ p.tx = << >> /\ p.mode = Positioned(f.mode, p.executing)
  /\ UsesLineNumber(p.executing) /\ f.last = p.lineNo - 2
  /\ Ending(Said(p), {Again(p.lineNo - 1)})
  /\ p.resend = p.lineNo - 1 \/ (p.resend = NoLine /\ Len(Said(p)) > 1)

(* The command in flight: a line, M999, or the M110 that resets the line   *)
(* numbers, which is in the queue only at the start of a connection.       *)
InFlight(p) ==
  \/ /\ p.executing = Head(p.queue).text /\ UsesLineNumber(p.executing)
     /\ p.lineNo >= 2 /\ p.history # << >>
  \/ p.executing = Head(p.queue).text /\ p.executing = "M999" /\ p.lineNo >= 1
  \/ p.executing = "M110" /\ Head(p.queue).text # "M110" /\ p.lineNo = 0
  \/ p.executing = "M110" /\ Head(p.queue).text = "M110" /\ p.lineNo = 1

Still(p, f) ==
  /\ p.executing = NoCommand /\ p.queue = << >>
  /\ p.tx = << >> /\ p.rx = << >> /\ p.wire = << >>
  /\ p.resend = NoLine /\ p.mode = f.mode
  /\ p.lineNo >= 1 /\ f.last = p.lineNo - 1

Flying(p, f) ==
  /\ p.executing # NoCommand /\ p.queue # << >> /\ InFlight(p)
  /\ Written(p, f) \/ Accepted(p, f) \/ Declined(p, f)

Talk(p, f) ==
  /\ ~p.pendingError /\ Numbered(p.history, p.lineNo)
  /\ Still(p, f) \/ Flying(p, f)

(***************************************************************************)
(* Between an ok and the next command: the command in front is new, or the *)
(* one to send again, whose effect on the mode has been noted already.     *)
(***************************************************************************)
Free(p, f) ==
  /\ ~p.pendingError /\ Numbered(p.history, p.lineNo)
  /\ p.tx = << >> /\ p.rx = << >> /\ p.wire = << >>
  /\ p.lineNo >= 1 /\ f.last = p.lineNo - 1
  /\ \/ p.mode = f.mode
     \/ /\ p.queue # << >> /\ UsesLineNumber(Head(p.queue).text)
        /\ p.mode = Positioned(f.mode, Head(p.queue).text)
        /\ p.lineNo < MaxLineNo
  /\ p.queue # << >> /\ Head(p.queue).text = "M110" => p.lineNo = 1

Idle(p, f) == p.executing = NoCommand /\ p.resend = NoLine /\ Free(p, f)

(* What the talk is about.  The command in front is known by its text. *)
SameTalk(p, q) ==
  /\ q.executing = p.executing /\ q.tx = p.tx /\ q.rx = p.rx
  /\ q.wire = p.wire /\ q.resend = p.resend /\ q.mode = p.mode
  /\ q.lineNo = p.lineNo /\ q.history = p.history
  /\ q.pendingError = p.pendingError
  /\ q.queue = << >> <=> p.queue = << >>
  /\ p.queue # << >> => Head(q.queue).text = Head(p.queue).text

LEMMA SameTalkTalk ==
  ASSUME NEW p, NEW q, NEW f, SameTalk(p, q), Talk(p, f)
  PROVE  Talk(q, f)
<1>1. Still(p, f) => Still(q, f)
  BY DEF SameTalk, Still
<1>2. Said(q) = Said(p)
  BY DEF SameTalk, Said
<1>3. Flying(p, f) => Flying(q, f)
  BY <1>2 DEF SameTalk, Flying, InFlight, Written, Accepted, Declined
<1> QED
  BY <1>1, <1>3 DEF SameTalk, Talk

LEMMA SameTalkTrans ==
  ASSUME NEW p, NEW q, NEW r, SameTalk(p, q), SameTalk(q, r)
  PROVE  SameTalk(p, r)
BY DEF SameTalk

LEMMA EffectsAre ==
  ASSUME NEW mode \in Modes, NEW text
  PROVE  /\ CommandEffects(mode, text) = Positioned(mode, text)
         /\ Positioned(Positioned(mode, text), text) = Positioned(mode, text)
         /\ Positioned(mode, text) \in Modes
<1>1. CASE text = "G91"
  BY <1>1 DEF CommandEffects, Positioned, Modes
<1>2. CASE text = "G90"
  <2>1. "G90" # "G91"
    OBVIOUS
  <2> QED
    BY <1>2, <2>1 DEF CommandEffects, Positioned, Modes
<1>3. CASE text = "M83"
  BY <1>3 DEF CommandEffects, Positioned, Modes
<1>4. CASE text = "M82"
  <2>1. "M82" # "M83"
    OBVIOUS
  <2> QED
    BY <1>4, <2>1 DEF CommandEffects, Positioned, Modes
<1>5. CASE text \notin {"G90", "G91", "M82", "M83"}
  BY <1>5 DEF CommandEffects, Positioned
<1> QED
  BY <1>1, <1>2, <1>3, <1>4, <1>5

(* What a write on an open port leaves. *)
LEMMA TransmitIs ==
  ASSUME NEW p \in Printers, NEW frame \in Frames, Writable(p)
  PROVE  LET r == Transmit(p, frame)
         IN  /\ r.tx = Append(p.tx, frame) /\ r.executing = frame.text
             /\ r.resend = NoLine /\ r.queue = p.queue /\ r.rx = p.rx
             /\ r.wire = p.wire /\ r.io = p.io /\ r.mode = p.mode
             /\ r.lineNo = p.lineNo /\ r.history = p.history
             /\ r.pendingError = p.pendingError /\ r.state = p.state
             /\ r.reconnectTimer = p.reconnectTimer /\ r.job = p.job
             /\ r.halted = p.halted
BY DEF Transmit, Printers

LEMMA DoWriteIs ==
  ASSUME NEW p \in Printers, Writable(p), MayWrite(p)
  PROVE  LET r == DoWrite(p)
             text == Head(p.queue).text
             numbered == UsesLineNumber(text)
         IN  /\ r.resend = NoLine /\ r.queue = p.queue /\ r.rx = p.rx
             /\ r.wire = p.wire /\ r.io = p.io
             /\ r.pendingError = p.pendingError /\ r.state = p.state
             /\ r.reconnectTimer = p.reconnectTimer /\ r.job = p.job
             /\ r.halted = p.halted
             /\ p.lineNo >= MaxLineNo =>
                  /\ r.executing = "M110" /\ r.lineNo = 0
                  /\ r.tx = Append(p.tx, [n |-> NoLine, text |-> "M110"])
                  /\ r.mode = p.mode /\ r.history = p.history
             /\ ~(p.lineNo >= MaxLineNo) =>
                  /\ r.executing = text
                  /\ r.tx = Append(p.tx, [n |-> IF numbered THEN p.lineNo
                                                ELSE NoLine,
                                          text |-> text])
                  /\ r.mode = CommandEffects(p.mode, text)
                  /\ r.lineNo = IF numbered THEN p.lineNo + 1 ELSE p.lineNo
                  /\ r.history = IF numbered
                                   THEN Remember(p.history, [line |-> p.lineNo, text |-> text])
                                   ELSE p.history
<1>1. CASE NumbersUsedUp(p)
  <2> DEFINE q == [p EXCEPT !.lineNo = 0]
             frame == [n |-> NoLine, text |-> "M110"]
  <2>1. q \in Printers
    BY LineNumbers DEF Printers
  <2>2. frame \in Frames
    BY DEF Frames, NoLine, Texts, OwnTexts
  <2>3. DoWrite(p) = Transmit(q, frame)
    BY <1>1 DEF DoWrite, MayWrite
  <2>4. /\ q.tx = p.tx /\ q.queue = p.queue /\ q.rx = p.rx
        /\ q.wire = p.wire /\ q.io = p.io /\ q.mode = p.mode
        /\ q.lineNo = 0 /\ q.history = p.history
        /\ q.pendingError = p.pendingError /\ q.state = p.state
        /\ q.reconnectTimer = p.reconnectTimer /\ q.job = p.job
        /\ q.halted = p.halted /\ Writable(q) /\ frame.text = "M110"
    BY DEF Writable, Printers
  <2> HIDE DEF q, frame
  <2>5. LET r == Transmit(q, frame)
        IN  /\ r.tx = Append(q.tx, frame) /\ r.executing = frame.text
            /\ r.resend = NoLine /\ r.queue = q.queue /\ r.rx = q.rx
            /\ r.wire = q.wire /\ r.io = q.io /\ r.mode = q.mode
            /\ r.lineNo = q.lineNo /\ r.history = q.history
            /\ r.pendingError = q.pendingError /\ r.state = q.state
            /\ r.reconnectTimer = q.reconnectTimer /\ r.job = q.job
            /\ r.halted = q.halted
    BY <2>1, <2>2, <2>4, TransmitIs
  <2> QED
    BY <1>1, <2>3, <2>4, <2>5 DEF NumbersUsedUp, frame
<1>2. CASE ~NumbersUsedUp(p)
  <2> DEFINE text == Head(p.queue).text
             numbered == UsesLineNumber(text)
             mode == CommandEffects(p.mode, text)
             lineNo == IF numbered THEN p.lineNo + 1 ELSE p.lineNo
             history == IF numbered
                          THEN Remember(p.history, [line |-> p.lineNo, text |-> text])
                          ELSE p.history
             q == [p EXCEPT !.mode = mode, !.lineNo = lineNo, !.history = history]
             frame == [n |-> IF numbered THEN p.lineNo ELSE NoLine,
                       text |-> text]
  <2>1. text \in Texts
    <3>1. p.queue \in Seq(Commands) /\ p.queue # << >>
      BY DEF MayWrite, Printers
    <3>2. Head(p.queue) \in Commands
      BY <3>1
    <3> QED
      BY <3>2 DEF Commands
  <2>2. p.lineNo \in 0..MaxLineNo /\ ~(p.lineNo >= MaxLineNo) /\ p.mode \in Modes
        /\ p.history \in Seq(Sent)
    BY <1>2 DEF NumbersUsedUp, Printers
  <2>3. p.lineNo \in 0..(MaxLineNo - 1) /\ lineNo \in 0..MaxLineNo
    BY <2>2, LimitAssumption
  <2>4. [line |-> p.lineNo, text |-> text] \in Sent
    BY <2>1, <2>3 DEF Sent
  <2>5. history \in Seq(Sent)
    BY <2>2, <2>4, RememberType
  <2>6. mode \in Modes
    BY <2>2, EffectsAre
  <2>7. frame \in Frames
    BY <2>1, <2>2 DEF Frames, NoLine
  <2>8. DoWrite(p) = Transmit(q, frame)
    BY <1>2 DEF DoWrite, MayWrite
  <2>9. frame.text = text
    OBVIOUS
  <2> HIDE DEF text, numbered, mode, lineNo, history, frame
  <2>10. q \in Printers
    BY <2>3, <2>5, <2>6 DEF Printers
  <2>11. /\ q.tx = p.tx /\ q.queue = p.queue /\ q.rx = p.rx
        /\ q.wire = p.wire /\ q.io = p.io /\ q.mode = mode
        /\ q.lineNo = lineNo /\ q.history = history
        /\ q.pendingError = p.pendingError /\ q.state = p.state
        /\ q.reconnectTimer = p.reconnectTimer /\ q.job = p.job
        /\ q.halted = p.halted /\ Writable(q)
    BY DEF Writable, Printers
  <2> HIDE DEF q
  <2> DEFINE r == DoWrite(p)
  <2>12. /\ r.tx = Append(q.tx, frame) /\ r.executing = frame.text
         /\ r.resend = NoLine /\ r.queue = q.queue /\ r.rx = q.rx
         /\ r.wire = q.wire /\ r.io = q.io /\ r.mode = q.mode
         /\ r.lineNo = q.lineNo /\ r.history = q.history
         /\ r.pendingError = q.pendingError /\ r.state = q.state
         /\ r.reconnectTimer = q.reconnectTimer /\ r.job = q.job
         /\ r.halted = q.halted
    BY <2>7, <2>8, <2>10, <2>11, TransmitIs
  <2> HIDE DEF r
  <2>13. /\ r.resend = NoLine /\ r.queue = p.queue /\ r.rx = p.rx
         /\ r.wire = p.wire /\ r.io = p.io
         /\ r.pendingError = p.pendingError /\ r.state = p.state
         /\ r.reconnectTimer = p.reconnectTimer /\ r.job = p.job
         /\ r.halted = p.halted
    BY <2>11, <2>12
  <2>14. /\ r.executing = text /\ r.tx = Append(p.tx, frame)
         /\ r.mode = mode /\ r.lineNo = lineNo /\ r.history = history
    BY <2>9, <2>11, <2>12
  <2>15. ~(p.lineNo >= MaxLineNo)
    BY <2>2
  <2> QED
    BY <2>13, <2>14, <2>15
       DEF r, text, numbered, mode, lineNo, history, frame
<1> QED
  BY <1>1, <1>2

LEMMA WriteTalks ==
  ASSUME NEW p \in Printers, NEW f \in Firmwares, Writable(p), Idle(p, f),
         HistoryLimit < MaxLineNo
  PROVE  Talk(DoWrite(p), f)
<1> DEFINE r == DoWrite(p)
           text == Head(p.queue).text
<1>1. CASE p.queue = << >>
  <2>1. r = p
    BY <1>1 DEF DoWrite, MayWrite
  <2>2. Still(p, f)
    BY <1>1 DEF Idle, Free, Still
  <2> QED
    BY <2>1, <2>2 DEF Idle, Free, Talk
<1>2. CASE p.queue # << >>
  <2>1. MayWrite(p)
    BY <1>2 DEF MayWrite, Idle, Free
  <2>2. text \in Texts /\ text # NoCommand
    <3>1. p.queue \in Seq(Commands)
      BY DEF Printers
    <3>2. Head(p.queue) \in Commands
      BY <1>2, <3>1
    <3>3. text \in Texts
      BY <3>2 DEF Commands
    <3> QED
      BY <3>3, TextAssumption
  <2>3. /\ r.resend = NoLine /\ r.queue = p.queue /\ r.rx = p.rx
        /\ r.wire = p.wire /\ r.pendingError = p.pendingError
        /\ p.lineNo >= MaxLineNo =>
             /\ r.executing = "M110" /\ r.lineNo = 0
             /\ r.tx = Append(p.tx, [n |-> NoLine, text |-> "M110"])
             /\ r.mode = p.mode /\ r.history = p.history
        /\ ~(p.lineNo >= MaxLineNo) =>
             /\ r.executing = text
             /\ r.tx = Append(p.tx, [n |-> IF UsesLineNumber(text) THEN p.lineNo
                                           ELSE NoLine,
                                     text |-> text])
             /\ r.mode = CommandEffects(p.mode, text)
             /\ r.lineNo = IF UsesLineNumber(text) THEN p.lineNo + 1 ELSE p.lineNo
             /\ r.history = IF UsesLineNumber(text)
                              THEN Remember(p.history, [line |-> p.lineNo, text |-> text])
                              ELSE p.history
    BY <2>1, DoWriteIs
  <2> HIDE DEF r
  <2>4. /\ p.lineNo \in 1..MaxLineNo /\ MaxLineNo \in Nat /\ MaxLineNo > 1
        /\ p.mode \in Modes /\ f.mode \in Modes /\ p.history \in Seq(Sent)
        /\ f.last = p.lineNo - 1 /\ f.last \in Nat
        /\ p.tx = << >> /\ p.rx = << >> /\ p.wire = << >>
    BY LimitAssumption DEF Idle, Free, Printers, Firmwares
  <2>5. /\ ~r.pendingError /\ r.queue # << >> /\ r.rx = << >> /\ r.wire = << >>
        /\ Head(r.queue).text = text
    BY <1>2, <2>3, <2>4 DEF Idle, Free
  <2>6. \A x : Append(p.tx, x) # << >> /\ Head(Append(p.tx, x)) = x
    BY <2>4
  <2>7. CASE p.lineNo >= MaxLineNo
    <3>1. p.lineNo = MaxLineNo /\ p.lineNo > 1 /\ p.lineNo # 1
      BY <2>4, <2>7
    <3>2. p.mode = f.mode /\ text # "M110"
      BY <1>2, <3>1, <2>4 DEF Idle, Free
    <3>3. ~UsesLineNumber("M110") /\ "M110" # NoCommand /\ "M110" # "M999"
      BY DEF UsesLineNumber, NoCommand
    <3>4. Positioned(f.mode, "M110") = f.mode
      BY DEF Positioned
    <3>5. InFlight(r)
      BY <2>3, <2>5, <2>7, <3>2 DEF InFlight
    <3>6. Written(r, f)
      BY <2>3, <2>5, <2>6, <2>7, <3>2, <3>3, <3>4 DEF Written
    <3>7. Numbered(r.history, r.lineNo)
      <4>1. LastLine(r.lineNo) = LastLine(p.lineNo)
        BY <2>3, <2>7, <3>1 DEF LastLine
      <4> QED
        BY <2>3, <2>7, <4>1 DEF Numbered, Idle, Free
    <3> QED
      BY <2>3, <2>5, <2>7, <3>3, <3>5, <3>6, <3>7 DEF Talk, Flying, r
  <2>8. CASE ~(p.lineNo >= MaxLineNo)
    <3>1. p.lineNo \in 1..(MaxLineNo - 1)
      BY <2>4, <2>8
    <3>2. r.mode = Positioned(f.mode, text)
      BY <2>3, <2>4, <2>8, EffectsAre DEF Idle, Free
    <3>3. CASE UsesLineNumber(text)
      <4>1. /\ r.executing = text /\ r.lineNo = p.lineNo + 1
            /\ r.tx = Append(p.tx, [n |-> p.lineNo, text |-> text])
            /\ r.history = Remember(p.history, [line |-> p.lineNo, text |-> text])
        BY <2>3, <2>8, <3>3
      <4>2. r.history # << >> /\ Numbered(r.history, r.lineNo)
        BY <2>2, <2>4, <3>1, <4>1, RememberNumbered DEF Idle, Free
      <4>3. r.lineNo - 1 = p.lineNo /\ f.last = r.lineNo - 2 /\ r.lineNo >= 2
        BY <2>4, <3>1, <4>1
      <4>4. text # "M999"
        BY <3>3 DEF UsesLineNumber
      <4>5. Written(r, f)
        BY <2>3, <2>5, <2>6, <3>2, <3>3, <4>1, <4>3, <4>4 DEF Written
      <4>6. InFlight(r)
        BY <2>5, <3>3, <4>1, <4>2, <4>3 DEF InFlight
      <4> QED
        BY <2>2, <2>5, <4>1, <4>2, <4>5, <4>6 DEF Talk, Flying, r
    <3>4. CASE ~UsesLineNumber(text)
      <4>1. /\ r.executing = text /\ r.lineNo = p.lineNo
            /\ r.tx = Append(p.tx, [n |-> NoLine, text |-> text])
            /\ r.history = p.history
        BY <2>3, <2>8, <3>4
      <4>2. text = "M110" \/ text = "M999"
        BY <3>4 DEF UsesLineNumber
      <4>3. Written(r, f)
        BY <2>3, <2>4, <2>5, <2>6, <3>2, <3>4, <4>1 DEF Written
      <4>4. InFlight(r)
        BY <1>2, <2>4, <2>5, <4>1, <4>2 DEF InFlight, Idle, Free
      <4> QED
        BY <2>2, <2>5, <4>1, <4>3, <4>4 DEF Talk, Flying, Idle, Free, r
    <3> QED
      BY <3>3, <3>4
  <2> QED
    BY <2>7, <2>8
<1> QED
  BY <1>1, <1>2

(* A method that leaves all of it as it is, and adds handlers of K. *)
LEMMA SendCommandTalk ==
  ASSUME NEW p \in Printers, NEW text, NEW cb
  PROVE  SameTalk(p, SendCommand(p, text, cb))
BY DEF SameTalk, SendCommand, Printers

LEMMA SendCommandsTalk ==
  ASSUME NEW p \in Printers, NEW texts
  PROVE  SameTalk(p, SendCommands(p, texts))
BY DEF SameTalk, SendCommands, Printers

LEMMA LinesProcessedTalk ==
  ASSUME NEW p \in Printers, NEW n
  PROVE  SameTalk(p, LinesProcessed(p, n))
BY DEF SameTalk, LinesProcessed, Printers

LEMMA DoReadTalk ==
  ASSUME NEW p \in Printers
  PROVE  SameTalk(p, DoRead(p))
BY DEF SameTalk, DoRead, Post, Printers

LEMMA SendTalks ==
  ASSUME NEW p \in Printers, NEW f \in Firmwares, Writable(p), Talk(p, f),
         HistoryLimit < MaxLineNo,
         NEW cmd \in Commands, cmd.text = "M110" => p.lineNo = 1
  PROVE  Talk(Send(p, cmd), f)
<1> DEFINE q == [p EXCEPT !.queue = Append(@, cmd)]
<1>1. p.queue \in Seq(Commands)
  BY DEF Printers
<1>2. /\ Append(p.queue, cmd) \in Seq(Commands)
      /\ Append(p.queue, cmd) # << >>
      /\ p.queue # << >> => Head(Append(p.queue, cmd)) = Head(p.queue)
      /\ p.queue = << >> => Head(Append(p.queue, cmd)) = cmd
  <2>1. Append(p.queue, cmd) \in Seq(Commands)
        /\ Len(Append(p.queue, cmd)) = Len(p.queue) + 1
        /\ Append(p.queue, cmd)[Len(p.queue) + 1] = cmd
        /\ \A i \in 1..Len(p.queue) : Append(p.queue, cmd)[i] = p.queue[i]
        /\ Len(p.queue) \in Nat
    BY <1>1
  <2> DEFINE a == Append(p.queue, cmd)
             n == Len(p.queue)
  <2>2. p.queue # << >> => n \in Nat \ {0}
    BY <1>1, EmptySeq
  <2>3. p.queue = << >> => n = 0
    BY EmptySeq
  <2>4. a # << >>
    <3>1. a = << >> => Len(a) = 0
      BY EmptySeq
    <3> QED
      BY <2>1, <3>1
  <2>5. Head(a) = a[1] /\ Head(p.queue) = p.queue[1]
    OBVIOUS
  <2>6. p.queue # << >> => a[1] = p.queue[1]
    BY <2>1, <2>2
  <2>7. p.queue = << >> => a[1] = cmd
    BY <2>1, <2>3
  <2> QED
    BY <2>1, <2>4, <2>5, <2>6, <2>7
<1>3. q \in Printers
  BY <1>2 DEF Printers
<1>4. /\ q.executing = p.executing /\ q.tx = p.tx /\ q.rx = p.rx
      /\ q.wire = p.wire /\ q.resend = p.resend /\ q.mode = p.mode
      /\ q.lineNo = p.lineNo /\ q.history = p.history
      /\ q.pendingError = p.pendingError
      /\ q.queue = Append(p.queue, cmd) /\ q.port = p.port
  BY DEF Printers
<1>5. Send(p, cmd) = DoWrite(q)
  BY DEF Send
<1> HIDE DEF q
<1>6. CASE Flying(p, f)
  <2>1. q.executing # NoCommand
    BY <1>4, <1>6 DEF Flying
  <2>2. DoWrite(q) = q
    BY <2>1 DEF DoWrite, MayWrite
  <2>3. SameTalk(p, q)
    BY <1>2, <1>4, <1>6 DEF SameTalk, Flying
  <2> QED
    BY <1>5, <2>2, <2>3, SameTalkTalk
<1>7. CASE Still(p, f)
  <2>1. Idle(q, f)
    BY <1>2, <1>4, <1>7 DEF Idle, Free, Still, Talk
  <2>2. Writable(q)
    BY <1>4 DEF Writable
  <2> QED
    BY <1>3, <1>5, <2>1, <2>2, WriteTalks
<1> QED
  BY <1>6, <1>7 DEF Talk

LEMMA NextTalks ==
  ASSUME NEW p \in Printers, NEW f \in Firmwares, Writable(p), Free(p, f),
         HistoryLimit < MaxLineNo
  PROVE  Talk(NextCommand(p), f)
<1> DEFINE q == [p EXCEPT !.resend = NoLine, !.executing = NoCommand]
           w == DoWrite(q)
<1>1. q \in Printers
  <2>1. NoLine \in Int
    BY DEF NoLine
  <2> QED
    BY <2>1 DEF Printers
<1>2. Idle(q, f) /\ Writable(q)
  BY DEF Idle, Free, Writable, Printers
<1>3. NextCommand(p) = DoRead(w)
  BY DEF NextCommand
<1> HIDE DEF q
<1>4. w \in Printers /\ Talk(w, f)
  BY <1>1, <1>2, DoWriteLemma, WriteTalks
<1> HIDE DEF w
<1> QED
  BY <1>3, <1>4, DoReadTalk, SameTalkTalk

(* What a handler of the protocol leaves alone. *)
SameShell(p, q) ==
  /\ q.queue = p.queue /\ q.io = p.io /\ q.state = p.state
  /\ q.reconnectTimer = p.reconnectTimer /\ q.job = p.job
  /\ q.halted = p.halted /\ q.port = p.port

(* The ok of an answer that has been read to its end. *)
LEMMA ConfirmedIs ==
  ASSUME NEW p \in Printers, p.rx = << >>, ~p.pendingError
  PROVE  Confirmed(p) = NextCommand(IF p.lineNo = 0
                                      THEN [p EXCEPT !.lineNo = 1]
                                    ELSE IF p.resend # NoLine
                                      THEN HandleResend(p, p.resend)
                                    ELSE Answer(p))
<1>1. [p EXCEPT !.rx = << >>] = p
  BY DEF Printers
<1>2. FirstResend(p.rx) = NoLine
  BY DEF FirstResend
<1> QED
  BY <1>1, <1>2 DEF Confirmed

(* A request for the last line that was numbered: it is in the history,    *)
(* and still the front of the queue.                                       *)
LEMMA HandleResendIs ==
  ASSUME NEW p \in Printers, HistoryLimit < MaxLineNo,
         Numbered(p.history, p.lineNo), p.history # << >>, p.lineNo >= 2
  PROVE  LET r == HandleResend(p, p.lineNo - 1)
         IN  /\ r \in Printers /\ SameShell(p, r)
             /\ r.tx = p.tx /\ r.rx = p.rx /\ r.wire = p.wire
             /\ r.mode = p.mode /\ r.pendingError = p.pendingError
             /\ r.lineNo = p.lineNo - 1 /\ Numbered(r.history, r.lineNo)
<1> DEFINE n == Len(p.history)
           line == p.lineNo - 1
           at == {i \in DOMAIN p.history : p.history[i].line = line}
           start == CHOOSE i \in at : \A j \in at : i <= j
           less == SubSeq(p.history, 1, start - 1)
           r == HandleResend(p, line)
<1>1. p.history \in Seq(Sent) /\ p.lineNo \in 2..MaxLineNo
      /\ p.queue \in Seq(Commands)
  BY LimitAssumption DEF Printers
<1>2. at = {n} /\ Numbered(SubSeq(p.history, 1, n - 1), line)
  BY <1>1, LastOfHistory
<1>3. n \in Nat
  BY <1>1
<1>4. start = n
  BY <1>2, <1>3
<1>5. line \in Int /\ line # p.lineNo
  BY <1>1
<1>6. r = [p EXCEPT !.queue = ResendLines(p.history, start) \o @,
                    !.history = less, !.lineNo = line]
  BY <1>2, <1>5 DEF HandleResend
<1>7. ResendLines(p.history, n) = << >>
  <2>1. n - n = 0 /\ 1..0 = {}
    BY <1>3
  <2> QED
    BY <2>1 DEF ResendLines
<1>8. << >> \o p.queue = p.queue
  BY <1>1, ConcatEmptySeq
<1>9. r \in Printers
  <2>1. line # NoLine
    BY <1>1 DEF NoLine
  <2> QED
    BY <1>5, <2>1, HandleResendLemma
<1> HIDE DEF at, start, less, line
<1>10. r.queue = p.queue /\ r.history = less /\ r.lineNo = line
  BY <1>4, <1>6, <1>7, <1>8 DEF Printers
<1>11. /\ r.io = p.io /\ r.state = p.state /\ r.reconnectTimer = p.reconnectTimer
       /\ r.job = p.job /\ r.halted = p.halted /\ r.port = p.port
       /\ r.tx = p.tx /\ r.rx = p.rx /\ r.wire = p.wire
       /\ r.mode = p.mode /\ r.pendingError = p.pendingError
  BY <1>6 DEF Printers
<1> QED
  BY <1>2, <1>4, <1>9, <1>10, <1>11 DEF SameShell, less, line

-----------------------------------------------------------------------------
(***************************************************************************)
(* The connection is brought up in phases: the printer boots, then M110    *)
(* resets the line numbers, then commands go out.  Until M110 has been     *)
(* queued, nothing is sent; after that, no other M110 ever is.             *)
(***************************************************************************)
At(io, h) == {i \in DOMAIN io : io[i].h = h}
Numberings(io) == {i \in DOMAIN io : io[i].cmd.text = "M110"}
NumberedBehind(queue) == \A i \in DOMAIN queue : i > 1 => queue[i].text # "M110"

Blank(p) == p.queue = << >> /\ p.lineNo = 1
NoJobYet(p) ==
  p.state # "Connected" => p.job.st \notin {"Running", "Paused"} /\ ~p.job.ended

Booting(p) ==
  /\ p.state = "Initializing" /\ Blank(p) /\ At(p.io, "send") = {}
  /\ IF p.reconnectTimer = "init" THEN At(p.io, "init") = {}
     ELSE \E i \in DOMAIN p.io : At(p.io, "init") = {i}

Resetting(p) ==
  /\ p.state = "Initializing" /\ Blank(p)
  /\ p.reconnectTimer = "idle" /\ At(p.io, "init") = {}
  /\ \E i \in At(p.io, "send") :
       Numberings(p.io) = {i} /\ \A j \in At(p.io, "send") : i <= j

Going(p) ==
  /\ p.state \in {"Initializing", "Connected"}
  /\ p.reconnectTimer = "idle" /\ At(p.io, "init") = {}
  /\ Numberings(p.io) = {} /\ NumberedBehind(p.queue)

Phase(p) ==
  /\ p.reconnectTimer # "reconnect" /\ At(p.io, "reconnect") = {}
  /\ NoJobYet(p)
  /\ Booting(p) \/ Resetting(p) \/ Going(p)

(* Handlers that leave every phase as it is, and those that leave the last *)
(* one.                                                                    *)
Plain == [h : Completions \ {"reconnect", "init"}, cmd : {Bare}]
Tame == {hd \in Handlers : /\ hd.h \notin {"reconnect", "init"}
                           /\ hd.cmd.text # "M110"}

LEMMA PlainIs ==
  /\ Plain \subseteq Tame
  /\ \A hd \in Plain : hd.h \notin {"send", "reconnect", "init"}
  /\ \A h \in Completions \ {"reconnect", "init"} : Handler(h) \in Plain
  /\ \A text \in Texts, cb \in Callbacks :
       text # "M110" => Sending(text, cb) \in Tame
<1>1. NoCommand # "M110"
  BY DEF NoCommand
<1>2. \A hd \in Plain : hd.h \notin {"send", "reconnect", "init"}
  BY DEF Plain, Completions
<1>3. Plain \subseteq Tame
  BY <1>1, <1>2 DEF Plain, Tame, Bare, Handlers
<1>4. \A h \in Completions \ {"reconnect", "init"} : Handler(h) \in Plain
  BY DEF Plain, Handler
<1>5. \A text \in Texts, cb \in Callbacks :
        text # "M110" => Sending(text, cb) \in Tame
  BY DEF Tame, Handlers, Sending, Commands
<1> QED
  BY <1>2, <1>3, <1>4, <1>5

LEMMA GrowsMarks ==
  ASSUME NEW io \in Seq(Handlers), NEW jo \in Seq(Handlers), NEW K,
         Grows(io, jo, K)
  PROVE  /\ \A h : (\A hd \in K : hd.h # h) => At(jo, h) = At(io, h)
         /\ (\A hd \in K : hd.cmd.text # "M110") =>
              Numberings(jo) = Numberings(io)
<1>1. /\ DOMAIN io = 1..Len(io) /\ DOMAIN jo = 1..Len(jo)
      /\ Len(io) \in Nat /\ Len(jo) \in Nat
  OBVIOUS
<1>2. /\ DOMAIN io \subseteq DOMAIN jo
      /\ \A i \in DOMAIN io : jo[i] = io[i]
      /\ \A i \in DOMAIN jo : i \in DOMAIN io \/ jo[i] \in K
  BY <1>1 DEF Grows
<1>3. ASSUME NEW h, \A hd \in K : hd.h # h
      PROVE  At(jo, h) = At(io, h)
  BY <1>2, <1>3 DEF At
<1>4. ASSUME \A hd \in K : hd.cmd.text # "M110"
      PROVE  Numberings(jo) = Numberings(io)
  BY <1>2, <1>4 DEF Numberings
<1> QED
  BY <1>3, <1>4

LEMMA GrowsPlain ==
  ASSUME NEW io \in Seq(Handlers), NEW jo \in Seq(Handlers),
         Grows(io, jo, Plain)
  PROVE  /\ \A h \in {"send", "reconnect", "init"} : At(jo, h) = At(io, h)
         /\ Numberings(jo) = Numberings(io)
<1>1. \A hd \in Plain : hd.cmd.text # "M110"
  BY PlainIs DEF Tame
<1>2. \A h \in {"send", "reconnect", "init"} : \A hd \in Plain : hd.h # h
  BY PlainIs
<1> QED
  BY <1>1, <1>2, GrowsMarks

LEMMA GrowsTame ==
  ASSUME NEW io \in Seq(Handlers), NEW jo \in Seq(Handlers),
         Grows(io, jo, Tame)
  PROVE  /\ \A h \in {"reconnect", "init"} : At(jo, h) = At(io, h)
         /\ Numberings(jo) = Numberings(io)
<1>1. \A hd \in Tame : hd.cmd.text # "M110"
  BY DEF Tame
<1>2. \A h \in {"reconnect", "init"} : \A hd \in Tame : hd.h # h
  BY DEF Tame
<1> QED
  BY <1>1, <1>2, GrowsMarks

LEMMA GrowsMore ==
  ASSUME NEW io, NEW jo, NEW K, NEW L, K \subseteq L, Grows(io, jo, K)
  PROVE  Grows(io, jo, L)
BY DEF Grows

(* What the phase is about; the texts of the queue may stay in the same    *)
(* places with other callbacks.                                            *)
SamePhase(p, q) ==
  /\ q.state = p.state /\ q.reconnectTimer = p.reconnectTimer
  /\ q.lineNo = p.lineNo /\ q.queue = p.queue /\ q.job = p.job

LEMMA PlainPhase ==
  ASSUME NEW p \in Printers, NEW q \in Printers, SamePhase(p, q),
         Grows(p.io, q.io, Plain), Phase(p)
  PROVE  Phase(q)
<1>1. p.io \in Seq(Handlers) /\ q.io \in Seq(Handlers)
  BY DEF Printers
<1>2. /\ At(q.io, "send") = At(p.io, "send")
      /\ At(q.io, "reconnect") = At(p.io, "reconnect")
      /\ At(q.io, "init") = At(p.io, "init")
      /\ Numberings(q.io) = Numberings(p.io)
  BY <1>1, GrowsPlain
<1>3. DOMAIN p.io \subseteq DOMAIN q.io
  BY <1>1 DEF Grows
<1>4. Booting(p) => Booting(q)
  BY <1>2, <1>3 DEF Booting, Blank, SamePhase
<1>5. Resetting(p) => Resetting(q)
  BY <1>2 DEF Resetting, Blank, SamePhase
<1>6. Going(p) => Going(q)
  BY <1>2 DEF Going, SamePhase
<1> QED
  BY <1>2, <1>4, <1>5, <1>6 DEF Phase, SamePhase, NoJobYet

LEMMA TamePhase ==
  ASSUME NEW p \in Printers, NEW q \in Printers, Grows(p.io, q.io, Tame),
         Phase(p), Going(p), q.reconnectTimer = p.reconnectTimer,
         q.state \in {p.state, "Connected"}, NumberedBehind(q.queue),
         NoJobYet(q)
  PROVE  Phase(q) /\ Going(q)
<1>1. p.io \in Seq(Handlers) /\ q.io \in Seq(Handlers)
  BY DEF Printers
<1>2. /\ At(q.io, "reconnect") = At(p.io, "reconnect")
      /\ At(q.io, "init") = At(p.io, "init")
      /\ Numberings(q.io) = Numberings(p.io)
  BY <1>1, GrowsTame
<1>3. Going(q)
  BY <1>2 DEF Going
<1> QED
  BY <1>2, <1>3 DEF Phase

-----------------------------------------------------------------------------
(* The handler that is taken leaves the others in their order. *)
LEMMA MarksOfTail ==
  ASSUME NEW io \in Seq(Handlers), io # << >>
  PROVE  LET rest == Tail(io)
         IN  /\ rest \in Seq(Handlers) /\ DOMAIN rest \subseteq Nat
             /\ \A h : \A i \in Nat : i \in At(rest, h) <=> i >= 1 /\ i + 1 \in At(io, h)
             /\ \A i \in Nat : i \in Numberings(rest) <=> i >= 1 /\ i + 1 \in Numberings(io)
             /\ \A h : At(rest, h) \subseteq Nat \ {0} /\ At(io, h) \subseteq Nat \ {0}
             /\ Numberings(rest) \subseteq Nat \ {0}
             /\ Numberings(io) \subseteq Nat \ {0}
             /\ \A h : Head(io).h = h <=> 1 \in At(io, h)
             /\ Head(io).cmd.text = "M110" <=> 1 \in Numberings(io)
             /\ Head(io) \in Handlers
<1> DEFINE rest == Tail(io)
<1>1. /\ rest \in Seq(Handlers) /\ Len(io) \in Nat /\ Len(io) >= 1
      /\ DOMAIN io = 1..Len(io) /\ DOMAIN rest = 1..(Len(io) - 1)
      /\ \A i \in 1..(Len(io) - 1) : rest[i] = io[i + 1]
      /\ Head(io) = io[1] /\ Head(io) \in Handlers
  OBVIOUS
<1> HIDE DEF rest
<1>2. \A i \in Nat : i \in DOMAIN rest <=> i >= 1 /\ i + 1 \in DOMAIN io
  BY <1>1
<1>3. 1 \in DOMAIN io
  BY <1>1
<1>4. DOMAIN rest \subseteq Nat \ {0} /\ DOMAIN io \subseteq Nat \ {0}
  BY <1>1
<1>5. \A i \in Nat : i \in DOMAIN rest => rest[i] = io[i + 1]
  BY <1>1
<1>6. \A h : \A i \in Nat : i \in At(rest, h) <=> i >= 1 /\ i + 1 \in At(io, h)
  BY <1>2, <1>5 DEF At
<1>7. \A i \in Nat : i \in Numberings(rest) <=> i >= 1 /\ i + 1 \in Numberings(io)
  BY <1>2, <1>5 DEF Numberings
<1>8. /\ \A h : At(rest, h) \subseteq Nat \ {0} /\ At(io, h) \subseteq Nat \ {0}
      /\ Numberings(rest) \subseteq Nat \ {0}
      /\ Numberings(io) \subseteq Nat \ {0}
  BY <1>4 DEF At, Numberings
<1>9. /\ \A h : Head(io).h = h <=> 1 \in At(io, h)
      /\ Head(io).cmd.text = "M110" <=> 1 \in Numberings(io)
  BY <1>1, <1>3 DEF At, Numberings
<1> QED
  BY <1>1, <1>4, <1>6, <1>7, <1>8, <1>9 DEF rest

LEMMA TakenPhase ==
  ASSUME TypeOK, NEW h, Due(h), Phase(printer)
  PROVE  LET cmd == Head(printer.io).cmd
         IN  /\ At(Taken.io, "reconnect") = {} /\ h # "reconnect"
             /\ h \notin {"send", "init"} => Phase(Taken)
             /\ Going(printer) => Going(Taken) /\ Phase(Taken)
             /\ h = "send" =>
                  \/ Going(printer) /\ cmd.text # "M110"
                  \/ /\ Resetting(printer) /\ cmd.text = "M110"
                     /\ At(Taken.io, "init") = {} /\ Numberings(Taken.io) = {}
             /\ h = "init" =>
                  /\ Booting(printer) /\ Blank(Taken)
                  /\ Taken.state = "Initializing"
                  /\ Taken.reconnectTimer # "init"
                  /\ At(Taken.io, "init") = {} /\ At(Taken.io, "send") = {}
<1> DEFINE p == printer
           io == p.io
           rest == Tail(io)
           cmd == Head(io).cmd
<1>1. p \in Printers /\ io \in Seq(Handlers) /\ io # << >> /\ Head(io).h = h
  BY DEF TypeOK, Due, Printers
<1>2. /\ Taken.io = rest /\ Taken.state = p.state /\ Taken.queue = p.queue
      /\ Taken.lineNo = p.lineNo /\ Taken.job = p.job
      /\ Taken.reconnectTimer = p.reconnectTimer
  BY <1>1 DEF Taken, Printers
<1>3. /\ rest \in Seq(Handlers) /\ DOMAIN rest \subseteq Nat
      /\ \A g : \A i \in Nat : i \in At(rest, g) <=> i >= 1 /\ i + 1 \in At(io, g)
      /\ \A i \in Nat : i \in Numberings(rest) <=> i >= 1 /\ i + 1 \in Numberings(io)
      /\ \A g : At(rest, g) \subseteq Nat \ {0} /\ At(io, g) \subseteq Nat \ {0}
      /\ Numberings(rest) \subseteq Nat \ {0}
      /\ Numberings(io) \subseteq Nat \ {0}
      /\ \A g : Head(io).h = g <=> 1 \in At(io, g)
      /\ Head(io).cmd.text = "M110" <=> 1 \in Numberings(io)
      /\ Head(io) \in Handlers
  BY <1>1, MarksOfTail
<1> HIDE DEF rest
<1>4. \A g : At(io, g) = {} => At(rest, g) = {}
  BY <1>3
<1>5. Numberings(io) = {} => Numberings(rest) = {}
  BY <1>3
<1>6. At(rest, "reconnect") = {} /\ h # "reconnect"
  BY <1>1, <1>3, <1>4 DEF Phase
<1>7. Going(p) => Going(Taken) /\ Phase(Taken)
  BY <1>2, <1>4, <1>5, <1>6 DEF Going, Phase, NoJobYet
<1>8. \A i \in Nat \ {0} : i # 1 => i - 1 \in Nat /\ i - 1 >= 1 /\ (i - 1) + 1 = i
  OBVIOUS
<1>9. ASSUME h # "init", h # "send", Booting(p) PROVE Booting(Taken)
  <2>1. At(rest, "send") = {}
    BY <1>4, <1>9 DEF Booting
  <2>2. ASSUME p.reconnectTimer # "init"
        PROVE  \E i \in DOMAIN rest : At(rest, "init") = {i}
    <3>1. PICK i \in DOMAIN io : At(io, "init") = {i}
      BY <1>9, <2>2 DEF Booting
    <3>2. i \in Nat \ {0} /\ i # 1
      BY <1>1, <1>3, <1>9, <3>1
    <3>3. i - 1 \in At(rest, "init")
      BY <1>3, <1>8, <3>1, <3>2
    <3>4. ASSUME NEW j \in At(rest, "init") PROVE j = i - 1
      <4>1. j \in Nat /\ j + 1 \in At(io, "init")
        BY <1>3
      <4>2. j + 1 = i
        BY <3>1, <4>1
      <4> QED
        BY <3>2, <4>1, <4>2
    <3>5. At(rest, "init") = {i - 1}
      BY <3>3, <3>4
    <3> QED
      BY <3>3, <3>5 DEF At
  <2> QED
    BY <1>2, <1>4, <1>9, <2>1, <2>2 DEF Booting, Blank
<1>10. ASSUME h # "send", Resetting(p) PROVE Resetting(Taken)
  <2>1. PICK i \in At(io, "send") :
          Numberings(io) = {i} /\ \A j \in At(io, "send") : i <= j
    BY <1>10 DEF Resetting
  <2>2. i \in Nat \ {0} /\ i # 1
    BY <1>1, <1>3, <1>10, <2>1
  <2>3. i - 1 \in At(rest, "send") /\ i - 1 \in Numberings(rest)
    BY <1>3, <1>8, <2>1, <2>2
  <2>4. ASSUME NEW j \in Numberings(rest) PROVE j = i - 1
    <3>1. j \in Nat /\ j + 1 \in Numberings(io)
      BY <1>3
    <3>2. j + 1 = i
      BY <2>1, <3>1
    <3> QED
      BY <2>2, <3>1, <3>2
  <2>5. ASSUME NEW j \in At(rest, "send") PROVE i - 1 <= j
    <3>1. j \in Nat /\ j + 1 \in At(io, "send")
      BY <1>3
    <3>2. i <= j + 1
      BY <2>1, <3>1
    <3> QED
      BY <2>2, <3>1, <3>2
  <2>6. Numberings(rest) = {i - 1}
    BY <2>3, <2>4
  <2> QED
    BY <1>2, <1>4, <1>10, <2>3, <2>5, <2>6 DEF Resetting, Blank
<1>11. ASSUME h \notin {"send", "init"} PROVE Phase(Taken)
  BY <1>2, <1>6, <1>7, <1>9, <1>10, <1>11 DEF Phase, NoJobYet
<1>12. ASSUME h = "send"
       PROVE  \/ Going(p) /\ cmd.text # "M110"
              \/ /\ Resetting(p) /\ cmd.text = "M110"
                 /\ At(rest, "init") = {} /\ Numberings(rest) = {}
  <2>1. 1 \in At(io, "send")
    BY <1>1, <1>3, <1>12
  <2>2. ~Booting(p)
    BY <2>1 DEF Booting
  <2>3. Going(p) => cmd.text # "M110"
    BY <1>3 DEF Going
  <2>4. ASSUME Resetting(p)
        PROVE  cmd.text = "M110" /\ Numberings(rest) = {}
    <3>1. PICK i \in At(io, "send") :
            Numberings(io) = {i} /\ \A j \in At(io, "send") : i <= j
      BY <2>4 DEF Resetting
    <3>2. i \in Nat \ {0} /\ i <= 1
      BY <1>3, <2>1, <3>1
    <3>3. i = 1
      BY <3>2
    <3>4. ASSUME NEW j \in Numberings(rest) PROVE FALSE
      <4>1. j \in Nat /\ j >= 1 /\ j + 1 = 1
        BY <1>3, <3>1, <3>3
      <4> QED
        BY <4>1
    <3> QED
      BY <1>3, <3>1, <3>3, <3>4
  <2> QED
    BY <1>4, <2>2, <2>3, <2>4 DEF Phase, Resetting
<1>13. ASSUME h = "init"
       PROVE  /\ Booting(p) /\ Blank(Taken) /\ Taken.state = "Initializing"
              /\ Taken.reconnectTimer # "init"
              /\ At(rest, "init") = {} /\ At(rest, "send") = {}
  <2>1. 1 \in At(io, "init")
    BY <1>1, <1>3, <1>13
  <2>2. Booting(p) /\ p.reconnectTimer # "init"
    BY <2>1 DEF Phase, Resetting, Going, Booting
  <2>3. PICK i \in DOMAIN io : At(io, "init") = {i}
    BY <2>2 DEF Booting
  <2>4. i = 1
    BY <2>1, <2>3
  <2>5. ASSUME NEW j \in At(rest, "init") PROVE FALSE
    <3>1. j \in Nat /\ j >= 1 /\ j + 1 = 1
      BY <1>3, <2>3, <2>4
    <3> QED
      BY <3>1
  <2> QED
    BY <1>2, <1>4, <2>2, <2>5 DEF Booting, Blank
<1> QED
  BY <1>2, <1>6, <1>7, <1>11, <1>12, <1>13

-----------------------------------------------------------------------------
(* Only dashprint itself resets the line numbers. *)
OwnNumbering ==
  /\ "M110" \notin UserTexts
  /\ \A i \in DOMAIN JobFile : JobFile[i] # "M110"

(* What a method does that calls and sends, but neither reads nor writes.  *)
Gentle(p, q) ==
  /\ q \in Printers /\ SameTalk(p, q) /\ Grows(p.io, q.io, Tame)
  /\ q.port = p.port /\ q.reconnectTimer = p.reconnectTimer
  /\ q.state \in {p.state, "Connected"}
  /\ NumberedBehind(p.queue) => NumberedBehind(q.queue)
  /\ NoJobYet(p) => NoJobYet(q)

LEMMA GentleTrans ==
  ASSUME NEW p \in Printers, NEW q, NEW r, Gentle(p, q), Gentle(q, r)
  PROVE  Gentle(p, r)
<1>1. p.io \in Seq(Handlers) /\ q.io \in Seq(Handlers) /\ r.io \in Seq(Handlers)
  BY DEF Gentle, Printers
<1>2. Grows(p.io, q.io, Tame) /\ Grows(q.io, r.io, Tame)
  BY DEF Gentle
<1>3. Grows(p.io, r.io, Tame)
  BY <1>1, <1>2, GrowsTrans
<1>4. SameTalk(p, r)
  BY SameTalkTrans DEF Gentle
<1> QED
  BY <1>3, <1>4 DEF Gentle

LEMMA GentleNot ==
  ASSUME NEW p \in Printers
  PROVE  Gentle(p, p)
<1>1. p.io \in Seq(Handlers)
  BY DEF Printers
<1>2. Grows(p.io, p.io, Tame)
  BY <1>1, GrowsNot
<1> QED
  BY <1>2 DEF Gentle, SameTalk

LEMMA GentleKeeps ==
  ASSUME NEW p \in Printers, NEW q, NEW f, Gentle(p, q), Talk(p, f),
         Phase(p), Going(p)
  PROVE  Talk(q, f) /\ Phase(q) /\ Going(q)
<1>1. q \in Printers /\ NumberedBehind(q.queue) /\ NoJobYet(q)
  BY DEF Gentle, Phase, Going
<1> QED
  BY <1>1, TamePhase, SameTalkTalk DEF Gentle

LEMMA SendCommandGentle ==
  ASSUME NEW p \in Printers, NEW text \in Texts, NEW cb \in Callbacks,
         text # "M110"
  PROVE  Gentle(p, SendCommand(p, text, cb))
<1> DEFINE q == SendCommand(p, text, cb)
<1>1. Grows(p.io, q.io, Tame)
  <2>1. Sending(text, cb) \in Tame
    BY PlainIs
  <2> QED
    BY <2>1, SendCommandGrows
<1>2. q \in Printers /\ SamePort(p, q) /\ SameQueue(p, q) /\ q.state = p.state
  BY SendCommandLemma
<1>3. q.job = p.job
  BY DEF SendCommand, Printers
<1>4. SameTalk(p, q)
  BY SendCommandTalk
<1> HIDE DEF q
<1> QED
  BY <1>1, <1>2, <1>3, <1>4 DEF Gentle, SamePort, SameQueue, NoJobYet, q

LEMMA SendCommandsGentle ==
  ASSUME NEW p \in Printers, NEW texts \in Seq(Texts),
         \A i \in DOMAIN texts : texts[i] # "M110"
  PROVE  Gentle(p, SendCommands(p, texts))
<1> DEFINE q == SendCommands(p, texts)
<1>1. Grows(p.io, q.io, Tame)
  <2>1. \A i \in DOMAIN texts : texts[i] \in Texts
    OBVIOUS
  <2>2. "none" \in Callbacks
    BY DEF Callbacks
  <2>3. \A i \in DOMAIN texts : Sending(texts[i], "none") \in Tame
    BY <2>1, <2>2, PlainIs
  <2> QED
    BY <2>3, SendCommandsGrows
<1>2. q \in Printers /\ SamePort(p, q) /\ SameQueue(p, q) /\ q.state = p.state
  BY SendCommandsLemma
<1>3. q.job = p.job
  BY DEF SendCommands, Printers
<1>4. SameTalk(p, q)
  BY SendCommandsTalk
<1> HIDE DEF q
<1> QED
  BY <1>1, <1>2, <1>3, <1>4 DEF Gentle, SamePort, SameQueue, NoJobYet, q

LEMMA LinesProcessedGentle ==
  ASSUME OwnNumbering, NEW p \in Printers, NEW n \in Nat
  PROVE  Gentle(p, LinesProcessed(p, n))
<1> DEFINE q == LinesProcessed(p, n)
<1>1. Grows(p.io, q.io, Tame)
  <2>1. \A i \in DOMAIN JobFile : JobFile[i] \in Texts
    BY TextAssumption
  <2>2. "job" \in Callbacks
    BY DEF Callbacks
  <2>3. \A i \in DOMAIN JobFile : Sending(JobFile[i], "job") \in Tame
    BY <2>1, <2>2, PlainIs DEF OwnNumbering
  <2> QED
    BY <2>3, LinesProcessedGrows
<1>2. q \in Printers /\ SamePort(p, q) /\ SameQueue(p, q) /\ q.state = p.state
  BY LinesProcessedLemma
<1>3. NoJobYet(p) => NoJobYet(q)
  <2>1. CASE p.state = "Connected"
    BY <1>2, <2>1 DEF NoJobYet
  <2>2. CASE p.job.st # "Running"
    BY <2>2 DEF LinesProcessed, Continues
  <2> QED
    BY <2>1, <2>2 DEF NoJobYet
<1>4. SameTalk(p, q)
  BY LinesProcessedTalk
<1> HIDE DEF q
<1> QED
  BY <1>1, <1>2, <1>3, <1>4 DEF Gentle, SamePort, SameQueue, q

LEMMA GetTemperatureGentle ==
  ASSUME NEW p \in Printers
  PROVE  Gentle(p, GetTemperature(p))
<1>1. "M105" \in Texts /\ "temp" \in Callbacks /\ "M105" # "M110"
  BY DEF Texts, OwnTexts, Callbacks
<1> QED
  BY <1>1, SendCommandGentle, GentleNot DEF GetTemperature

(***************************************************************************)
(* The answer of the front command: its callback, and the pop.             *)
(***************************************************************************)
LEMMA AnswerIs ==
  ASSUME OwnNumbering, NEW p \in Printers, p.queue # << >>
  PROVE  \E q : /\ Gentle(p, q) /\ q.queue = p.queue
                /\ Answer(p) = [q EXCEPT !.queue = Tail(@)]
<1> DEFINE cb == Head(p.queue).cb
           info == GetTemperature(ShowStartupMessage(SetState(p, "Connected")))
           called ==
             CASE cb = "info" -> info
               [] cb = "temp" -> [p EXCEPT !.tempTimer = TRUE]
               [] cb = "client" -> [p EXCEPT !.replies = @ + 1]
               [] cb = "job" -> LinesProcessed(p, 1)
               [] cb = "stale" -> [p EXCEPT !.halted = TRUE]
               [] OTHER -> p
           Fine(q) == Gentle(p, q) /\ q.queue = p.queue
<1>1. Answer(p) = [called EXCEPT !.queue = Tail(@)]
  BY DEF Answer
<1>2. Fine(info)
  <2> DEFINE q == SetState(p, "Connected")
             r == ShowStartupMessage(q)
  <2>1. q \in Printers /\ q.state = "Connected" /\ q.queue = p.queue
    BY SetStateLemma DEF States, SameQueue
  <2>2. Gentle(p, q)
    <3>1. q = [p EXCEPT !.state = "Connected"]
      BY DEF SetState, Printers
    <3>2. SameTalk(p, q) /\ q.io = p.io /\ q.port = p.port
          /\ q.reconnectTimer = p.reconnectTimer
      BY <3>1 DEF Printers, SameTalk
    <3> HIDE DEF q
    <3>3. Grows(p.io, q.io, Tame)
      <4>1. p.io \in Seq(Handlers)
        BY DEF Printers
      <4> QED
        BY <3>2, <4>1, GrowsNot
    <3> QED
      BY <2>1, <3>2, <3>3 DEF Gentle, NoJobYet
  <2> HIDE DEF q
  <2>3. "M117" \in Texts /\ "none" \in Callbacks /\ "M117" # "M110"
    BY DEF Texts, OwnTexts, Callbacks
  <2>4. Gentle(q, r) /\ r \in Printers /\ r.queue = q.queue
    BY <2>1, <2>3, SendCommandGentle, SendCommandLemma
       DEF ShowStartupMessage, SameQueue
  <2>5. info = GetTemperature(r)
    BY DEF q
  <2> HIDE DEF r, info
  <2>6. Gentle(r, info) /\ info.queue = r.queue
    BY <2>4, <2>5, GetTemperatureGentle, GetTemperatureLemma DEF SameQueue
  <2> QED
    BY <2>1, <2>2, <2>4, <2>6, GentleTrans
<1>3. /\ Fine([p EXCEPT !.tempTimer = TRUE])
      /\ Fine([p EXCEPT !.replies = @ + 1])
      /\ Fine([p EXCEPT !.halted = TRUE])
  <2>1. p.io \in Seq(Handlers)
    BY DEF Printers
  <2>2. Grows(p.io, p.io, Tame)
    BY <2>1, GrowsNot
  <2>3. p.replies + 1 \in Nat
    BY DEF Printers
  <2> QED
    BY <2>2, <2>3 DEF Gentle, SameTalk, NoJobYet, Printers
<1>4. Fine(LinesProcessed(p, 1))
  BY LinesProcessedGentle, LinesProcessedLemma DEF SameQueue
<1>5. Fine(p)
  BY GentleNot
<1> HIDE DEF Fine, info
<1>6. Fine(called)
  <2>1. CASE cb = "info"
    BY <1>2, <2>1
  <2>2. CASE cb = "temp"
    BY <1>3, <2>2
  <2>3. CASE cb = "job"
    BY <1>4, <2>3
  <2>4. CASE cb = "stale"
    BY <1>3, <2>4
  <2>5. CASE cb = "client"
    BY <1>3, <2>5
  <2>6. CASE cb \notin {"info", "temp", "client", "job", "stale"}
    BY <1>5, <2>6
  <2> HIDE DEF cb
  <2> QED
    BY <2>1, <2>2, <2>3, <2>4, <2>5, <2>6
<1> HIDE DEF called
<1> QED
  BY <1>1, <1>6 DEF Fine

LEMMA DoReadShell ==
  ASSUME NEW p \in Printers
  PROVE  LET r == DoRead(p)
         IN  /\ r \in Printers /\ SameTalk(p, r) /\ SamePhase(p, r)
             /\ r.port = p.port /\ r.halted = p.halted
             /\ Grows(p.io, r.io, Plain)
<1> DEFINE r == DoRead(p)
<1>1. r \in Printers /\ SameTalk(p, r)
  BY DoReadLemma, DoReadTalk
<1>2. SamePhase(p, r) /\ r.port = p.port /\ r.halted = p.halted
  BY DEF SamePhase, DoRead, Post, Printers
<1>3. Grows(p.io, r.io, Plain)
  <2>1. Handler("readOk") \in Plain /\ Handler("readErr") \in Plain
    BY PlainIs DEF Completions
  <2>2. p.io \in Seq(Handlers)
    BY DEF Printers
  <2>3. /\ Grows(p.io, p.io, Plain)
        /\ Grows(p.io, Post(p, "readOk").io, Plain)
        /\ Grows(p.io, Post(p, "readErr").io, Plain)
    BY <2>1, <2>2, GrowsNot, PostGrows
  <2>4. [p EXCEPT !.reads = @ + 1].io = p.io
    BY DEF Printers
  <2> QED
    BY <2>3, <2>4 DEF DoRead
<1> QED
  BY <1>1, <1>2, <1>3

LEMMA NextShell ==
  ASSUME NEW p \in Printers, Writable(p)
  PROVE  LET r == NextCommand(p)
         IN  /\ r \in Printers /\ r.queue = p.queue /\ r.state = p.state
             /\ r.job = p.job /\ r.reconnectTimer = p.reconnectTimer
             /\ r.halted = p.halted /\ Grows(p.io, r.io, Plain)
             /\ r.queue # << >> => r.tx # << >>
<1> DEFINE q == [p EXCEPT !.resend = NoLine, !.executing = NoCommand]
           w == DoWrite(q)
           r == DoRead(w)
<1>1. q \in Printers
  <2>1. NoLine \in Int
    BY DEF NoLine
  <2> QED
    BY <2>1 DEF Printers
<1>2. /\ Writable(q) /\ q.queue = p.queue /\ q.state = p.state
      /\ q.job = p.job /\ q.reconnectTimer = p.reconnectTimer
      /\ q.io = p.io /\ q.halted = p.halted /\ q.executing = NoCommand
  BY DEF Writable, Printers
<1>3. NextCommand(p) = r
  BY DEF NextCommand
<1> HIDE DEF q
<1>4. /\ w \in Printers /\ w.queue = q.queue /\ w.state = q.state
      /\ w.reconnectTimer = q.reconnectTimer
  BY <1>1, DoWriteLemma DEF SamePort
<1>5. w.io = q.io /\ w.job = q.job /\ w.halted = q.halted
  <2>1. CASE MayWrite(q)
    BY <1>1, <1>2, <2>1, DoWriteIs
  <2>2. CASE ~MayWrite(q)
    BY <2>2 DEF DoWrite
  <2> QED
    BY <2>1, <2>2
<1>6. q.queue # << >> => w.tx # << >>
  <2> SUFFICES ASSUME q.queue # << >> PROVE w.tx # << >>
    OBVIOUS
  <2>1. MayWrite(q)
    BY <1>2 DEF MayWrite
  <2>2. PICK frame \in Frames : w.tx = Append(q.tx, frame)
    BY <1>1, <1>2, <2>1, DoWriteSends
  <2>3. q.tx \in Seq(Frames)
    BY <1>1 DEF Printers
  <2>4. Append(q.tx, frame) # << >>
    BY <2>3, AppendProperties
  <2> HIDE DEF w
  <2> QED
    BY <2>2, <2>4
<1> HIDE DEF w
<1>7. /\ r \in Printers /\ SamePhase(w, r) /\ Grows(w.io, r.io, Plain)
      /\ r.halted = w.halted /\ SameTalk(w, r)
  BY <1>4, DoReadShell
<1> HIDE DEF r
<1> QED
  BY <1>2, <1>3, <1>4, <1>5, <1>6, <1>7 DEF SamePhase, SameTalk

(* The next command after an answer, whatever became of the last.          *)
LEMMA NextKeeps ==
  ASSUME NEW p \in Printers, NEW f \in Firmwares, HistoryLimit < MaxLineNo,
         Writable(p), Free(p, f), Phase(p), Going(p)
  PROVE  Talk(NextCommand(p), f) /\ Phase(NextCommand(p))
<1> DEFINE r == NextCommand(p)
<1>1. Talk(r, f)
  BY NextTalks
<1>2. /\ r \in Printers /\ r.queue = p.queue /\ r.state = p.state
      /\ r.job = p.job /\ r.reconnectTimer = p.reconnectTimer
      /\ Grows(p.io, r.io, Tame)
  BY NextShell, PlainIs, GrowsMore
<1> HIDE DEF r
<1>3. NumberedBehind(r.queue) /\ NoJobYet(r)
  BY <1>2 DEF Going, Phase, NoJobYet
<1>4. Phase(r)
  BY <1>2, <1>3, TamePhase
<1> QED
  BY <1>1, <1>4 DEF r

(* An answer has been read to its end, which is the ok. *)
Ended(p, f) ==
  /\ InFlight(p) /\ ~p.pendingError
  /\ Numbered(p.history, p.lineNo) /\ p.queue # << >>
  /\ p.tx = << >> /\ p.rx = << >> /\ p.wire = << >>
  /\ \/ /\ p.resend = NoLine /\ p.mode = f.mode
        /\ f.last = IF p.lineNo = 0 THEN 0 ELSE p.lineNo - 1
     \/ /\ UsesLineNumber(p.executing)
        /\ p.mode = Positioned(f.mode, p.executing)
        /\ f.last = p.lineNo - 2 /\ p.resend = p.lineNo - 1

LEMMA ConfirmedKeeps ==
  ASSUME OwnNumbering, HistoryLimit < MaxLineNo,
         NEW p \in Printers, NEW f \in Firmwares, Writable(p),
         Phase(p), Going(p), Ended(p, f)
  PROVE  Talk(Confirmed(p), f) /\ Phase(Confirmed(p))
<1> DEFINE r == IF p.lineNo = 0 THEN [p EXCEPT !.lineNo = 1]
                ELSE IF p.resend # NoLine THEN HandleResend(p, p.resend)
                ELSE Answer(p)
<1>0. /\ InFlight(p) /\ ~p.pendingError
      /\ Numbered(p.history, p.lineNo) /\ p.queue # << >>
      /\ p.tx = << >> /\ p.rx = << >> /\ p.wire = << >>
      /\ \/ /\ p.resend = NoLine /\ p.mode = f.mode
            /\ f.last = IF p.lineNo = 0 THEN 0 ELSE p.lineNo - 1
         \/ /\ UsesLineNumber(p.executing)
            /\ p.mode = Positioned(f.mode, p.executing)
            /\ f.last = p.lineNo - 2 /\ p.resend = p.lineNo - 1
  BY DEF Ended
<1> USE <1>0
<1>1. Confirmed(p) = NextCommand(r)
  BY ConfirmedIs
<1>2. p.lineNo \in 0..MaxLineNo /\ MaxLineNo \in Nat /\ MaxLineNo > 1
      /\ p.io \in Seq(Handlers) /\ p.queue \in Seq(Commands)
  BY LimitAssumption DEF Printers
<1>3. Grows(p.io, p.io, Tame)
  BY <1>2, GrowsNot
<1>4. NumberedBehind(p.queue) /\ NoJobYet(p)
  BY DEF Going, Phase
<1>5. p.resend = p.lineNo - 1 /\ UsesLineNumber(p.executing) =>
        /\ p.executing = Head(p.queue).text /\ p.lineNo >= 2
        /\ p.history # << >> /\ p.resend # NoLine /\ p.executing # "M110"
  <2>1. p.lineNo >= 2 => p.lineNo - 1 # NoLine
    BY <1>2 DEF NoLine
  <2> QED
    BY <2>1 DEF InFlight, UsesLineNumber
<1>6. CASE p.lineNo = 0
  <2>1. r = [p EXCEPT !.lineNo = 1]
    BY <1>6
  <2> HIDE DEF r
  <2>2. r \in Printers
    BY <2>1, LineNumbers DEF Printers
  <2>3. /\ r.lineNo = 1 /\ r.io = p.io /\ r.queue = p.queue /\ r.job = p.job
        /\ r.state = p.state /\ r.reconnectTimer = p.reconnectTimer
        /\ r.port = p.port /\ r.history = p.history /\ r.mode = p.mode
        /\ r.tx = p.tx /\ r.rx = p.rx /\ r.wire = p.wire
        /\ r.pendingError = p.pendingError
    BY <2>1 DEF Printers
  <2>4. Phase(r) /\ Going(r)
    <3>1. NumberedBehind(r.queue) /\ NoJobYet(r)
      BY <1>4, <2>3 DEF NoJobYet
    <3> QED
      BY <1>3, <2>2, <2>3, <3>1, TamePhase
  <2>5. ~(p.lineNo >= 2) /\ ~(p.lineNo >= 1) /\ p.lineNo # 1
    BY <1>6
  <2>6. Head(p.queue).text # "M110" /\ p.resend = NoLine
    BY <1>5, <2>5 DEF InFlight
  <2>7. p.mode = f.mode /\ f.last = 0
    BY <1>6, <2>5, <2>6, <1>5
  <2>8. Numbered(r.history, 1)
    <3>1. LastLine(0) = LastLine(1)
      BY DEF LastLine
    <3> QED
      BY <1>6, <2>3, <3>1 DEF Numbered
  <2>9. r.lineNo >= 1 /\ f.last = r.lineNo - 1
    BY <2>3, <2>7
  <2>10. Free(r, f) /\ Writable(r)
    BY <2>3, <2>6, <2>7, <2>8, <2>9 DEF Free, Writable
  <2> QED
    BY <1>1, <2>2, <2>4, <2>10, NextKeeps
<1>7. CASE p.lineNo # 0 /\ p.resend # NoLine
  <2>1. /\ UsesLineNumber(p.executing) /\ p.resend = p.lineNo - 1
        /\ p.mode = Positioned(f.mode, p.executing) /\ f.last = p.lineNo - 2
    BY <1>7
  <2>2. r = HandleResend(p, p.lineNo - 1)
    BY <1>7, <2>1
  <2>3. /\ r \in Printers /\ SameShell(p, r)
        /\ r.tx = p.tx /\ r.rx = p.rx /\ r.wire = p.wire
        /\ r.mode = p.mode /\ r.pendingError = p.pendingError
        /\ r.lineNo = p.lineNo - 1 /\ Numbered(r.history, r.lineNo)
    BY <1>5, <2>1, <2>2, HandleResendIs
  <2> HIDE DEF r
  <2>4. Phase(r) /\ Going(r)
    <3>1. NumberedBehind(r.queue) /\ NoJobYet(r)
      BY <1>4, <2>3 DEF NoJobYet, SameShell
    <3> QED
      BY <1>3, <2>3, <3>1, TamePhase DEF SameShell
  <2>5. r.lineNo >= 1 /\ f.last = r.lineNo - 1 /\ r.lineNo < MaxLineNo
    BY <1>2, <1>5, <2>1, <2>3
  <2>6. Free(r, f) /\ Writable(r)
    BY <1>5, <2>1, <2>3, <2>5 DEF Free, Writable, SameShell
  <2> QED
    BY <1>1, <2>3, <2>4, <2>6, NextKeeps
<1>8. CASE p.lineNo # 0 /\ p.resend = NoLine
  <2>1. p.mode = f.mode /\ f.last = p.lineNo - 1
    BY <1>5, <1>8
  <2>2. r = Answer(p)
    BY <1>8
  <2>3. PICK q : /\ Gentle(p, q) /\ q.queue = p.queue
                 /\ r = [q EXCEPT !.queue = Tail(@)]
    BY <2>2, AnswerIs
  <2> HIDE DEF r
  <2>4. Tail(p.queue) \in Seq(Commands)
    BY <1>2
  <2>5. r \in Printers
    BY <2>3, <2>4 DEF Gentle, Printers
  <2>6. /\ r.queue = Tail(p.queue) /\ r.io = q.io /\ r.state = q.state
        /\ r.job = q.job /\ r.reconnectTimer = p.reconnectTimer
        /\ r.port = p.port
        /\ r.tx = p.tx /\ r.rx = p.rx /\ r.wire = p.wire
        /\ r.mode = p.mode /\ r.pendingError = p.pendingError
        /\ r.lineNo = p.lineNo /\ r.history = p.history
    BY <2>3 DEF Gentle, SameTalk, Printers
  <2>7. \A i \in DOMAIN r.queue : r.queue[i].text # "M110"
    <3>1. \A i \in DOMAIN Tail(p.queue) :
            /\ i + 1 \in DOMAIN p.queue /\ i + 1 > 1
            /\ Tail(p.queue)[i] = p.queue[i + 1]
      BY <1>2
    <3> QED
      BY <1>4, <2>6, <3>1 DEF NumberedBehind
  <2>8. Phase(r) /\ Going(r)
    <3>1. NumberedBehind(r.queue)
      BY <2>7 DEF NumberedBehind
    <3>2. NoJobYet(r)
      BY <1>4, <2>3, <2>6 DEF Gentle, NoJobYet
    <3>3. r.state \in {p.state, "Connected"} /\ Grows(p.io, r.io, Tame)
      BY <2>3, <2>6 DEF Gentle
    <3> QED
      BY <2>5, <2>6, <3>1, <3>2, <3>3, TamePhase
  <2>9. r.queue # << >> => Head(r.queue).text # "M110"
    <3>1. r.queue \in Seq(Commands)
      BY <2>5 DEF Printers
    <3>2. r.queue # << >> => 1 \in DOMAIN r.queue /\ Head(r.queue) = r.queue[1]
      BY <3>1
    <3> QED
      BY <2>7, <3>2
  <2>10. r.lineNo >= 1 /\ f.last = r.lineNo - 1
    BY <1>2, <1>8, <2>1, <2>6
  <2>11. Free(r, f) /\ Writable(r)
    BY <2>1, <2>6, <2>9, <2>10 DEF Free, Writable
  <2> QED
    BY <1>1, <2>5, <2>8, <2>11, NextKeeps
<1> QED
  BY <1>6, <1>7, <1>8

(* One more line of an answer: its end, or a note or request before. *)
LEMMA ReadDoneIs ==
  ASSUME NEW q \in Printers, NEW f \in Firmwares, Talk(q, f), Phase(q)
  PROVE  \E p \in Printers :
           /\ SamePhase(q, p) /\ p.io = q.io /\ p.port = q.port
           /\ p.executing = q.executing /\ p.halted = q.halted
           /\ Phase(p)
           /\ \/ ReadDone(q) = DoRead(p) /\ Talk(p, f)
              \/ ReadDone(q) = Confirmed(p) /\ Going(p) /\ Ended(p, f)
<1> DEFINE line == IF q.rx = << >> THEN [t |-> "other", n |-> NoLine]
                   ELSE Head(q.rx)
           rx == IF q.rx = << >> THEN q.rx ELSE Tail(q.rx)
           resend == IF q.resend = NoLine /\ line.t = "resend" THEN line.n
                     ELSE q.resend
           p == [q EXCEPT !.quiet = 0, !.rx = rx, !.resend = resend]
<1>1. /\ q.rx \in Seq(Lines) /\ q.wire \in Seq(Lines) /\ q.io \in Seq(Handlers)
      /\ q.queue \in Seq(Commands)
  BY DEF Printers
<1>2. /\ line.t = "ok" => ReadDone(q) = Confirmed(p)
      /\ line.t \in {"other", "resend"} => ReadDone(q) = DoRead(p)
  <2>1. [q EXCEPT !.quiet = 0,
                  !.rx = IF @ = << >> THEN @ ELSE Tail(@),
                  !.resend = IF @ = NoLine /\ line.t = "resend"
                               THEN line.n ELSE @] = p
    BY DEF Printers
  <2> HIDE DEF p
  <2> QED
    BY <2>1 DEF ReadDone
<1>3. rx \in Seq(Lines) /\ line \in Lines /\ resend \in Int
  <2>1. [t |-> "other", n |-> NoLine] \in Lines
    BY DEF Lines, NoLine
  <2>2. q.rx # << >> => Head(q.rx) \in Lines /\ Tail(q.rx) \in Seq(Lines)
    BY <1>1
  <2>3. line \in Lines
    BY <2>1, <2>2
  <2>4. line.n \in Int
    BY <2>3 DEF Lines
  <2> HIDE DEF line
  <2> QED
    BY <1>1, <2>2, <2>3, <2>4 DEF Printers
<1> HIDE DEF line, rx, resend
<1>4. p \in Printers
  BY <1>3 DEF Printers
<1>5. /\ p.rx = rx /\ p.resend = resend /\ p.wire = q.wire /\ p.tx = q.tx
      /\ p.executing = q.executing /\ p.mode = q.mode /\ p.lineNo = q.lineNo
      /\ p.history = q.history /\ p.pendingError = q.pendingError
      /\ p.queue = q.queue /\ p.io = q.io /\ p.port = q.port
      /\ p.halted = q.halted /\ SamePhase(q, p)
  BY DEF Printers, SamePhase
<1> HIDE DEF p
<1>6. Phase(p)
  <2>1. Grows(q.io, p.io, Plain)
    BY <1>1, <1>5, GrowsNot
  <2> QED
    BY <1>4, <1>5, <2>1, PlainPhase
<1>7. SUFFICES \/ ReadDone(q) = DoRead(p) /\ Talk(p, f)
               \/ ReadDone(q) = Confirmed(p) /\ Going(p) /\ Ended(p, f)
  BY <1>4, <1>5, <1>6
<1>8. CASE q.rx = << >>
  <2>1. line.t = "other" /\ rx = q.rx
    BY <1>8 DEF line, rx
  <2>2. resend = q.resend
    BY <2>1 DEF resend
  <2>3. SameTalk(q, p)
    BY <1>5, <2>1, <2>2 DEF SameTalk
  <2> QED
    BY <1>2, <2>1, <2>3, SameTalkTalk
<1>9. CASE q.rx # << >>
  <2> DEFINE said == Said(q)
             rest == Tail(said)
  <2>1. /\ said \in Seq(Lines) /\ said # << >>
        /\ rx \o q.wire = rest /\ line = said[1]
    <3>1. /\ q.rx \o q.wire \in Seq(Lines) /\ q.rx \o q.wire # << >>
          /\ Tail(q.rx) \o q.wire = Tail(q.rx \o q.wire)
          /\ Head(q.rx) = (q.rx \o q.wire)[1]
      BY <1>1, <1>9, SaidTail
    <3> QED
      BY <1>9, <3>1 DEF Said, line, rx
  <2>2. Said(p) = rest
    BY <1>5, <2>1 DEF Said
  <2>3. /\ Flying(q, f) /\ ~Written(q, f) /\ q.queue # << >> /\ q.tx = << >>
        /\ q.executing # NoCommand /\ InFlight(q)
        /\ ~q.pendingError /\ Numbered(q.history, q.lineNo)
        /\ Accepted(q, f) \/ Declined(q, f)
    BY <1>9 DEF Talk, Still, Flying, Written, Accepted, Declined
  <2>4. Going(p) /\ InFlight(p)
    BY <1>5, <1>6, <2>3 DEF Phase, Booting, Resetting, Blank, InFlight
  <2> HIDE DEF said
  <2>5. CASE line.t = "ok"
    <3>1. ASSUME NEW S, Ending(said, S), \A x \in S : x.t # "ok"
          PROVE  rx = << >> /\ q.wire = << >> /\ Len(said) = 1
      <4>1. Len(said) = 1
        BY <2>1, <2>5, <3>1, EndingFirst
      <4>2. rest = << >>
        <5>1. rest \in Seq(Lines) /\ Len(rest) = Len(said) - 1
          BY <2>1
        <5>2. Len(rest) = 0
          BY <4>1, <5>1
        <5> HIDE DEF rest
        <5> QED
          BY <5>1, <5>2, EmptySeq
      <4>3. rx \in Seq(Lines) /\ q.wire \in Seq(Lines) /\ rx \o q.wire = << >>
        BY <1>1, <1>3, <2>1, <4>2
      <4> QED
        BY <4>1, <4>3
    <3>2. CASE Accepted(q, f)
      <4>1. \A x \in Others : x.t # "ok"
        BY DEF Others, Line
      <4>2. rx = << >> /\ q.wire = << >>
        BY <3>1, <3>2, <4>1 DEF Accepted, said
      <4>3. resend = NoLine
        BY <2>5, <3>2 DEF Accepted, resend
      <4> QED
        BY <1>2, <1>5, <2>3, <2>4, <2>5, <3>2, <4>2, <4>3
           DEF Accepted, Ended
    <3>3. CASE Declined(q, f)
      <4>1. \A x \in {Again(q.lineNo - 1)} : x.t # "ok"
        BY DEF Again
      <4>2. rx = << >> /\ q.wire = << >> /\ Len(said) = 1
        BY <3>1, <3>3, <4>1 DEF Declined, said
      <4>3. q.resend = q.lineNo - 1
        <5>1. ~(Len(said) > 1)
          BY <4>2
        <5> QED
          BY <3>3, <5>1 DEF Declined, said
      <4>4. resend = q.resend
        BY <2>5 DEF resend
      <4> QED
        BY <1>2, <1>5, <2>3, <2>4, <2>5, <3>3, <4>2, <4>3, <4>4
           DEF Declined, Ended
    <3> QED
      BY <2>3, <3>2, <3>3
  <2>6. CASE line.t # "ok"
    <3>1. CASE Accepted(q, f)
      <4>1. \A x \in Others : x.t # "ok"
        BY DEF Others, Line
      <4>2. Ending(said, Others)
        BY <3>1 DEF Accepted, said
      <4>3. line \in Others /\ Ending(rest, Others)
        BY <2>1, <2>6, <4>1, <4>2, EndingFirst
      <4>4. line.t = "other"
        BY <4>3 DEF Others, Line
      <4>5. resend = NoLine
        BY <3>1, <4>4 DEF resend, Accepted
      <4>6. Accepted(p, f)
        BY <1>5, <2>2, <2>3, <3>1, <4>3, <4>5 DEF Accepted
      <4>7. Talk(p, f)
        BY <1>5, <2>3, <2>4, <4>6 DEF Talk, Flying
      <4> QED
        BY <1>2, <4>4, <4>7
    <3>2. CASE Declined(q, f)
      <4> DEFINE S == {Again(q.lineNo - 1)}
      <4>1. \A x \in S : x.t # "ok"
        BY DEF Again
      <4>2. Ending(said, S)
        BY <3>2 DEF Declined, said
      <4>3. line \in S /\ Ending(rest, S)
        BY <2>1, <2>6, <4>1, <4>2, EndingFirst
      <4>4. line.t = "resend" /\ line.n = q.lineNo - 1
        BY <4>3 DEF Again
      <4>5. resend = q.lineNo - 1
        BY <3>2, <4>4 DEF resend, Declined
      <4>6. Declined(p, f)
        BY <1>5, <2>2, <2>3, <3>2, <4>3, <4>5 DEF Declined
      <4>7. Talk(p, f)
        BY <1>5, <2>3, <2>4, <4>6 DEF Talk, Flying
      <4> QED
        BY <1>2, <4>4, <4>7
    <3> QED
      BY <2>3, <3>1, <3>2
  <2> QED
    BY <2>5, <2>6
<1> QED
  BY <1>8, <1>9

LEMMA ReadDoneKeeps ==
  ASSUME OwnNumbering, HistoryLimit < MaxLineNo,
         NEW q \in Printers, NEW f \in Firmwares, Writable(q),
         Talk(q, f), Phase(q)
  PROVE  Talk(ReadDone(q), f) /\ Phase(ReadDone(q))
<1>1. PICK p \in Printers :
        /\ p.port = q.port /\ Phase(p)
        /\ \/ ReadDone(q) = DoRead(p) /\ Talk(p, f)
           \/ ReadDone(q) = Confirmed(p) /\ Going(p) /\ Ended(p, f)
  BY ReadDoneIs
<1>2. CASE ReadDone(q) = DoRead(p) /\ Talk(p, f)
  <2> DEFINE r == DoRead(p)
  <2>1. /\ r \in Printers /\ SameTalk(p, r) /\ SamePhase(p, r)
        /\ Grows(p.io, r.io, Plain)
    BY DoReadShell
  <2> HIDE DEF r
  <2>2. Talk(r, f) /\ Phase(r)
    BY <1>1, <1>2, <2>1, SameTalkTalk, PlainPhase
  <2> QED
    BY <1>2, <2>2 DEF r
<1>3. CASE ReadDone(q) = Confirmed(p) /\ Going(p) /\ Ended(p, f)
  BY <1>1, <1>3, ConfirmedKeeps DEF Writable
<1> QED
  BY <1>1, <1>2, <1>3

(* The handler of sendCommand. *)
LEMMA SendKeepsPhase ==
  ASSUME NEW p \in Printers, NEW cmd \in Commands, Writable(p),
         p.state \in {"Initializing", "Connected"},
         p.reconnectTimer = "idle", At(p.io, "reconnect") = {},
         At(p.io, "init") = {}, Numberings(p.io) = {}, NoJobYet(p),
         NumberedBehind(p.queue), p.queue # << >> => cmd.text # "M110"
  PROVE  Phase(Send(p, cmd))
<1> DEFINE queue == Append(p.queue, cmd)
           q == [p EXCEPT !.queue = queue]
           r == DoWrite(q)
<1>1. p.queue \in Seq(Commands)
  BY DEF Printers
<1>2. queue \in Seq(Commands) /\ NumberedBehind(queue)
  <2>1. /\ queue \in Seq(Commands) /\ DOMAIN queue = 1..(Len(p.queue) + 1)
        /\ Len(p.queue) \in Nat /\ DOMAIN p.queue = 1..Len(p.queue)
        /\ \A i \in 1..Len(p.queue) : queue[i] = p.queue[i]
        /\ queue[Len(p.queue) + 1] = cmd
    BY <1>1
  <2> HIDE DEF queue
  <2>2. p.queue = << >> => Len(p.queue) = 0
    BY EmptySeq
  <2>3. ASSUME NEW i \in DOMAIN queue, i > 1 PROVE queue[i].text # "M110"
    <3>1. CASE i \in 1..Len(p.queue)
      BY <2>1, <2>3, <3>1 DEF NumberedBehind
    <3>2. CASE i = Len(p.queue) + 1
      <4>1. p.queue # << >>
        BY <2>2, <2>3, <3>2
      <4> QED
        BY <2>1, <3>2, <4>1
    <3> QED
      BY <2>1, <3>1, <3>2
  <2> QED
    BY <2>1, <2>3 DEF NumberedBehind
<1> HIDE DEF queue
<1>3. /\ q \in Printers /\ q.queue = queue /\ q.io = p.io /\ q.job = p.job
      /\ q.state = p.state /\ q.reconnectTimer = p.reconnectTimer
      /\ Writable(q)
  BY <1>2 DEF Printers, Writable
<1>4. Send(p, cmd) = r
  BY DEF Send, queue
<1> HIDE DEF q
<1>5. /\ r.queue = queue /\ r.io = p.io /\ r.state = p.state
      /\ r.reconnectTimer = p.reconnectTimer /\ r.job = p.job
  <2>1. CASE MayWrite(q)
    BY <1>3, <2>1, DoWriteIs
  <2>2. CASE ~MayWrite(q)
    BY <1>3, <2>2 DEF DoWrite
  <2> QED
    BY <2>1, <2>2
<1> HIDE DEF r
<1> QED
  BY <1>2, <1>4, <1>5 DEF Phase, Going, NoJobYet

(* The printer has booted: M110 and M115 are sent. *)
LEMMA InitializeIs ==
  ASSUME NEW p \in Printers, Blank(p)
  PROVE  Initialize(p) =
           [p EXCEPT !.io = Append(Append(@, Sending("M110", "none")),
                                   Sending("M115", "info"))]
<1> DEFINE a == Sending("M110", "none")
           b == Sending("M115", "info")
           io1 == Append(p.io, a)
           io2 == Append(io1, b)
           r == [p EXCEPT !.io = io2]
<1>1. p.lineNo = 1 /\ p.queue = << >>
  BY DEF Blank
<1> HIDE DEF a, b
<1>2. SendCommand(p, "M110", "none") = [p EXCEPT !.io = io1]
  BY DEF SendCommand, a
<1>3. [[p EXCEPT !.io = io1] EXCEPT !.lineNo = 1] = [p EXCEPT !.io = io1]
  BY <1>1 DEF Printers
<1>4. SendCommand([p EXCEPT !.io = io1], "M115", "info") = r
  <2>1. [p EXCEPT !.io = io1].io = io1
    BY DEF Printers
  <2> QED
    BY <2>1 DEF SendCommand, b, Printers
<1>5. DoWrite(r) = r
  <2>1. r.queue = << >>
    BY <1>1 DEF Printers
  <2> QED
    BY <2>1 DEF DoWrite, MayWrite
<1> QED
  BY <1>2, <1>3, <1>4, <1>5 DEF Initialize, a, b

LEMMA InitializeKeeps ==
  ASSUME NEW p \in Printers, NEW f, Talk(p, f), Blank(p),
         p.state = "Initializing", p.reconnectTimer = "idle", NoJobYet(p),
         At(p.io, "reconnect") = {}, At(p.io, "init") = {},
         At(p.io, "send") = {}
  PROVE  Talk(Initialize(p), f) /\ Phase(Initialize(p))
<1> DEFINE a == Sending("M110", "none")
           b == Sending("M115", "info")
           io1 == Append(p.io, a)
           io2 == Append(io1, b)
           r == [p EXCEPT !.io = io2]
           n == Len(p.io)
<1>1. p.io \in Seq(Handlers) /\ p.lineNo = 1 /\ p.queue = << >>
  BY DEF Printers, Blank
<1>2. /\ a \in Handlers /\ a.h = "send" /\ a.cmd.text = "M110"
      /\ b \in Handlers /\ b.h = "send" /\ b.cmd.text # "M110"
  <2>1. "M110" \in Texts /\ "M115" \in Texts /\ "none" \in Callbacks
        /\ "info" \in Callbacks
    BY DEF Texts, OwnTexts, Callbacks
  <2>2. "M115" # "M110"
    OBVIOUS
  <2> QED
    BY <2>1, <2>2, SendingType DEF Sending
<1> HIDE DEF a, b
<1>3. Initialize(p) = r
  BY InitializeIs DEF a, b
<1>4. /\ n \in Nat /\ DOMAIN p.io = 1..n
      /\ io2 \in Seq(Handlers) /\ DOMAIN io2 = 1..(n + 2)
      /\ \A i \in 1..n : io2[i] = p.io[i]
      /\ io2[n + 1] = a /\ io2[n + 2] = b
  BY <1>1, <1>2
<1>5. \A i \in 1..n : p.io[i] \in Handlers
  BY <1>1
<1> HIDE DEF io2, n
<1>6. /\ r.io = io2 /\ r.state = p.state /\ r.queue = p.queue
      /\ r.lineNo = p.lineNo /\ r.job = p.job
      /\ r.reconnectTimer = p.reconnectTimer /\ SameTalk(p, r)
  BY DEF Printers, SameTalk
<1>7. \A i \in 1..(n + 2) : i \in 1..n \/ i = n + 1 \/ i = n + 2
  BY <1>4
<1>8. ASSUME NEW h, h # "send", At(p.io, h) = {} PROVE At(io2, h) = {}
  BY <1>2, <1>4, <1>7, <1>8 DEF At
<1>9. At(io2, "send") = {n + 1, n + 2}
  <2>1. \A i \in 1..n : i \notin At(io2, "send")
    BY <1>4 DEF At
  <2> QED
    BY <1>2, <1>4, <1>7, <2>1 DEF At
<1>10. Numberings(io2) = {n + 1}
  <2>1. \A i \in 1..n : p.io[i].h # "send"
    BY <1>4 DEF At
  <2>2. \A i \in 1..n : p.io[i].cmd = Bare
    BY <1>5, <2>1 DEF Handlers
  <2>3. Bare.text # "M110"
    BY DEF Bare, NoCommand
  <2>4. \A i \in 1..n : i \notin Numberings(io2)
    BY <1>4, <2>2, <2>3 DEF Numberings
  <2> QED
    BY <1>2, <1>4, <1>7, <2>4 DEF Numberings
<1>11. n + 1 <= n + 1 /\ n + 1 <= n + 2
  BY <1>4
<1> HIDE DEF r
<1>12. Resetting(r)
  BY <1>6, <1>8, <1>9, <1>10, <1>11 DEF Resetting, Blank
<1>13. At(r.io, "reconnect") = {}
  BY <1>6, <1>8
<1>14. Phase(r)
  BY <1>6, <1>12, <1>13 DEF Phase, NoJobYet
<1> QED
  BY <1>3, <1>6, <1>14, SameTalkTalk

(* While a command is pending, something is under way. *)
LEMMA TimeoutCheckIs ==
  ASSUME NEW p \in Printers, NEW f, NEW X, Open(p, X), QuietLimit > 0,
         Talk(p, f)
  PROVE  TimeoutCheck(p) = SetupTimeoutCheck(p)
<1>1. p.quiet \in Nat /\ QuietLimit \in Nat
  BY LimitAssumption DEF Printers
<1>2. p.queue # << >> => p.tx # << >> \/ p.rx # << >> \/ p.wire # << >>
  <2>1. p.rx = << >> /\ p.wire = << >> => Said(p) = << >>
    BY DEF Said
  <2> QED
    BY <2>1 DEF Talk, Still, Flying, Written, Accepted, Declined, Ending
<1>3. p.queue # << >> => ~(p.quiet >= QuietLimit)
  BY <1>1, <1>2 DEF Open
<1> QED
  BY <1>3 DEF TimeoutCheck

LEMMA TimeoutCheckKeeps ==
  ASSUME NEW p \in Printers, NEW f, NEW X, Open(p, X), QuietLimit > 0,
         Talk(p, f), Phase(p)
  PROVE  Talk(TimeoutCheck(p), f) /\ Phase(TimeoutCheck(p))
<1> DEFINE r == SetupTimeoutCheck(p)
<1>1. p.io \in Seq(Handlers)
  BY DEF Printers
<1>4. TimeoutCheck(p) = r
  BY TimeoutCheckIs
<1>5. r \in Printers /\ SameTalk(p, r) /\ SamePhase(p, r) /\ r.io = p.io
  BY DEF SetupTimeoutCheck, Printers, SameTalk, SamePhase
<1>6. Grows(p.io, p.io, Plain)
  BY <1>1, GrowsNot
<1> HIDE DEF r
<1> QED
  BY <1>4, <1>5, <1>6, SameTalkTalk, PlainPhase

Spoken == Talk(printer, fw) /\ Phase(printer)

(* The handler that is taken, and what it finds. *)
LEMMA TakenTalks ==
  ASSUME TypeOK, Open(printer, {}), Spoken, NEW h, NEW result,
         RunHandler(h, result)
  PROVE  LET p == Taken
             hd == Head(printer.io)
         IN  /\ p \in Printers /\ Open(p, {h}) /\ h \notin Failures
             /\ h # "readOk" => Open(p, {})
             /\ h \in Waiting(printer.io)
             /\ printer' = result /\ fw' = fw /\ Due(h) /\ Writable(p)
             /\ Talk(p, fw) /\ NoJobYet(p) /\ p.queue = printer.queue
             /\ p.state = printer.state
             /\ p.reconnectTimer = printer.reconnectTimer
             /\ At(p.io, "reconnect") = {} /\ h # "reconnect"
             /\ h \notin {"send", "init"} => Phase(p)
             /\ Going(printer) => Going(p) /\ Phase(p)
             /\ IF h = "send" THEN hd.cmd \in Commands ELSE hd.cmd = Bare
<1> DEFINE p == Taken
<1>0. printer \in Printers /\ fw \in Firmwares
  BY DEF TypeOK
<1>1. Due(h) /\ printer' = result /\ fw' = fw
  BY DEF RunHandler
<1>2. /\ p \in Printers /\ Open(p, {h}) /\ h \notin Failures
      /\ h # "readOk" => Open(p, {})
  BY <1>1, TakenOpen
<1>3. Head(printer.io) \in Handlers /\ h \in Waiting(printer.io)
  BY <1>1, TakenLemma
<1>4. IF h = "send" THEN Head(printer.io).cmd \in Commands
      ELSE Head(printer.io).cmd = Bare
  BY <1>1, <1>3 DEF Due, Handlers, Completions
<1>5. /\ SameTalk(printer, p) /\ p.job = printer.job
      /\ p.queue = printer.queue /\ p.state = printer.state
      /\ p.reconnectTimer = printer.reconnectTimer
  BY <1>0 DEF SameTalk, Taken, Printers
<1>6. /\ At(p.io, "reconnect") = {} /\ h # "reconnect"
      /\ h \notin {"send", "init"} => Phase(p)
      /\ Going(printer) => Going(p) /\ Phase(p)
  BY <1>1, TakenPhase DEF Spoken
<1> HIDE DEF p
<1>7. Talk(p, fw) /\ NoJobYet(p) /\ Writable(p)
  BY <1>2, <1>5, SameTalkTalk DEF Spoken, Phase, NoJobYet, Open, Writable
<1> QED
  BY <1>1, <1>2, <1>3, <1>4, <1>5, <1>6, <1>7 DEF p

LEMMA RunIoKeeps ==
  ASSUME OwnNumbering, HistoryLimit < MaxLineNo, QuietLimit > 0,
         TypeOK, Attended(printer, {}), Open(printer, {}), Spoken, RunIo
  PROVE  Spoken'
<1> DEFINE p == Taken
<1>0. printer \in Printers /\ fw \in Firmwares
  BY DEF TypeOK
<1>1. ASSUME NEW h, NEW result, RunHandler(h, result)
      PROVE  /\ p \in Printers /\ Open(p, {h}) /\ h \notin Failures
             /\ h # "readOk" => Open(p, {})
             /\ h \in Waiting(printer.io)
             /\ printer' = result /\ fw' = fw /\ Due(h) /\ Writable(p)
             /\ Talk(p, fw) /\ NoJobYet(p) /\ p.queue = printer.queue
             /\ p.state = printer.state
             /\ p.reconnectTimer = printer.reconnectTimer
             /\ At(p.io, "reconnect") = {} /\ h # "reconnect"
             /\ h \notin {"send", "init"} => Phase(p)
             /\ Going(printer) => Going(p) /\ Phase(p)
             /\ h = "send" => Head(printer.io).cmd \in Commands
  BY <1>1, TakenTalks
<1>01. /\ \A h \in {"readOk", "check", "temp"} : h \notin {"send", "init"}
       /\ "check" # "readOk"
  OBVIOUS
<1>2. CASE RunSend
  <2> DEFINE cmd == Head(printer.io).cmd
  <2>0. RunHandler("send", Send(p, cmd))
    BY <1>2 DEF RunSend
  <2>1. \/ Going(printer) /\ cmd.text # "M110"
        \/ /\ Resetting(printer) /\ cmd.text = "M110"
           /\ At(p.io, "init") = {} /\ Numberings(p.io) = {}
    BY <1>1, <2>0, TakenPhase DEF Spoken
  <2> HIDE DEF p, cmd
  <2>2. /\ p \in Printers /\ cmd \in Commands /\ Writable(p) /\ Talk(p, fw)
        /\ printer' = Send(p, cmd) /\ fw' = fw /\ NoJobYet(p)
        /\ At(p.io, "reconnect") = {} /\ p.queue = printer.queue
        /\ p.state = printer.state
        /\ p.reconnectTimer = printer.reconnectTimer
        /\ Going(printer) => Going(p)
    BY <1>1, <2>0 DEF cmd
  <2>3. cmd.text = "M110" => p.queue = << >> /\ p.lineNo = 1
    <3>1. Talk(p, fw) /\ p.lineNo = printer.lineNo
      BY <1>0, <2>2 DEF p, Taken, Printers
    <3> QED
      BY <2>1, <2>2, <3>1 DEF Resetting, Blank
  <2>4. /\ p.state \in {"Initializing", "Connected"}
        /\ p.reconnectTimer = "idle" /\ At(p.io, "init") = {}
        /\ Numberings(p.io) = {} /\ NumberedBehind(p.queue)
    <3>1. CASE Going(printer)
      BY <2>2, <3>1 DEF Going
    <3>2. CASE Resetting(printer) /\ At(p.io, "init") = {}
               /\ Numberings(p.io) = {}
      BY <2>2, <3>2 DEF Resetting, Blank, NumberedBehind
    <3> QED
      BY <2>1, <3>1, <3>2
  <2>5. Phase(Send(p, cmd))
    BY <2>2, <2>3, <2>4, SendKeepsPhase
  <2>6. Talk(Send(p, cmd), fw)
    BY <1>0, <2>2, <2>3, SendTalks
  <2> QED
    BY <2>2, <2>5, <2>6 DEF Spoken
<1>3. CASE RunReadDone
  <2>0. RunHandler("readOk", ReadDone(p))
    BY <1>3 DEF RunReadDone
  <2> HIDE DEF p
  <2>1. /\ p \in Printers /\ Writable(p) /\ Talk(p, fw) /\ Phase(p)
        /\ printer' = ReadDone(p) /\ fw' = fw
    BY <1>1, <1>01, <2>0
  <2>2. Talk(ReadDone(p), fw) /\ Phase(ReadDone(p))
    BY <1>0, <2>1, ReadDoneKeeps
  <2> QED
    BY <2>1, <2>2 DEF Spoken
<1>4. CASE RunReadError \/ RunWriteError
  BY <1>1, <1>4 DEF RunReadError, RunWriteError, Failures
<1>5. CASE RunConnected \/ RunConnectFailed \/ RunConnectTimeout
  BY <1>1, <1>5
     DEF RunConnected, RunConnectFailed, RunConnectTimeout, Attended, Serial
<1>6. CASE RunTimeoutCheck
  <2>0. RunHandler("check", TimeoutCheck(p))
    BY <1>6 DEF RunTimeoutCheck
  <2> HIDE DEF p
  <2>1. /\ p \in Printers /\ Open(p, {"check"}) /\ Talk(p, fw) /\ Phase(p)
        /\ printer' = TimeoutCheck(p) /\ fw' = fw
    BY <1>1, <1>01, <2>0
  <2>2. Talk(TimeoutCheck(p), fw) /\ Phase(TimeoutCheck(p))
    BY <2>1, TimeoutCheckKeeps
  <2> QED
    BY <2>1, <2>2 DEF Spoken
<1>7. CASE RunReconnect
  BY <1>1, <1>7 DEF RunReconnect
<1>8. CASE RunInitialize
  <2>0. RunHandler("init", Initialize(p))
    BY <1>8 DEF RunInitialize
  <2>1. /\ Blank(p) /\ p.state = "Initializing" /\ p.reconnectTimer # "init"
        /\ At(p.io, "init") = {} /\ At(p.io, "send") = {}
    BY <1>1, <2>0, TakenPhase DEF Spoken
  <2> HIDE DEF p
  <2>2. /\ p \in Printers /\ Talk(p, fw) /\ NoJobYet(p)
        /\ At(p.io, "reconnect") = {} /\ p.reconnectTimer # "reconnect"
        /\ printer' = Initialize(p) /\ fw' = fw
    BY <1>1, <2>0 DEF Spoken, Phase
  <2>3. p.reconnectTimer = "idle"
    BY <2>1, <2>2 DEF Printers
  <2>4. Talk(Initialize(p), fw) /\ Phase(Initialize(p))
    BY <2>1, <2>2, <2>3, InitializeKeeps
  <2> QED
    BY <2>2, <2>4 DEF Spoken
<1>9. CASE RunGetTemperature
  <2>0. RunHandler("temp", GetTemperature(p))
    BY <1>9 DEF RunGetTemperature
  <2> HIDE DEF p
  <2>1. /\ p \in Printers /\ Talk(p, fw) /\ Phase(p)
        /\ printer' = GetTemperature(p) /\ fw' = fw
    BY <1>1, <1>01, <2>0
  <2>2. CASE p.state = "Connected"
    <3>1. Going(p)
      BY <2>1, <2>2 DEF Phase, Booting, Resetting
    <3> QED
      BY <2>1, <3>1, GetTemperatureGentle, GentleKeeps DEF Spoken
  <2>3. CASE p.state # "Connected"
    BY <2>1, <2>3 DEF GetTemperature, Spoken
  <2> QED
    BY <2>2, <2>3
<1> QED
  BY <1>2, <1>3, <1>4, <1>5, <1>6, <1>7, <1>8, <1>9 DEF RunIo

(* A completion that only waits to be taken. *)
LEMMA PostKeepsPhase ==
  ASSUME NEW p \in Printers, NEW h \in Completions \ {"reconnect", "init"},
         NEW q \in Printers, q.io = Post(p, h).io, SamePhase(p, q), Phase(p)
  PROVE  Phase(q)
<1>1. Handler(h) \in Plain
  BY PlainIs
<1>2. Grows(p.io, q.io, Plain)
  BY <1>1, PostGrows
<1> QED
  BY <1>2, PlainPhase

LEMMA TimersKeep ==
  ASSUME TypeOK, TypeOK', Attended(printer, {}), Spoken, Timers, ~PrinterStalls
  PROVE  Spoken'
<1> DEFINE p == printer
           q == printer'
<1>0. p \in Printers /\ q \in Printers /\ p.io \in Seq(Handlers)
  BY DEF TypeOK, Printers
<1>1. CASE ReconnectTimerExpires
  <2> DEFINE hd == Handler("init")
             io == Append(p.io, hd)
             n == Len(p.io)
  <2>1. p.reconnectTimer = "init" /\ fw' = fw
        /\ q = [Post(p, "init") EXCEPT !.reconnectTimer = "idle"]
    BY <1>0, <1>1 DEF ReconnectTimerExpires, Spoken, Phase, Printers
  <2>2. /\ q.io = io /\ q.state = p.state /\ q.queue = p.queue
        /\ q.lineNo = p.lineNo /\ q.job = p.job
        /\ q.reconnectTimer = "idle" /\ SameTalk(p, q)
    BY <1>0, <2>1 DEF Post, Printers, SameTalk
  <2>3. Booting(p) /\ At(p.io, "init") = {} /\ At(p.io, "send") = {}
    BY <2>1 DEF Spoken, Phase, Booting, Resetting, Going
  <2>4. hd \in Handlers /\ hd.h = "init"
    BY HandlerType DEF Completions
  <2> HIDE DEF hd
  <2>5. /\ n \in Nat /\ DOMAIN p.io = 1..n /\ DOMAIN io = 1..(n + 1)
        /\ \A i \in 1..n : io[i] = p.io[i]
        /\ io[n + 1] = hd
    BY <1>0, <2>4
  <2> HIDE DEF io, n
  <2>6. \A i \in 1..(n + 1) : i \in 1..n \/ i = n + 1
    BY <2>5
  <2>7. n + 1 \in 1..(n + 1)
    BY <2>5
  <2>8. /\ At(io, "send") = {} /\ At(io, "init") = {n + 1}
        /\ At(io, "reconnect") = {}
    BY <2>3, <2>4, <2>5, <2>6, <2>7 DEF At, Spoken, Phase
  <2>9. Booting(q)
    BY <2>2, <2>3, <2>5, <2>7, <2>8 DEF Booting, Blank
  <2>10. Phase(q)
    BY <2>2, <2>8, <2>9 DEF Phase, Spoken, NoJobYet
  <2> QED
    BY <2>1, <2>2, <2>10, SameTalkTalk DEF Spoken
<1>2. CASE CheckTimerExpires
  <2>1. SameTalk(p, q) /\ SamePhase(p, q) /\ q.io = Post(p, "check").io
        /\ fw' = fw
    BY <1>0, <1>2 DEF CheckTimerExpires, Post, Printers, SameTalk, SamePhase
  <2>2. "check" \in Completions \ {"reconnect", "init"}
    BY DEF Completions
  <2> QED
    BY <1>0, <2>1, <2>2, SameTalkTalk, PostKeepsPhase DEF Spoken
<1>3. CASE ConnectTimerExpires
  BY <1>3 DEF ConnectTimerExpires, Attended, Serial
<1>4. CASE TemperatureTimerExpires
  <2>1. SameTalk(p, q) /\ SamePhase(p, q) /\ q.io = Post(p, "temp").io
        /\ fw' = fw
    BY <1>0, <1>4 DEF TemperatureTimerExpires, Post, Printers, SameTalk, SamePhase
  <2>2. "temp" \in Completions \ {"reconnect", "init"}
    BY DEF Completions
  <2> QED
    BY <1>0, <2>1, <2>2, SameTalkTalk, PostKeepsPhase DEF Spoken
<1> QED
  BY <1>1, <1>2, <1>3, <1>4 DEF Timers

LEMMA LinkKeeps ==
  ASSUME TypeOK, TypeOK', Open(printer, {}), Spoken, Link, ~Replug,
         ~LoseFrame
  PROVE  Spoken'
<1> DEFINE p == printer
           q == printer'
<1>0. p \in Printers /\ q \in Printers
  BY DEF TypeOK
<1>1. CASE ReadFails
  BY <1>1 DEF ReadFails, Open
<1>2. CASE Established \/ Refused
  BY <1>2 DEF Established, Refused, Open
<1>3. CASE LinesArrive
  <2>1. PICK k \in 1..Len(p.wire) :
          q = [Post(p, "readOk") EXCEPT
                 !.reads = @ - 1,
                 !.rx = @ \o SubSeq(p.wire, 1, k),
                 !.wire = SubSeq(@, k + 1, Len(@))]
    BY <1>3 DEF LinesArrive
  <2> DEFINE first == SubSeq(p.wire, 1, k)
             last == SubSeq(p.wire, k + 1, Len(p.wire))
  <2>2. /\ q.rx = p.rx \o first /\ q.wire = last
        /\ q.io = Post(p, "readOk").io /\ SamePhase(p, q)
        /\ q.tx = p.tx /\ q.executing = p.executing /\ q.resend = p.resend
        /\ q.mode = p.mode /\ q.lineNo = p.lineNo /\ q.history = p.history
        /\ q.pendingError = p.pendingError /\ q.queue = p.queue
    <3> DEFINE s == Post(p, "readOk")
    <3>1. /\ s \in Printers /\ SamePhase(p, s)
          /\ s.rx = p.rx /\ s.wire = p.wire
          /\ s.tx = p.tx /\ s.executing = p.executing /\ s.resend = p.resend
          /\ s.mode = p.mode /\ s.lineNo = p.lineNo /\ s.history = p.history
          /\ s.pendingError = p.pendingError /\ s.queue = p.queue
      <4>1. s \in Printers
        BY <1>0, PostLemma DEF Completions
      <4> QED
        BY <1>0, <4>1 DEF Post, Printers, SamePhase
    <3>2. q = [s EXCEPT !.reads = @ - 1, !.rx = @ \o first,
                        !.wire = SubSeq(@, k + 1, Len(@))]
      BY <2>1
    <3> HIDE DEF s, first
    <3>3. /\ q.rx = s.rx \o first /\ q.wire = SubSeq(s.wire, k + 1, Len(s.wire))
          /\ q.io = s.io /\ SamePhase(s, q)
          /\ q.tx = s.tx /\ q.executing = s.executing /\ q.resend = s.resend
          /\ q.mode = s.mode /\ q.lineNo = s.lineNo /\ q.history = s.history
          /\ q.pendingError = s.pendingError /\ q.queue = s.queue
      BY <3>1, <3>2 DEF Printers, SamePhase
    <3> QED
      BY <3>1, <3>3 DEF s, SamePhase
  <2>3. Said(q) = Said(p)
    <3>1. p.rx \in Seq(Lines) /\ p.wire \in Seq(Lines)
      BY <1>0 DEF Printers
    <3>2. (p.rx \o first) \o last = p.rx \o p.wire
      BY <3>1, SaidMoves
    <3> QED
      BY <2>2, <3>2 DEF Said
  <2>4. p.wire # << >>
    <3>1. p.wire \in Seq(Lines)
      BY <1>0 DEF Printers
    <3> QED
      BY <2>1, <3>1
  <2> HIDE DEF first, last
  <2>5. Talk(q, fw)
    <3>1. Flying(p, fw) /\ (Accepted(p, fw) \/ Declined(p, fw))
      BY <2>4 DEF Spoken, Talk, Still, Flying, Written
    <3>2. Accepted(p, fw) => Accepted(q, fw)
      BY <2>2, <2>3 DEF Accepted
    <3>3. Declined(p, fw) => Declined(q, fw)
      BY <2>2, <2>3 DEF Declined
    <3>4. InFlight(q)
      BY <2>2, <3>1 DEF Flying, InFlight
    <3> QED
      BY <2>2, <3>1, <3>2, <3>3, <3>4 DEF Spoken, Talk, Flying
  <2>6. "readOk" \in Completions \ {"reconnect", "init"}
    BY DEF Completions
  <2>7. fw' = fw
    BY <1>3 DEF LinesArrive
  <2> QED
    BY <1>0, <2>2, <2>5, <2>6, <2>7, PostKeepsPhase DEF Spoken
<1> QED
  BY <1>1, <1>2, <1>3 DEF Link

LEMMA AnswersEnd ==
  /\ \A frame \in Frames : /\ Acknowledgement(frame) \in Seq(Lines)
                           /\ Ending(Acknowledgement(frame), Others)
  /\ \A f \in Firmwares :
       ~ReportErrors =>
         /\ Refusal(f) \in Seq(Lines) /\ Len(Refusal(f)) > 1
         /\ Ending(Refusal(f), {Again(f.last + 1)})
  /\ << Line("ok") >> \in Seq(Lines) /\ Ending(<< Line("ok") >>, Others)
<1> DEFINE ok == Line("ok")
           other == Line("other")
<1>1. ok \in Lines /\ other \in Lines /\ ok.t = "ok" /\ other \in Others
  BY LineType DEF Line, Others
<1> HIDE DEF ok, other
<1>2. << ok >> \in Seq(Lines) /\ Ending(<< ok >>, Others)
  BY <1>1 DEF Ending
<1>3. ASSUME NEW x \in Lines, NEW S, x \in S
      PROVE  /\ << x >> \o << ok >> \in Seq(Lines)
             /\ Len(<< x >> \o << ok >>) = 2
             /\ Ending(<< x >> \o << ok >>, S)
  <2> DEFINE s == << x >> \o << ok >>
  <2>1. << x >> \in Seq(Lines) /\ << ok >> \in Seq(Lines)
    BY <1>1, <1>3
  <2>2. s \in Seq(Lines) /\ Len(s) = 2 /\ s[1] = x /\ s[2] = ok
    BY <2>1
  <2>3. s # << >>
    BY <2>2
  <2>4. \A i \in 1..(2 - 1) : i = 1
    OBVIOUS
  <2> HIDE DEF s
  <2>5. Ending(s, S)
    BY <1>1, <1>3, <2>2, <2>3, <2>4 DEF Ending
  <2> QED
    BY <2>2, <2>5 DEF s
<1>4. << >> \o << ok >> = << ok >>
  OBVIOUS
<1>5. ASSUME NEW frame \in Frames
      PROVE  /\ Acknowledgement(frame) \in Seq(Lines)
             /\ Ending(Acknowledgement(frame), Others)
  <2>1. CASE frame.text \in HeatWait
    BY <1>1, <1>3, <2>1 DEF Acknowledgement, ok, other
  <2>2. CASE frame.text \notin HeatWait
    BY <1>2, <1>4, <2>2 DEF Acknowledgement, ok
  <2> QED
    BY <2>1, <2>2
<1>6. ASSUME NEW f \in Firmwares, ~ReportErrors
      PROVE  /\ Refusal(f) \in Seq(Lines) /\ Len(Refusal(f)) > 1
             /\ Ending(Refusal(f), {Again(f.last + 1)})
  <2> DEFINE x == Again(f.last + 1)
  <2>1. x \in Lines
    BY DEF Again, Lines, Firmwares
  <2>2. Refusal(f) = << x >> \o << ok >>
    <3>1. Refusal(f) = << >> \o << x, ok >>
      BY <1>6 DEF Refusal, Again, ok
    <3> HIDE DEF x
    <3>2. << x >> \in Seq(Lines) /\ << ok >> \in Seq(Lines)
          /\ << x, ok >> \in Seq(Lines)
      BY <1>1, <2>1
    <3>3. << >> \o << x, ok >> = << x, ok >>
      BY <3>2
    <3>4. << x >> \o << ok >> = << x, ok >>
      <4> DEFINE s == << x >> \o << ok >>
                 t == << x, ok >>
      <4>1. s \in Seq(Lines) /\ Len(s) = 2 /\ s[1] = x /\ s[2] = ok
        BY <3>2
      <4>2. t \in Seq(Lines) /\ Len(t) = 2 /\ t[1] = x /\ t[2] = ok
        BY <3>2
      <4> HIDE DEF s, t
      <4>3. \A i \in 1..2 : i = 1 \/ i = 2
        OBVIOUS
      <4>4. s = t
        BY <4>1, <4>2, <4>3
      <4> QED
        BY <4>4 DEF s, t
    <3> QED
      BY <3>1, <3>3, <3>4
  <2> HIDE DEF x
  <2>3. /\ << x >> \o << ok >> \in Seq(Lines)
        /\ Len(<< x >> \o << ok >>) = 2
        /\ Ending(<< x >> \o << ok >>, {x})
    BY <1>3, <2>1
  <2> QED
    BY <2>2, <2>3 DEF x
<1> QED
  BY <1>2, <1>5, <1>6 DEF ok

(* The firmware takes the one frame under way and answers it. *)
LEMMA TakeFrameTalks ==
  ASSUME TypeOK, TypeOK', Open(printer, {}), Spoken, printer.tx # << >>,
         NEW lines \in Seq(Lines), TakeFrame(lines), NEW f \in Firmwares,
         LET p == printer
             n == p.lineNo
         IN  \/ /\ p.mode = f.mode /\ Ending(lines, Others)
                /\ f.last = IF n = 0 THEN 0 ELSE n - 1
             \/ /\ p.mode = Positioned(f.mode, p.executing)
                /\ UsesLineNumber(p.executing) /\ f.last = n - 2
                /\ Ending(lines, {Again(n - 1)}) /\ Len(lines) > 1
  PROVE  Talk(printer', f) /\ Phase(printer')
<1> DEFINE p == printer
           q == printer'
<1>0. p \in Printers /\ q \in Printers /\ p.io \in Seq(Handlers)
  BY DEF TypeOK, Printers
<1>1. /\ Flying(p, fw) /\ Written(p, fw) /\ InFlight(p)
      /\ p.rx = << >> /\ p.wire = << >> /\ p.resend = NoLine
      /\ p.executing # NoCommand /\ p.queue # << >>
      /\ ~p.pendingError /\ Numbered(p.history, p.lineNo)
  BY DEF Spoken, Talk, Still, Flying, Written, Accepted, Declined
<1>2. Tail(p.tx) = << >>
  <2>1. p.tx \in Seq(Frames) /\ Len(p.tx) <= 1
    BY <1>0 DEF Printers, Open, Lone
  <2> QED
    BY <2>1
<1>3. << >> \o lines = lines
  OBVIOUS
<1>4. q = [[p EXCEPT !.wire = lines] EXCEPT !.tx = << >>]
  <2>1. Writable(p)
    BY DEF Open, Writable
  <2>2. Reply(p, lines) = [p EXCEPT !.wire = lines]
    BY <1>1, <1>3, <2>1 DEF Reply
  <2>3. [p EXCEPT !.wire = lines].tx = p.tx
    BY <1>0 DEF Printers
  <2> QED
    BY <1>2, <2>2, <2>3 DEF TakeFrame
<1>5. /\ q.wire = lines /\ q.tx = << >> /\ q.rx = p.rx /\ q.io = p.io
      /\ q.executing = p.executing /\ q.resend = p.resend
      /\ q.mode = p.mode /\ q.lineNo = p.lineNo /\ q.history = p.history
      /\ q.pendingError = p.pendingError /\ q.queue = p.queue
      /\ SamePhase(p, q)
  BY <1>0, <1>4 DEF Printers, SamePhase
<1>6. Said(q) = lines
  BY <1>1, <1>3, <1>5 DEF Said
<1>7. InFlight(q)
  BY <1>1, <1>5 DEF InFlight
<1>8. Accepted(q, f) \/ Declined(q, f)
  BY <1>1, <1>5, <1>6 DEF Accepted, Declined
<1>9. Phase(q)
  <2>1. Grows(p.io, q.io, Plain)
    BY <1>0, <1>5, GrowsNot
  <2> QED
    BY <1>0, <1>5, <2>1, PlainPhase DEF Spoken
<1> QED
  BY <1>1, <1>5, <1>7, <1>8, <1>9 DEF Talk, Flying

LEMMA FirmwareKeeps ==
  ASSUME TypeOK, TypeOK', Open(printer, {}), Spoken, ~ReportErrors,
         FirmwareStep, ~FirmwareOverconfirms, ~FirmwareReboots,
         ~FirmwareFails, FrameCorrupted => Head(printer.tx).text # "M110"
  PROVE  Spoken'
<1> DEFINE p == printer
           frame == Head(p.tx)
           text == p.executing
           n == p.lineNo
<1>0. p \in Printers /\ p.tx \in Seq(Frames) /\ fw \in Firmwares
      /\ fw' \in Firmwares /\ n \in Nat /\ fw.last \in Nat
  BY DEF TypeOK, Printers, Firmwares
<1>1. p.tx # << >>
  BY DEF FirmwareStep, FirmwareExecutes, FrameCorrupted
<1>2. /\ frame = [n |-> IF UsesLineNumber(text) THEN n - 1 ELSE NoLine,
                  text |-> text]
      /\ p.mode = Positioned(fw.mode, text)
      /\ UsesLineNumber(text) => fw.last = n - 2
      /\ text = "M999" => fw.last = n - 1
      /\ InFlight(p)
  BY <1>1 DEF Spoken, Talk, Still, Flying, Written, Accepted, Declined
<1>3. frame \in Frames
  BY <1>0, <1>1
<1> HIDE DEF frame
<1>4. /\ UsesLineNumber(text) =>
           /\ frame.n = n - 1 /\ n >= 2 /\ n - 1 # NoLine
           /\ text # "M110" /\ text # "M999"
      /\ ~UsesLineNumber(text) =>
           /\ frame.n = NoLine
           /\ \/ text = "M110" /\ n \in {0, 1}
              \/ text = "M999" /\ n >= 1
      /\ frame.text = text
  <2>1. /\ UsesLineNumber(text) => text # "M110" /\ text # "M999"
        /\ ~UsesLineNumber(text) => text = "M110" \/ text = "M999"
        /\ "M110" # "M999"
    BY DEF UsesLineNumber
  <2>2. UsesLineNumber(text) => n >= 2
    BY <1>2, <2>1 DEF InFlight
  <2>3. n >= 2 => n - 1 # NoLine
    BY <1>0 DEF NoLine
  <2>4. text = "M110" => n \in {0, 1}
    BY <1>2, <2>1 DEF InFlight
  <2>5. text = "M999" => n >= 1
    BY <1>2, <2>1 DEF InFlight
  <2>6. /\ UsesLineNumber(text) => frame.n = n - 1
        /\ ~UsesLineNumber(text) => frame.n = NoLine
        /\ frame.text = text
    BY <1>2
  <2> HIDE DEF text, n
  <2>7. UsesLineNumber(text) =>
          /\ frame.n = n - 1 /\ n >= 2 /\ n - 1 # NoLine
          /\ text # "M110" /\ text # "M999"
    BY <2>1, <2>2, <2>3, <2>6
  <2>8. ~UsesLineNumber(text) => frame.n = NoLine
    BY <2>6
  <2>9. ~UsesLineNumber(text) =>
          \/ text = "M110" /\ n \in {0, 1}
          \/ text = "M999" /\ n >= 1
    BY <2>1, <2>4, <2>5
  <2>10. frame.text = text
    BY <2>6
  <2> QED
    BY <2>7, <2>8, <2>9, <2>10
<1>5. CASE FirmwareExecutes
  <2>1. InSequence(fw, frame)
    <3>1. UsesLineNumber(text) => frame.n = fw.last + 1
      BY <1>0, <1>2, <1>4
    <3> QED
      BY <1>4, <3>1 DEF InSequence
  <2>2. fw' = Executed(fw, frame) /\ TakeFrame(Acknowledgement(frame))
    BY <1>5, <2>1 DEF FirmwareExecutes, Execute, frame
  <2>3. fw'.mode = Positioned(fw.mode, text)
        /\ fw'.last = CASE text = "M110" -> 0
                        [] frame.n # NoLine -> frame.n
                        [] OTHER -> fw.last
    BY <1>0, <1>4, <2>2 DEF Executed, Firmwares
  <2>4. fw'.last = IF n = 0 THEN 0 ELSE n - 1
    <3> HIDE DEF text, n
    <3>1. CASE UsesLineNumber(text)
      BY <1>0, <1>4, <2>3, <3>1
    <3>2. CASE ~UsesLineNumber(text) /\ text = "M110"
      BY <1>0, <1>4, <2>3, <3>2 DEF UsesLineNumber
    <3>3. CASE ~UsesLineNumber(text) /\ text # "M110"
      BY <1>0, <1>2, <1>4, <2>3, <3>3
    <3> QED
      BY <3>1, <3>2, <3>3
  <2>5. /\ Acknowledgement(frame) \in Seq(Lines)
        /\ Ending(Acknowledgement(frame), Others)
    BY <1>3, AnswersEnd
  <2>6. Talk(printer', fw') /\ Phase(printer')
    BY <1>0, <1>1, <1>2, <2>2, <2>3, <2>4, <2>5, TakeFrameTalks
  <2> QED
    BY <2>6 DEF Spoken
<1>6. CASE FrameCorrupted
  <2>1. text # "M110"
    BY <1>4, <1>6 DEF frame
  <2>2. fw' = fw
    BY <1>6 DEF FrameCorrupted
  <2>3. CASE UsesLineNumber(text)
    <3>1. TakeFrame(Refusal(fw))
      BY <1>4, <1>6, <2>3 DEF FrameCorrupted, frame
    <3>2. fw.last = n - 2 /\ fw.last + 1 = n - 1
      BY <1>0, <1>2, <2>3
    <3>3. /\ Refusal(fw) \in Seq(Lines) /\ Len(Refusal(fw)) > 1
          /\ Ending(Refusal(fw), {Again(n - 1)})
      BY <1>0, <3>2, AnswersEnd
    <3>4. Talk(printer', fw) /\ Phase(printer')
      BY <1>0, <1>1, <1>2, <2>3, <3>1, <3>2, <3>3, TakeFrameTalks
    <3> QED
      BY <2>2, <3>4 DEF Spoken
  <2>4. CASE ~UsesLineNumber(text)
    <3>1. TakeFrame(<< Line("ok") >>)
      BY <1>4, <1>6, <2>4 DEF FrameCorrupted, frame
    <3>2. text = "M999" /\ n >= 1 /\ fw.last = n - 1 /\ n # 0
      BY <1>0, <1>2, <1>4, <2>1, <2>4
    <3>3. p.mode = fw.mode
      <4>1. "M999" \notin {"G90", "G91", "M82", "M83"}
        OBVIOUS
      <4> QED
        BY <1>2, <3>2, <4>1 DEF Positioned
    <3>4. << Line("ok") >> \in Seq(Lines) /\ Ending(<< Line("ok") >>, Others)
      BY AnswersEnd
    <3>5. Talk(printer', fw) /\ Phase(printer')
      BY <1>0, <1>1, <3>1, <3>2, <3>3, <3>4, TakeFrameTalks
    <3> QED
      BY <2>2, <3>5 DEF Spoken
  <2> QED
    BY <2>3, <2>4
<1> QED
  BY <1>5, <1>6 DEF FirmwareStep

-----------------------------------------------------------------------------
(* The requests. *)

LEMMA JobFieldGentle ==
  ASSUME NEW p \in Printers, p.state = "Connected", NEW q \in Printers,
         NEW job, NEW halted, q = [p EXCEPT !.job = job, !.halted = halted]
  PROVE  Gentle(p, q)
<1>1. /\ SameTalk(p, q) /\ q.io = p.io /\ q.port = p.port
      /\ q.reconnectTimer = p.reconnectTimer /\ q.state = p.state
      /\ q.queue = p.queue
  BY DEF SameTalk, Printers
<1>2. Grows(p.io, q.io, Tame)
  BY <1>1, GrowsNot DEF Printers
<1> QED
  BY <1>1, <1>2 DEF Gentle, NoJobYet

LEMMA JobStartGentle ==
  ASSUME OwnNumbering, NEW p \in Printers, p.state = "Connected"
  PROVE  Gentle(p, JobStart(p))
<1> DEFINE texts == ResumeSequence(p.job.saved)
           running == [p.job EXCEPT !.st = "Running"]
           first == [p.job EXCEPT !.st = "Running", !.pos = 0]
<1>1. running \in Jobs /\ first \in Jobs /\ p.halted \in BOOLEAN
  BY DEF Printers, Jobs, JobStates
<1>2. CASE p.job.st = "Paused"
  <2> DEFINE q == SendCommands(p, texts)
             job == [q.job EXCEPT !.st = "Running"]
             r == [q EXCEPT !.job = job]
  <2>1. Gentle(p, q)
    <3>1. texts \in Seq(Texts) /\ texts \in Seq(Texts \ {"M110"})
      BY ResumeSequenceOver DEF Texts, OwnTexts
    <3> HIDE DEF texts
    <3>2. \A i \in DOMAIN texts : texts[i] # "M110"
      BY <3>1
    <3> QED
      BY <3>1, <3>2, SendCommandsGentle
  <2>2. JobStart(p) = LinesProcessed(r, 1)
    BY <1>2 DEF JobStart, PrintLine
  <2> HIDE DEF q
  <2>3. q \in Printers /\ q.state = "Connected"
    BY <2>1 DEF Gentle
  <2>4. job \in Jobs
    BY <2>3 DEF Printers, Jobs, JobStates
  <2> HIDE DEF job
  <2>5. r \in Printers /\ r = [q EXCEPT !.job = job, !.halted = q.halted]
    BY <2>3, <2>4 DEF Printers
  <2> HIDE DEF r
  <2>6. Gentle(q, r)
    BY <2>3, <2>5, JobFieldGentle
  <2>7. Gentle(r, LinesProcessed(r, 1))
    BY <2>5, LinesProcessedGentle
  <2> QED
    BY <2>1, <2>2, <2>3, <2>6, <2>7, GentleTrans
<1>3. CASE p.job.st # "Paused" /\ p.job.ended
  <2> DEFINE q == [p EXCEPT !.job = running, !.halted = TRUE]
  <2>1. JobStart(p) = q
    BY <1>3 DEF JobStart
  <2> HIDE DEF running
  <2>2. q \in Printers
    BY <1>1 DEF Printers
  <2> QED
    BY <2>1, <2>2, JobFieldGentle
<1>4. CASE p.job.st # "Paused" /\ ~p.job.ended
  <2> DEFINE q == [p EXCEPT !.job = first]
  <2>1. JobStart(p) = LinesProcessed(q, 1)
    BY <1>4 DEF JobStart, PrintLine
  <2> HIDE DEF first
  <2>2. q \in Printers /\ q = [p EXCEPT !.job = first, !.halted = p.halted]
    BY <1>1 DEF Printers
  <2> HIDE DEF q
  <2>3. Gentle(p, q)
    BY <2>2, JobFieldGentle
  <2>4. Gentle(q, LinesProcessed(q, 1))
    BY <2>2, LinesProcessedGentle
  <2> QED
    BY <2>1, <2>2, <2>3, <2>4, GentleTrans
<1> QED
  BY <1>2, <1>3, <1>4

LEMMA JobEndsGentle ==
  ASSUME NEW p \in Printers, p.state = "Connected"
  PROVE  Gentle(p, JobStop(p)) /\ Gentle(p, JobPause(p))
<1>1. ASSUME NEW job \in Jobs, NEW texts \in Seq(Texts),
             texts \in Seq(Texts \ {"M110"})
      PROVE  Gentle(p, SendCommands([p EXCEPT !.job = job], texts))
  <2> DEFINE q == [p EXCEPT !.job = job]
  <2>1. q \in Printers /\ q = [p EXCEPT !.job = job, !.halted = p.halted]
    BY DEF Printers
  <2> HIDE DEF q
  <2>2. Gentle(p, q)
    BY <2>1, JobFieldGentle
  <2>3. \A i \in DOMAIN texts : texts[i] # "M110"
    BY <1>1
  <2>4. Gentle(q, SendCommands(q, texts))
    BY <2>1, <2>3, SendCommandsGentle
  <2> QED
    BY <2>1, <2>2, <2>4, GentleTrans DEF q
<1>2. Gentle(p, JobStop(p))
  <2> DEFINE job == [p.job EXCEPT !.st = "Stopped"]
             texts == << "M18", "M107", "M104", "M140", "G91", "G0" >>
  <2>1. job \in Jobs
    BY DEF Printers, Jobs, JobStates
  <2>2. texts \in Seq(Texts) /\ texts \in Seq(Texts \ {"M110"})
    BY DEF Texts, OwnTexts
  <2>3. JobStop(p) = SendCommands([p EXCEPT !.job = job], texts)
    BY DEF JobStop
  <2> HIDE DEF job, texts
  <2> QED
    BY <1>1, <2>1, <2>2, <2>3
<1>3. Gentle(p, JobPause(p))
  <2> DEFINE job == [p.job EXCEPT !.st = "Paused", !.saved = p.mode]
             texts == (IF ~p.mode.rel THEN << "G91" >> ELSE << >>)
                        \o << "G0", "M117" >>
             T == Texts \ {"M110"}
  <2>1. job \in Jobs
    BY DEF Printers, Jobs, JobStates
  <2>2. texts \in Seq(Texts) /\ texts \in Seq(T)
    <3>1. ASSUME NEW S, {"G91", "G0", "M117"} \subseteq S
          PROVE  texts \in Seq(S)
      <4>1. /\ << "G91" >> \in Seq(S) /\ << >> \in Seq(S)
            /\ << "G0", "M117" >> \in Seq(S)
        BY <3>1
      <4> QED
        BY <4>1, ConcatProperties
    <3> HIDE DEF texts
    <3> QED
      BY <3>1 DEF Texts, OwnTexts
  <2>3. JobPause(p) = SendCommands([p EXCEPT !.job = job], texts)
    BY DEF JobPause
  <2> HIDE DEF job, texts
  <2> QED
    BY <1>1, <2>1, <2>2, <2>3
<1> QED
  BY <1>2, <1>3

(* A new job only changes whose callbacks the commands have. *)
LEMMA SetPrintJobSame ==
  ASSUME NEW p \in Printers
  PROVE  LET q == SetPrintJob(p)
         IN  /\ SameTalk(p, q) /\ DOMAIN q.io = DOMAIN p.io
             /\ \A h : At(q.io, h) = At(p.io, h)
             /\ Numberings(q.io) = Numberings(p.io)
             /\ NumberedBehind(p.queue) => NumberedBehind(q.queue)
             /\ q.state = p.state /\ q.reconnectTimer = p.reconnectTimer
             /\ NoJobYet(p) => NoJobYet(q)
<1> DEFINE age(c) == IF c.cb = "job" THEN [c EXCEPT !.cb = "stale"] ELSE c
           queue == [i \in DOMAIN p.queue |-> age(p.queue[i])]
           io == [i \in DOMAIN p.io |->
                    [p.io[i] EXCEPT !.cmd = age(p.io[i].cmd)]]
           job == [st |-> "Stopped", pos |-> 0, ended |-> FALSE,
                   saved |-> p.job.saved]
           q == SetPrintJob(p)
<1>1. CASE p.job.st \in {"Running", "Paused"}
  <2>1. SetPrintJob(p) = p
    BY <1>1 DEF SetPrintJob
  <2> QED
    BY <2>1 DEF SameTalk
<1>2. CASE p.job.st \notin {"Running", "Paused"}
  <2>1. q = [p EXCEPT !.job = job, !.queue = queue, !.io = io]
    BY <1>2 DEF SetPrintJob
  <2>2. /\ p.queue \in Seq(Commands) /\ p.io \in Seq(Handlers)
        /\ DOMAIN p.queue = 1..Len(p.queue) /\ Len(p.queue) \in Nat
    BY DEF Printers
  <2>3. \A c \in Commands : age(c).text = c.text
    BY DEF Commands
  <2> HIDE DEF age
  <2>4. age(Bare).text = Bare.text
    BY DEF age, Bare
  <2>5. \A i \in DOMAIN p.io : p.io[i].h = io[i].h
                            /\ p.io[i].cmd.text = io[i].cmd.text
    <3> SUFFICES ASSUME NEW i \in DOMAIN p.io
                 PROVE  p.io[i].h = io[i].h /\ p.io[i].cmd.text = io[i].cmd.text
      OBVIOUS
    <3>1. p.io[i] \in Handlers
      BY <2>2
    <3>2. age(p.io[i].cmd).text = p.io[i].cmd.text
      BY <2>3, <2>4, <3>1 DEF Handlers
    <3>3. io[i].h = p.io[i].h /\ io[i].cmd = age(p.io[i].cmd)
      BY <3>1 DEF Handlers
    <3> QED
      BY <3>2, <3>3
  <2>6. \A i \in DOMAIN p.queue : queue[i].text = p.queue[i].text
    BY <2>2, <2>3
  <2>7. DOMAIN io = DOMAIN p.io /\ DOMAIN queue = DOMAIN p.queue
    OBVIOUS
  <2>8. queue = << >> <=> p.queue = << >>
    BY <2>2
  <2>9. p.queue # << >> => Head(queue).text = Head(p.queue).text
    <3> SUFFICES ASSUME p.queue # << >>
                 PROVE  Head(queue).text = Head(p.queue).text
      OBVIOUS
    <3>1. 1 \in DOMAIN p.queue
      BY <2>2
    <3>2. queue \in Seq(Commands)
      <4>1. q \in Printers /\ q.queue = queue
        BY <2>1, SetPrintJobLemma DEF Printers
      <4> QED
        BY <4>1 DEF Printers
    <3>3. Head(queue) = queue[1] /\ Head(p.queue) = p.queue[1]
      <4> HIDE DEF queue
      <4> QED
        BY <2>2, <3>2
    <3> QED
      BY <2>6, <3>1, <3>3
  <2> HIDE DEF queue, io
  <2>10. job.st = "Stopped" /\ job.ended = FALSE
    OBVIOUS
  <2> HIDE DEF job
  <2>11. /\ q.queue = queue /\ q.io = io /\ q.job = job /\ q.state = p.state
         /\ q.reconnectTimer = p.reconnectTimer
         /\ q.executing = p.executing /\ q.tx = p.tx /\ q.rx = p.rx
         /\ q.wire = p.wire /\ q.resend = p.resend /\ q.mode = p.mode
         /\ q.lineNo = p.lineNo /\ q.history = p.history
         /\ q.pendingError = p.pendingError
    BY <2>1 DEF Printers
  <2> HIDE DEF q
  <2>12. \A h : At(io, h) = At(p.io, h)
    BY <2>5, <2>7 DEF At
  <2>13. Numberings(io) = Numberings(p.io)
    BY <2>5, <2>7 DEF Numberings
  <2>14. NumberedBehind(p.queue) => NumberedBehind(queue)
    BY <2>6, <2>7 DEF NumberedBehind
  <2>15. SameTalk(p, q)
    BY <2>8, <2>9, <2>11 DEF SameTalk
  <2>16. NoJobYet(q)
    BY <2>10, <2>11 DEF NoJobYet
  <2> QED
    BY <2>7, <2>11, <2>12, <2>13, <2>14, <2>15, <2>16 DEF q
<1> QED
  BY <1>1, <1>2

LEMMA SetPrintJobKeeps ==
  ASSUME NEW p \in Printers, NEW f, Talk(p, f), Phase(p)
  PROVE  Talk(SetPrintJob(p), f) /\ Phase(SetPrintJob(p))
<1> DEFINE q == SetPrintJob(p)
<1>1. /\ SameTalk(p, q) /\ DOMAIN q.io = DOMAIN p.io
      /\ \A h : At(q.io, h) = At(p.io, h)
      /\ Numberings(q.io) = Numberings(p.io)
      /\ NumberedBehind(p.queue) => NumberedBehind(q.queue)
      /\ q.state = p.state /\ q.reconnectTimer = p.reconnectTimer
      /\ NoJobYet(p) => NoJobYet(q)
  BY SetPrintJobSame
<1> HIDE DEF q
<1>2. Blank(p) => Blank(q)
  BY <1>1 DEF Blank, SameTalk
<1>3. Booting(p) => Booting(q)
  BY <1>1, <1>2 DEF Booting
<1>4. Resetting(p) => Resetting(q)
  BY <1>1, <1>2 DEF Resetting
<1>5. Going(p) => Going(q)
  BY <1>1 DEF Going
<1>6. Phase(q)
  BY <1>1, <1>3, <1>4, <1>5 DEF Phase
<1>7. Talk(q, f)
  BY <1>1, SameTalkTalk
<1> QED
  BY <1>6, <1>7 DEF q

LEMMA JobStartKeeps ==
  ASSUME OwnNumbering, NEW p \in Printers, NEW f, Talk(p, f), Phase(p),
         p.state = "Connected" \/ p.job.st \notin {"Running", "Paused"}
  PROVE  Talk(JobStart(p), f) /\ Phase(JobStart(p))
<1>1. CASE p.state = "Connected"
  <2>1. Going(p)
    BY <1>1 DEF Phase, Booting, Resetting
  <2> QED
    BY <1>1, <2>1, JobStartGentle, GentleKeeps
<1>2. CASE p.state # "Connected"
  <2> DEFINE q == JobStart(p)
  <2>1. NoJobYet(p)
    BY DEF Phase
  <2>2. PICK job \in Jobs : /\ q = [p EXCEPT !.job = job]
                            /\ job.st = "Error" /\ ~job.ended
    BY <1>2, <2>1, JobStartsNot DEF NoJobYet
  <2> HIDE DEF q
  <2>3. /\ SameTalk(p, q) /\ q.io = p.io /\ q.state = p.state
        /\ q.reconnectTimer = p.reconnectTimer /\ q.lineNo = p.lineNo
        /\ q.queue = p.queue /\ q.job = job
    BY <2>2 DEF SameTalk, Printers
  <2>4. NoJobYet(q)
    BY <2>2, <2>3 DEF NoJobYet
  <2>5. Phase(q)
    BY <2>3, <2>4 DEF Phase, Booting, Resetting, Going, Blank
  <2>6. Talk(q, f)
    BY <2>3, SameTalkTalk
  <2> QED
    BY <2>5, <2>6 DEF q
<1> QED
  BY <1>1, <1>2

LEMMA RequestsKeep ==
  ASSUME OwnNumbering, TypeOK, Spoken, Requests, ~StopPrinter,
         ~ChangeSettings, ~ChangePath
  PROVE  Spoken'
<1> DEFINE p == printer
<1>0. p \in Printers
  BY DEF TypeOK
<1>1. p.state \in {"Initializing", "Connected"}
  BY DEF Spoken, Phase, Booting, Resetting, Going
<1>2. fw' = fw
  BY DEF Requests, StartPrinter, StopPrinter, ChangeSettings, ChangePath,
     SubmitGcode, SetTemperature, SubmitJob, ResumeJob, PauseJob, CancelJob,
     ResetRequest, Request
<1>3. ASSUME NEW q, Gentle(p, q), p.state = "Connected"
      PROVE  Talk(q, fw) /\ Phase(q)
  <2>1. Going(p)
    BY <1>3 DEF Spoken, Phase, Booting, Resetting
  <2> QED
    BY <1>0, <1>3, <2>1, GentleKeeps DEF Spoken
<1>4. p.job.st \in {"Running", "Paused"} => p.state = "Connected"
  BY DEF Spoken, Phase, NoJobYet
<1>5. CASE StartPrinter \/ ResetRequest
  BY <1>1, <1>5 DEF StartPrinter, ResetRequest
<1>6. CASE SubmitGcode \/ SetTemperature
  <2>1. PICK text \in Texts, cb \in Callbacks :
          printer' = SendCommand(p, text, cb) /\ text # "M110"
    BY <1>6 DEF SubmitGcode, SetTemperature, Request, Texts, OwnTexts,
       Callbacks, OwnNumbering
  <2>2. p.state = "Connected"
    BY <1>6 DEF SubmitGcode, SetTemperature
  <2>3. Gentle(p, SendCommand(p, text, cb))
    BY <1>0, <2>1, SendCommandGentle
  <2> QED
    BY <1>2, <1>3, <2>1, <2>2, <2>3 DEF Spoken
<1>7. CASE SubmitJob
  <2> DEFINE q == SetPrintJob(p)
  <2>1. q \in Printers /\ Talk(q, fw) /\ Phase(q)
    BY <1>0, SetPrintJobLemma, SetPrintJobKeeps DEF Spoken
  <2>2. printer' = q \/ printer' = JobStart(q)
    BY <1>7 DEF SubmitJob, Request
  <2>3. q.job.st = "Stopped"
    BY <1>0, <1>7 DEF SubmitJob, SetPrintJob, Printers
  <2> HIDE DEF q
  <2>4. Talk(JobStart(q), fw) /\ Phase(JobStart(q))
    BY <2>1, <2>3, JobStartKeeps
  <2> QED
    BY <1>2, <2>1, <2>2, <2>4 DEF Spoken
<1>8. CASE ResumeJob
  <2>1. printer' = JobStart(p)
    BY <1>8 DEF ResumeJob, Request
  <2>2. Talk(JobStart(p), fw) /\ Phase(JobStart(p))
    BY <1>0, <1>4, JobStartKeeps DEF Spoken
  <2> QED
    BY <1>2, <2>1, <2>2 DEF Spoken
<1>9. CASE PauseJob \/ CancelJob
  <2>1. p.state = "Connected"
    BY <1>4, <1>9 DEF PauseJob, CancelJob
  <2>2. printer' = JobPause(p) \/ printer' = JobStop(p)
    BY <1>9 DEF PauseJob, CancelJob, Request
  <2>3. Gentle(p, JobPause(p)) /\ Gentle(p, JobStop(p))
    BY <1>0, <2>1, JobEndsGentle
  <2>4. /\ Talk(JobPause(p), fw) /\ Phase(JobPause(p))
        /\ Talk(JobStop(p), fw) /\ Phase(JobStop(p))
    BY <1>3, <2>1, <2>3
  <2> QED
    BY <1>2, <2>2, <2>4 DEF Spoken
<1> QED
  BY <1>5, <1>6, <1>7, <1>8, <1>9 DEF Requests

-----------------------------------------------------------------------------
(* Before the printer is started, nothing has been sent. *)
Unsent(p, f) == Fresh(p) /\ Talk(p, f) /\ Blank(p)

LEMMA StartIs ==
  ASSUME NEW p \in Printers, NEW f, Unsent(p, f)
  PROVE  LET s == Start(p)
         IN  /\ s.state = "Initializing" /\ s.reconnectTimer = "init"
             /\ s.io = << >> /\ s.queue = p.queue /\ s.lineNo = p.lineNo
             /\ s.job = p.job /\ s.halted = p.halted /\ SameTalk(p, s)
<1> DEFINE s == [p EXCEPT !.state = "Initializing", !.port = "open",
                          !.reads = p.reads + 1, !.quiet = 0,
                          !.timeoutTimer = "check",
                          !.reconnectTimer = "init"]
<1>1. Start(p) = s
  <2> DEFINE d == [p EXCEPT !.state = "Disconnected"]
             o == [d EXCEPT !.port = "open"]
             i == [o EXCEPT !.state = "Initializing"]
             r == [i EXCEPT !.reads = @ + 1]
             t == [r EXCEPT !.quiet = 0, !.timeoutTimer = "check"]
  <2>1. Start(p) = Connected(o)
    BY DEF Start, SetState, DoConnect, OpenSerial, Unsent, Fresh, Printers
  <2>2. SetState(o, "Initializing") = i
    BY DEF SetState, Printers
  <2>3. DoRead(i) = r
    BY DEF DoRead, Readable, Unsent, Fresh, Printers
  <2>4. t.reconnectTimer = "idle"
    BY DEF Unsent, Fresh, Printers
  <2>5. Connected(o) = ArmReconnect(t, "init")
    BY <2>2, <2>3 DEF Connected, SetupTimeoutCheck, Printers
  <2>6. CancelReconnect(t) = t
    <3>1. d \in Printers
      BY DEF Printers, States
    <3> HIDE DEF d
    <3>2. o \in Printers
      BY <3>1 DEF Printers
    <3> HIDE DEF o
    <3>3. i \in Printers
      BY <2>2, <3>2, SetStateLemma DEF States
    <3> HIDE DEF i
    <3>4. r \in Printers
      BY <2>3, <3>3, DoReadLemma
    <3> HIDE DEF r
    <3>5. t \in Printers
      BY <3>4 DEF Printers
    <3> HIDE DEF t
    <3> QED
      BY <2>4, <3>5 DEF CancelReconnect, Printers
  <2>7. [t EXCEPT !.reconnectTimer = "init"] = s
    BY DEF Printers
  <2> HIDE DEF t, s
  <2> QED
    BY <2>1, <2>5, <2>6, <2>7 DEF ArmReconnect
<1>2. /\ s.state = "Initializing" /\ s.reconnectTimer = "init"
      /\ s.io = << >> /\ s.queue = p.queue /\ s.lineNo = p.lineNo
      /\ s.job = p.job /\ s.halted = p.halted /\ SameTalk(p, s)
  BY DEF Unsent, Fresh, SameTalk, Printers
<1> HIDE DEF s
<1> QED
  BY <1>1, <1>2

LEMMA StartKeeps ==
  ASSUME NEW p \in Printers, NEW f, Unsent(p, f)
  PROVE  Talk(Start(p), f) /\ Phase(Start(p))
<1> DEFINE s == Start(p)
<1>2. /\ s.state = "Initializing" /\ s.reconnectTimer = "init"
      /\ s.io = << >> /\ s.queue = p.queue /\ s.lineNo = p.lineNo
      /\ s.job = p.job /\ SameTalk(p, s)
  BY StartIs
<1> HIDE DEF s
<1>3. \A h : At(s.io, h) = {}
  BY <1>2 DEF At
<1>4. Booting(s)
  BY <1>2, <1>3 DEF Booting, Blank, Unsent
<1>5. Phase(s)
  BY <1>2, <1>3, <1>4 DEF Phase, NoJobYet, Unsent, Fresh
<1>6. Talk(s, f)
  BY <1>2, SameTalkTalk DEF Unsent
<1> QED
  BY <1>5, <1>6 DEF s

Tracked ==
  Unsent(printer, fw) \/ (Open(printer, {}) /\ Spoken)

(* Only requests find such a printer. *)
LEMMA UnsentRequests ==
  ASSUME TypeOK, Unsent(printer, fw), Next,
         ~FirmwareReboots, ~Replug, ~StopPrinter, ~ChangeSettings,
         ~ChangePath, ~PrinterStalls
  PROVE  StartPrinter \/ SubmitJob \/ ResumeJob
<1> DEFINE p == printer
<1>0. p \in Printers /\ Fresh(p)
  BY DEF TypeOK, Unsent
<1>1. CASE Requests /\ ~StartPrinter /\ ~SubmitJob /\ ~ResumeJob
  BY <1>0, <1>1 DEF Requests, SubmitGcode, SetTemperature, PauseJob,
     CancelJob, ResetRequest, Fresh
<1>2. CASE RunIo
  BY <1>0, <1>2 DEF RunIo, RunHandler, RunSend, RunReadDone, RunReadError,
     RunWriteError, RunConnected, RunConnectFailed, RunConnectTimeout,
     RunTimeoutCheck, RunReconnect, RunInitialize, RunGetTemperature,
     Due, Fresh
<1>3. CASE Timers \/ Link
  BY <1>0, <1>3 DEF Timers, ReconnectTimerExpires, CheckTimerExpires,
     ConnectTimerExpires, TemperatureTimerExpires,
     Link, LinesArrive, ReadFails, Established, Refused, LoseFrame,
     Writable, Fresh
<1>4. CASE FirmwareStep
  BY <1>0, <1>4 DEF FirmwareStep, FirmwareExecutes, FrameCorrupted,
     FirmwareOverconfirms, FirmwareFails, Fresh
<1> QED
  BY <1>1, <1>2, <1>3, <1>4 DEF Next

LEMMA UnsentStays ==
  ASSUME TypeOK, Attended(printer, {}), Unsent(printer, fw), Next,
         ~FirmwareReboots, ~Replug, ~StopPrinter, ~ChangeSettings,
         ~ChangePath, ~PrinterStalls
  PROVE  Tracked'
<1> DEFINE p == printer
           q == printer'
<1>0. p \in Printers /\ Fresh(p)
  BY DEF TypeOK, Unsent
<1>1. Fresh(q) \/ Open(q, {})
  BY <1>0, FreshStays
<1>2. CASE StartPrinter
  <2>1. q = Start(p) /\ fw' = fw
    BY <1>2 DEF StartPrinter, Request
  <2>2. Spoken'
    BY <1>0, <2>1, StartKeeps DEF Spoken
  <2>3. q.state # "Stopped"
    BY <2>2 DEF Spoken, Phase, Booting, Resetting, Going
  <2> QED
    BY <1>1, <2>2, <2>3 DEF Tracked, Fresh
<1>3. ASSUME NEW r \in Printers, SameTalk(p, r), r = q, fw' = fw,
             r.port = "closed"
      PROVE  Tracked'
  <2>1. Talk(q, fw') /\ Blank(q)
    BY <1>3, SameTalkTalk DEF Unsent, Blank, SameTalk
  <2> QED
    BY <1>1, <1>3, <2>1 DEF Tracked, Unsent, Open
<1>4. ASSUME NEW r \in Printers, SameTalk(p, r), r.port = "closed",
             r.state = "Stopped", r.job.st \notin {"Running", "Paused"},
             ~r.job.ended, JobStart(r) = q, fw' = fw
      PROVE  Tracked'
  <2>1. PICK job \in Jobs : q = [r EXCEPT !.job = job]
    BY <1>4, JobStartsNot
  <2>2. q \in Printers /\ SameTalk(r, q) /\ q.port = r.port
    <3> HIDE DEF q
    <3> QED
      BY <2>1 DEF SameTalk, Printers
  <2>3. SameTalk(p, q)
    BY <1>4, <2>2, SameTalkTrans
  <2> QED
    BY <1>3, <1>4, <2>2, <2>3
<1>5. CASE SubmitJob
  <2> DEFINE r == SetPrintJob(p)
  <2>1. r \in Printers /\ SameTalk(p, r)
    BY <1>0, SetPrintJobLemma, SetPrintJobSame
  <2>2. fw' = fw /\ (q = r \/ q = JobStart(r))
    BY <1>5 DEF SubmitJob, Request
  <2>3. /\ r.port = "closed" /\ r.job.st = "Stopped" /\ ~r.job.ended
        /\ r.state = "Stopped"
    BY <1>0, <1>5 DEF SubmitJob, SetPrintJob, Printers, Fresh
  <2> HIDE DEF r
  <2>4. CASE q = r
    BY <1>3, <2>1, <2>2, <2>3, <2>4
  <2>5. CASE q = JobStart(r)
    BY <1>4, <2>1, <2>2, <2>3, <2>5
  <2> QED
    BY <2>2, <2>4, <2>5
<1>6. CASE ResumeJob
  <2>1. q = JobStart(p) /\ fw' = fw
    BY <1>6 DEF ResumeJob, Request
  <2>2. SameTalk(p, p)
    BY DEF SameTalk
  <2> QED
    BY <1>0, <1>4, <2>1, <2>2 DEF Fresh
<1> QED
  BY <1>2, <1>5, <1>6, UnsentRequests

-----------------------------------------------------------------------------
(***************************************************************************)
(* The mode of the printer is known: dashprint's idea of whether moves are *)
(* relative is the printer's own whenever every command has been answered, *)
(* although the idea changes when a command is written and the printer     *)
(* when it takes the frame, which may be damaged, refused and sent again.  *)
(* The invariant behind it is the whole conversation: where the one        *)
(* command in flight is, whose turn it is, and that the two line counters  *)
(* agree up to it.  Commands do not fail, no frame is lost on the way, and *)
(* M110, which alone has neither a number nor a checksum that would have   *)
(* it sent again, arrives undamaged and comes from dashprint only.         *)
(***************************************************************************)
Calm ==
  /\ Orderly /\ Budget["lose"] = 0 /\ Budget["fail"] = 0
  /\ ~ReportErrors /\ OwnNumbering /\ HistoryLimit < MaxLineNo

NothingFails == NoDisorder /\ left["lose"] = 0 /\ left["fail"] = 0

NumberingArrives == FrameCorrupted => Head(printer.tx).text # "M110"

LEMMA NothingFailsStays ==
  ASSUME left \in Budgets, [Next]_vars, NothingFails
  PROVE  NothingFails' /\ ~LoseFrame /\ ~FirmwareFails
<1>1. \A k \in {"lose", "fail"} : left'[k] = 0 /\ ~Spend(k)
  BY NothingLeft DEF NothingFails, Kinds
<1> QED
  BY <1>1, NoDisorderStays DEF NothingFails, LoseFrame, FirmwareFails

LEMMA TrackedStays ==
  ASSUME Calm, IInv, IInv', NothingFails, Tracked, [Next]_vars,
         NumberingArrives \/ UNCHANGED vars
  PROVE  Tracked'
<1>0. TypeOK /\ TypeOK' /\ Attended(printer, {})
  BY DEF IInv
<1>1. /\ ~FirmwareOverconfirms /\ ~FirmwareReboots /\ ~PrinterStalls
      /\ ~Replug /\ ~StopPrinter /\ ~ChangeSettings /\ ~ChangePath
      /\ ~LoseFrame /\ ~FirmwareFails
  BY <1>0, NoDisorderStays, NothingFailsStays DEF TypeOK, NothingFails
<1>2. CASE UNCHANGED vars
  BY <1>2 DEF vars, Tracked, Spoken
<1>3. CASE Unsent(printer, fw) /\ Next
  BY <1>0, <1>1, <1>3, UnsentStays
<1>4. CASE Open(printer, {}) /\ Spoken /\ Next /\ NumberingArrives
  <2>1. Spoken'
    <3>1. /\ OwnNumbering /\ HistoryLimit < MaxLineNo /\ QuietLimit > 0
          /\ ~ReportErrors
      BY DEF Calm, Orderly
    <3>2. CASE RunIo
      BY <1>0, <1>4, <3>1, <3>2, RunIoKeeps
    <3>3. CASE Timers
      BY <1>0, <1>1, <1>4, <3>3, TimersKeep
    <3>4. CASE Link
      BY <1>0, <1>1, <1>4, <3>4, LinkKeeps
    <3>5. CASE FirmwareStep
      BY <1>0, <1>1, <1>4, <3>1, <3>5, FirmwareKeeps DEF NumberingArrives
    <3>6. CASE Requests
      BY <1>0, <1>1, <1>4, <3>1, <3>6, RequestsKeep
    <3> QED
      BY <1>4, <3>2, <3>3, <3>4, <3>5, <3>6 DEF Next
  <2>2. Open(printer', {})
    <3>1. QuietLimit > 0 /\ NoDisorder /\ Unmixed
      BY <1>4 DEF Calm, Orderly, NothingFails, Unmixed
    <3>2. Fresh(printer') \/ Open(printer', {})
      BY <1>4, <3>1, UnmixedStays DEF Unmixed
    <3>3. printer'.state # "Stopped"
      BY <2>1 DEF Spoken, Phase, Booting, Resetting, Going
    <3> QED
      BY <3>2, <3>3 DEF Fresh
  <2> QED
    BY <2>1, <2>2 DEF Tracked
<1> QED
  BY <1>2, <1>3, <1>4 DEF Tracked

LEMMA TrackedMode ==
  ASSUME Tracked
  PROVE  ModeTracked
<1>1. CASE Unsent(printer, fw)
  BY <1>1 DEF ModeTracked, Unsent, Fresh
<1>2. CASE Spoken
  BY <1>2 DEF ModeTracked, Spoken, Talk, Still, Flying, Pending
<1> QED
  BY <1>1, <1>2 DEF Tracked

LEMMA TrackedStarts ==
  ASSUME Calm, Init
  PROVE  NothingFails /\ Tracked
<1>1. NothingFails
  BY DEF Init, NothingFails, NoDisorder, Calm, Orderly
<1>2. Fresh(printer) /\ Blank(printer) /\ Still(printer, fw)
  BY DEF Init, NewPrinter, PoweredUp, Fresh, Blank, Still, Calm, Orderly
<1>3. ~printer.pendingError /\ printer.lineNo = 1 /\ printer.history = << >>
  BY DEF Init, NewPrinter
<1>4. Numbered(printer.history, printer.lineNo)
  <2>1. Len(<< >>) = 0 /\ DOMAIN << >> = {}
    OBVIOUS
  <2> QED
    BY <1>3, <2>1, LimitAssumption DEF Numbered
<1> QED
  BY <1>1, <1>2, <1>3, <1>4 DEF Tracked, Unsent, Talk

LEMMA CalmInductive ==
  ASSUME Calm
  PROVE  Spec => []IInv
<1>1. SerialOnly
  BY DEF Calm, Orderly, Disorders, SerialOnly
<1> QED
  BY <1>1, Inductive

(***************************************************************************)
(* Whenever no command is queued or in flight, positioningState() is the   *)
(* mode the printer is in: updating it when a command is first written     *)
(* (Printer.cpp, doWrite) is right in spite of the frames sent again.      *)
(***************************************************************************)
THEOREM ModeStaysTracked ==
  ASSUME Calm
  PROVE  Spec /\ [][NumberingArrives]_vars => []ModeTracked
<1>1. Init => NothingFails /\ Tracked
  BY TrackedStarts
<1>2. /\ IInv /\ IInv' /\ NothingFails /\ Tracked
      /\ [Next]_vars /\ [NumberingArrives]_vars
      => NothingFails' /\ Tracked'
  BY NothingFailsStays, TrackedStays DEF IInv, TypeOK
<1>3. Tracked => ModeTracked
  BY TrackedMode
<1>4. Spec => []IInv
  BY CalmInductive
<1> QED
  BY <1>1, <1>2, <1>3, <1>4, PTL DEF Spec
=============================================================================
