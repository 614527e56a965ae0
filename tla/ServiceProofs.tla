--------------------------- MODULE ServiceProofs ---------------------------
(***************************************************************************)
(* The theorems that relate what a job has given to what is printed: on    *)
(* top of the conversation of ProtocolProofs, the one line of the job that *)
(* is on its way is the one after those that were printed.                 *)
(***************************************************************************)
EXTENDS ProtocolProofs

-----------------------------------------------------------------------------
(***************************************************************************)
(* Commands, in the queue or held by the handlers that send them: those    *)
(* that are not the job's, and its line at pos.                            *)
(***************************************************************************)
Cmds(io) == [i \in DOMAIN io |-> io[i].cmd]

Foreign(c) == c.cb \notin {"job", "stale"} /\ ~JobLine(c.text)
Given(c, pos) == c.cb = "job" /\ pos \in DOMAIN JobFile /\ c.text = JobFile[pos]

AllForeign(s) == \A i \in DOMAIN s : Foreign(s[i])
OneGiven(s, pos) ==
  \E i \in DOMAIN s : /\ Given(s[i], pos)
                      /\ \A j \in DOMAIN s : j # i => Foreign(s[j])

LEMMA GivenIsNotForeign ==
  ASSUME NEW c, NEW pos, Given(c, pos)
  PROVE  ~Foreign(c) /\ JobLine(c.text)
BY DEF Given, Foreign, JobLine

LEMMA ForeignAppend ==
  ASSUME NEW S, NEW s \in Seq(S), NEW c \in S, Foreign(c), NEW pos
  PROVE  /\ AllForeign(s) => AllForeign(Append(s, c))
         /\ OneGiven(s, pos) => OneGiven(Append(s, c), pos)
<1> DEFINE t == Append(s, c)
<1>1. /\ DOMAIN s = 1..Len(s) /\ Len(s) \in Nat
      /\ DOMAIN t = 1..(Len(s) + 1)
      /\ \A i \in 1..Len(s) : t[i] = s[i]
      /\ t[Len(s) + 1] = c
  OBVIOUS
<1>2. \A i \in 1..(Len(s) + 1) : i \in 1..Len(s) \/ i = Len(s) + 1
  BY <1>1
<1> HIDE DEF t
<1>3. AllForeign(s) => AllForeign(t)
  BY <1>1, <1>2 DEF AllForeign
<1>4. OneGiven(s, pos) => OneGiven(t, pos)
  <2> SUFFICES ASSUME NEW i \in DOMAIN s, Given(s[i], pos),
                      \A j \in DOMAIN s : j # i => Foreign(s[j])
               PROVE  OneGiven(t, pos)
    BY DEF OneGiven
  <2>1. i \in DOMAIN t /\ Given(t[i], pos)
    BY <1>1
  <2>2. \A j \in DOMAIN t : j # i => Foreign(t[j])
    BY <1>1, <1>2
  <2> QED
    BY <2>1, <2>2 DEF OneGiven
<1> QED
  BY <1>3, <1>4 DEF t

LEMMA GivenAppend ==
  ASSUME NEW S, NEW s \in Seq(S), NEW c \in S, NEW pos, Given(c, pos),
         AllForeign(s)
  PROVE  OneGiven(Append(s, c), pos)
<1> DEFINE t == Append(s, c)
<1>1. /\ DOMAIN s = 1..Len(s) /\ Len(s) \in Nat
      /\ DOMAIN t = 1..(Len(s) + 1)
      /\ \A i \in 1..Len(s) : t[i] = s[i]
      /\ t[Len(s) + 1] = c
  OBVIOUS
<1>2. /\ \A i \in 1..(Len(s) + 1) : i # Len(s) + 1 => i \in 1..Len(s)
      /\ Len(s) + 1 \in 1..(Len(s) + 1)
  BY <1>1
<1> HIDE DEF t
<1> QED
  BY <1>1, <1>2 DEF OneGiven, AllForeign, t

LEMMA CommandsTail ==
  ASSUME NEW S, NEW s \in Seq(S), s # << >>, NEW pos
  PROVE  /\ AllForeign(s) => Foreign(Head(s)) /\ AllForeign(Tail(s))
         /\ OneGiven(s, pos) /\ Foreign(Head(s)) => OneGiven(Tail(s), pos)
         /\ OneGiven(s, pos) /\ ~Foreign(Head(s)) =>
              Given(Head(s), pos) /\ AllForeign(Tail(s))
<1> DEFINE t == Tail(s)
<1>1. /\ DOMAIN s = 1..Len(s) /\ Len(s) \in Nat /\ Len(s) >= 1
      /\ DOMAIN t = 1..(Len(s) - 1)
      /\ \A i \in 1..(Len(s) - 1) : t[i] = s[i + 1]
      /\ Head(s) = s[1]
  OBVIOUS
<1> HIDE DEF t
<1>2. /\ \A i \in DOMAIN t : i + 1 \in DOMAIN s /\ i + 1 # 1 /\ t[i] = s[i + 1]
      /\ \A i \in DOMAIN s : i # 1 => i - 1 \in DOMAIN t /\ t[i - 1] = s[i]
      /\ 1 \in DOMAIN s
  BY <1>1
<1>3. AllForeign(s) => Foreign(Head(s)) /\ AllForeign(t)
  BY <1>1, <1>2 DEF AllForeign
<1>4. ASSUME NEW i \in DOMAIN s, Given(s[i], pos),
             \A j \in DOMAIN s : j # i => Foreign(s[j])
      PROVE  /\ Foreign(Head(s)) => OneGiven(t, pos)
             /\ ~Foreign(Head(s)) => Given(Head(s), pos) /\ AllForeign(t)
  <2>1. CASE i = 1
    BY <1>1, <1>2, <1>4, <2>1, GivenIsNotForeign DEF AllForeign
  <2>2. CASE i # 1
    <3>1. Foreign(Head(s)) /\ i - 1 \in DOMAIN t /\ Given(t[i - 1], pos)
      BY <1>1, <1>2, <1>4, <2>2
    <3>2. \A j \in DOMAIN t : j # i - 1 => Foreign(t[j])
      BY <1>1, <1>2, <1>4
    <3> QED
      BY <3>1, <3>2 DEF OneGiven
  <2> QED
    BY <2>1, <2>2
<1> QED
  BY <1>3, <1>4 DEF OneGiven, t

(* A line that is given is not foreign, whatever else there is. *)
LEMMA OneIsNotAll ==
  ASSUME NEW s, NEW pos, OneGiven(s, pos)
  PROVE  /\ ~AllForeign(s) /\ \E i \in DOMAIN s : s[i].cb = "job"
         /\ pos \in DOMAIN JobFile
BY GivenIsNotForeign DEF OneGiven, AllForeign, Given

(* The handlers that hold no command of the job. *)
Strangers == {hd \in Handlers : Foreign(hd.cmd)}

LEMMA CmdsAre ==
  ASSUME NEW io \in Seq(Handlers)
  PROVE  /\ Cmds(io) \in Seq(Commands \cup {Bare})
         /\ DOMAIN Cmds(io) = DOMAIN io
         /\ \A i \in DOMAIN io : Cmds(io)[i] = io[i].cmd
         /\ io # << >> => /\ Cmds(io) # << >>
                          /\ Cmds(Tail(io)) = Tail(Cmds(io))
                          /\ Head(Cmds(io)) = Head(io).cmd
         /\ \A hd \in Handlers : Cmds(Append(io, hd)) = Append(Cmds(io), hd.cmd)
<1> DEFINE T == Commands \cup {Bare}
           s == Cmds(io)
<1>1. \A hd \in Handlers : hd.cmd \in T
  BY DEF Handlers
<1>2. /\ Len(io) \in Nat /\ DOMAIN io = 1..Len(io)
      /\ \A i \in DOMAIN io : io[i] \in Handlers
  OBVIOUS
<1> HIDE DEF T
<1>3. s = [i \in 1..Len(io) |-> io[i].cmd]
  BY <1>2 DEF Cmds
<1>4. s \in Seq(T) /\ Len(s) = Len(io)
  BY <1>1, <1>2, <1>3
<1>5. DOMAIN s = DOMAIN io /\ \A i \in DOMAIN io : s[i] = io[i].cmd
  BY <1>2, <1>3
<1>6. ASSUME io # << >>
      PROVE  s # << >> /\ Cmds(Tail(io)) = Tail(s) /\ Head(s) = Head(io).cmd
  <2>1. /\ Len(io) >= 1 /\ Tail(io) \in Seq(Handlers)
        /\ Len(Tail(io)) = Len(io) - 1 /\ Head(io) = io[1]
        /\ \A i \in 1..(Len(io) - 1) : Tail(io)[i] = io[i + 1]
    BY <1>2, <1>6
  <2>2. s # << >>
    BY <1>4, <2>1, EmptySeq
  <2>3. /\ Tail(s) \in Seq(T) /\ Len(Tail(s)) = Len(io) - 1
        /\ Head(s) = s[1]
        /\ \A i \in 1..(Len(io) - 1) : Tail(s)[i] = s[i + 1]
    <3> HIDE DEF s
    <3> QED
      BY <1>4, <2>2
  <2>4. /\ DOMAIN Tail(io) = 1..(Len(io) - 1) /\ 1 \in DOMAIN io
        /\ \A i \in 1..(Len(io) - 1) : i + 1 \in DOMAIN io
    BY <1>2, <2>1
  <2>5. \A i \in 1..(Len(io) - 1) : Tail(s)[i] = Tail(io)[i].cmd
    BY <1>5, <2>1, <2>3, <2>4
  <2>6. Tail(s) = [i \in 1..(Len(io) - 1) |-> Tail(s)[i]]
    <3> DEFINE t == Tail(s)
    <3>1. t \in Seq(T) /\ Len(t) = Len(io) - 1
      BY <2>3
    <3> HIDE DEF t
    <3>2. t = [i \in 1..Len(t) |-> t[i]]
      BY <3>1
    <3> QED
      BY <3>1, <3>2 DEF t
  <2>7. Cmds(Tail(io)) = [i \in 1..(Len(io) - 1) |-> Tail(io)[i].cmd]
    BY <2>4 DEF Cmds
  <2> HIDE DEF s
  <2> QED
    BY <1>5, <2>1, <2>2, <2>3, <2>4, <2>5, <2>6, <2>7
<1>7. ASSUME NEW hd \in Handlers
      PROVE  Cmds(Append(io, hd)) = Append(s, hd.cmd)
  <2> DEFINE jo == Append(io, hd)
             t == Append(s, hd.cmd)
             n == Len(io) + 1
  <2>1. /\ DOMAIN jo = 1..n /\ jo[n] = hd
        /\ \A i \in 1..Len(io) : jo[i] = io[i]
    BY <1>2
  <2>2. hd.cmd \in T
    BY <1>1
  <2>3. /\ t \in Seq(T) /\ DOMAIN t = 1..n /\ t[n] = hd.cmd
        /\ \A i \in 1..Len(io) : t[i] = s[i]
    <3> HIDE DEF s
    <3> QED
      BY <1>4, <2>2
  <2>4. \A i \in 1..n : i \in 1..Len(io) \/ i = n
    BY <1>2
  <2> HIDE DEF jo, t, n, s
  <2>5. \A i \in 1..n : t[i] = jo[i].cmd
    BY <1>2, <1>5, <2>1, <2>3, <2>4
  <2>6. t = [i \in 1..n |-> t[i]]
    BY <2>3
  <2>7. Cmds(jo) = [i \in 1..n |-> jo[i].cmd]
    BY <2>1 DEF Cmds
  <2> QED
    BY <2>5, <2>6, <2>7 DEF jo, t
<1> QED
  BY <1>4, <1>5, <1>6, <1>7 DEF T

LEMMA GrowsStrangers ==
  ASSUME NEW io \in Seq(Handlers), NEW jo \in Seq(Handlers),
         Grows(io, jo, Strangers), NEW pos
  PROVE  /\ AllForeign(Cmds(io)) => AllForeign(Cmds(jo))
         /\ OneGiven(Cmds(io), pos) => OneGiven(Cmds(jo), pos)
<1>1. /\ DOMAIN Cmds(io) = DOMAIN io /\ DOMAIN Cmds(jo) = DOMAIN jo
      /\ \A i \in DOMAIN io : Cmds(io)[i] = io[i].cmd
      /\ \A i \in DOMAIN jo : Cmds(jo)[i] = jo[i].cmd
  BY CmdsAre
<1>2. /\ DOMAIN io = 1..Len(io) /\ DOMAIN jo = 1..Len(jo)
      /\ Len(io) \in Nat /\ Len(jo) \in Nat
  OBVIOUS
<1>3. /\ \A i \in DOMAIN io : i \in DOMAIN jo /\ jo[i] = io[i]
      /\ \A i \in DOMAIN jo : i \in DOMAIN io \/ Foreign(jo[i].cmd)
  BY <1>2 DEF Grows, Strangers
<1>4. AllForeign(Cmds(io)) => AllForeign(Cmds(jo))
  BY <1>1, <1>3 DEF AllForeign
<1>5. OneGiven(Cmds(io), pos) => OneGiven(Cmds(jo), pos)
  BY <1>1, <1>3 DEF OneGiven
<1> QED
  BY <1>4, <1>5

-----------------------------------------------------------------------------
(***************************************************************************)
(* The lines that were printed are the first of the file: all that were    *)
(* given, but for one that is on its way and that the firmware has not yet *)
(* executed.  A job that failed never had one, for it was never given to a *)
(* printer that was connected.                                             *)
(***************************************************************************)
First(n) == SubSeq(JobFile, 1, n)

Resting(p) == AllForeign(p.queue) /\ AllForeign(Cmds(p.io))
Handed(p) ==
  \/ OneGiven(p.queue, p.job.pos) /\ AllForeign(Cmds(p.io))
  \/ AllForeign(p.queue) /\ OneGiven(Cmds(p.io), p.job.pos)

Prints(p, done, lines) ==
  /\ ~p.halted /\ p.job.pos <= Len(JobFile)
  /\ \/ /\ Resting(p) /\ p.job.st # "Running"
        /\ lines = IF p.job.st \in {"None", "Error"} THEN << >>
                   ELSE First(p.job.pos)
        /\ p.job.st = "None" => p.job.pos = 0
        /\ p.job.st = "Done" => p.job.pos = Len(JobFile)
     \/ /\ Handed(p) /\ p.job.st \in {"Running", "Paused", "Stopped"}
        /\ lines = First(IF done THEN p.job.pos ELSE p.job.pos - 1)

(* The line in flight has been executed: only its answer is under way. *)
LinePrinted(p, f) ==
  /\ p.queue # << >> /\ Head(p.queue).cb = "job"
  /\ p.executing # NoCommand /\ UsesLineNumber(p.executing)
  /\ f.last = p.lineNo - 1

Faithful(p, f, lines) == Prints(p, LinePrinted(p, f), lines)

LEMMA FirstLines ==
  /\ JobFile \in Seq(Texts) /\ Len(JobFile) \in Nat /\ Len(JobFile) > 0
  /\ DOMAIN JobFile = 1..Len(JobFile)
  /\ First(0) = << >> /\ First(Len(JobFile)) = JobFile
  /\ \A n \in 0..Len(JobFile) : Len(First(n)) = n
  /\ \A n \in DOMAIN JobFile : First(n) = Append(First(n - 1), JobFile[n])
<1>1. /\ JobFile \in Seq(Texts) /\ Len(JobFile) \in Nat /\ Len(JobFile) > 0
      /\ DOMAIN JobFile = 1..Len(JobFile)
  BY TextAssumption
<1>2. First(0) = << >>
  BY SubSeqEmpty DEF First
<1>3. First(Len(JobFile)) = JobFile
  BY <1>1, SubSeqFull DEF First
<1>4. \A n \in 0..Len(JobFile) : Len(First(n)) = n /\ First(n) \in Seq(Texts)
  <2> SUFFICES ASSUME NEW n \in 0..Len(JobFile)
               PROVE  Len(First(n)) = n /\ First(n) \in Seq(Texts)
    OBVIOUS
  <2>1. n \in Int /\ 1 \in Int /\ \A i \in 1..n : JobFile[i] \in Texts
    BY <1>1
  <2>2. /\ SubSeq(JobFile, 1, n) \in Seq(Texts)
        /\ Len(SubSeq(JobFile, 1, n)) = IF 1 <= n THEN n - 1 + 1 ELSE 0
    BY <2>1, SubSeqProperties
  <2> QED
    BY <1>1, <2>2 DEF First
<1>5. ASSUME NEW n \in DOMAIN JobFile
      PROVE  First(n) = Append(First(n - 1), JobFile[n])
  <2>1. n \in 1..Len(JobFile) /\ 1 \in 1..Len(JobFile) /\ n \in 1..Len(JobFile)
    BY <1>1
  <2>2. First(n) = First(n - 1) \o << JobFile[n] >>
    BY <1>1, <2>1, SubSeqRecursiveSecond DEF First
  <2>3. First(n - 1) \in Seq(Texts) /\ JobFile[n] \in Texts
    BY <1>1, <1>4, <2>1
  <2> QED
    BY <2>2, <2>3, AppendIsConcat
<1> QED
  BY <1>1, <1>2, <1>3, <1>4, <1>5

(* What the property asks of it. *)
LEMMA FaithfulPrints ==
  ASSUME TypeOK, NEW f, Faithful(printer, f, printed)
  PROVE  /\ PrintedInOrder /\ DoneIsPrinted
         /\ Len(printed) <= Len(JobFile)
<1>1. printer.job.pos \in Nat
  BY DEF TypeOK, Printers, Jobs
<1>2. Handed(printer) => printer.job.pos \in DOMAIN JobFile
  BY OneIsNotAll DEF Handed
<1>3. printed = First(0) \/ \E n \in 0..Len(JobFile) : printed = First(n)
  BY <1>1, <1>2, FirstLines DEF Faithful, Prints
<1>4. \E n \in 0..Len(JobFile) : printed = First(n) /\ Len(printed) = n
  BY <1>3, FirstLines
<1>5. PrintedInOrder
  BY <1>4 DEF PrintedInOrder, First
<1>6. DoneIsPrinted
  BY FirstLines DEF DoneIsPrinted, Faithful, Prints
<1> QED
  BY <1>5, <1>6 DEF PrintedInOrder

-----------------------------------------------------------------------------
(* A method that leaves the job and its line where they are. *)
Aloof(p, q) ==
  /\ q \in Printers /\ q.queue = p.queue /\ q.job = p.job
  /\ q.halted = p.halted /\ Grows(p.io, q.io, Strangers)

LEMMA AloofTrans ==
  ASSUME NEW p \in Printers, NEW q, NEW r, Aloof(p, q), Aloof(q, r)
  PROVE  Aloof(p, r)
<1>1. /\ p.io \in Seq(Handlers) /\ q.io \in Seq(Handlers)
      /\ r.io \in Seq(Handlers)
  BY DEF Aloof, Printers
<1>2. Grows(p.io, r.io, Strangers)
  BY <1>1, GrowsTrans DEF Aloof
<1> QED
  BY <1>2 DEF Aloof

LEMMA AloofNot ==
  ASSUME NEW p \in Printers, NEW q \in Printers, q.queue = p.queue,
         q.job = p.job, q.halted = p.halted, q.io = p.io
  PROVE  Aloof(p, q)
<1>1. p.io \in Seq(Handlers)
  BY DEF Printers
<1> QED
  BY <1>1, GrowsNot DEF Aloof

LEMMA AloofSame ==
  ASSUME NEW p \in Printers, NEW q, Aloof(p, q)
  PROVE  /\ Resting(p) => Resting(q)
         /\ Handed(p) => Handed(q)
<1>1. p.io \in Seq(Handlers) /\ q.io \in Seq(Handlers)
  BY DEF Aloof, Printers
<1> QED
  BY <1>1, GrowsStrangers DEF Aloof, Resting, Handed

LEMMA AloofPrints ==
  ASSUME NEW p \in Printers, NEW q, NEW done, NEW lines, Aloof(p, q),
         Prints(p, done, lines)
  PROVE  Prints(q, done, lines)
<1>1. q.job = p.job /\ q.halted = p.halted
  BY DEF Aloof
<1>2. (Resting(p) => Resting(q)) /\ (Handed(p) => Handed(q))
  BY AloofSame
<1> QED
  BY <1>1, <1>2 DEF Prints

(* The next command has been written: it is not printed yet. *)
LEMMA WrittenIsNotPrinted ==
  ASSUME NEW p \in Printers, NEW f \in Firmwares, Talk(p, f),
         p.queue # << >> => p.tx # << >>
  PROVE  ~LinePrinted(p, f)
<1> SUFFICES ASSUME LinePrinted(p, f) PROVE FALSE
  OBVIOUS
<1>1. p.queue # << >> /\ UsesLineNumber(p.executing) /\ f.last = p.lineNo - 1
  BY DEF LinePrinted
<1>2. Written(p, f)
  BY <1>1 DEF Talk, Still, Flying, Accepted, Declined
<1>3. f.last = p.lineNo - 2
  BY <1>1, <1>2 DEF Written
<1>4. p.lineNo \in Int
  BY LineNumbers DEF Printers
<1> QED
  BY <1>1, <1>3, <1>4

-----------------------------------------------------------------------------
(***************************************************************************)
(* The lines of the job are told from the commands that dashprint sends of *)
(* its own by their texts.  A line may have the text of one that only a    *)
(* resumed job sends as long as no job is resumed.                         *)
(***************************************************************************)
Resuming == {"G90", "M82", "M83"}

OwnApart == \A text \in OwnTexts \ Resuming : ~JobLine(text)
ResumeApart == \A text \in Resuming : ~JobLine(text)

LEMMA StrangerIs ==
  ASSUME NEW text \in Texts, ~JobLine(text),
         NEW cb \in {"none", "info", "temp", "client"}
  PROVE  Sending(text, cb) \in Strangers /\ Foreign([text |-> text, cb |-> cb])
<1>1. cb \in Callbacks /\ cb \notin {"job", "stale"}
  BY DEF Callbacks
<1>2. Sending(text, cb) \in Handlers
  BY <1>1, SendingType
<1> QED
  BY <1>1, <1>2 DEF Strangers, Foreign, Sending

LEMMA BareIsForeign == Foreign(Bare) /\ Plain \subseteq Strangers
<1>1. ~JobLine(NoCommand)
  BY TextAssumption DEF JobLine
<1>2. Foreign(Bare)
  BY <1>1 DEF Foreign, Bare
<1> QED
  BY <1>2 DEF Strangers, Plain, Handlers

LEMMA OwnStrangers ==
  ASSUME OwnApart, NEW text \in OwnTexts \ Resuming,
         NEW cb \in {"none", "info", "temp", "client"}
  PROVE  Sending(text, cb) \in Strangers
BY StrangerIs DEF OwnApart, Texts

LEMMA SendCommandAloof ==
  ASSUME NEW p \in Printers, NEW text \in Texts, ~JobLine(text),
         NEW cb \in {"none", "info", "temp", "client"}
  PROVE  Aloof(p, SendCommand(p, text, cb))
<1> DEFINE q == SendCommand(p, text, cb)
<1>1. Sending(text, cb) \in Strangers
  BY StrangerIs
<1>2. Grows(p.io, q.io, Strangers)
  BY <1>1, SendCommandGrows
<1>3. q \in Printers
  BY SendCommandLemma DEF Callbacks
<1>4. q.queue = p.queue /\ q.job = p.job /\ q.halted = p.halted
  BY DEF SendCommand, Printers
<1> QED
  BY <1>2, <1>3, <1>4 DEF Aloof

LEMMA SendCommandsAloof ==
  ASSUME NEW p \in Printers, NEW texts \in Seq(Texts),
         \A i \in DOMAIN texts : ~JobLine(texts[i])
  PROVE  Aloof(p, SendCommands(p, texts))
<1> DEFINE q == SendCommands(p, texts)
<1>1. \A i \in DOMAIN texts : texts[i] \in Texts
  OBVIOUS
<1>2. \A i \in DOMAIN texts : Sending(texts[i], "none") \in Strangers
  BY <1>1, StrangerIs
<1>3. Grows(p.io, q.io, Strangers)
  BY <1>2, SendCommandsGrows
<1>4. q \in Printers
  BY SendCommandsAside DEF Aside
<1>5. q.queue = p.queue /\ q.job = p.job /\ q.halted = p.halted
  BY DEF SendCommands, Printers
<1> QED
  BY <1>3, <1>4, <1>5 DEF Aloof

LEMMA PostAloof ==
  ASSUME NEW p \in Printers, NEW h \in Completions \ {"reconnect", "init"}
  PROVE  Aloof(p, Post(p, h))
<1>1. Handler(h) \in Strangers
  BY PlainIs, BareIsForeign
<1>2. Grows(p.io, Post(p, h).io, Strangers)
  BY <1>1, PostGrows
<1>3. Post(p, h) \in Printers
  BY PostLemma
<1> QED
  BY <1>2, <1>3 DEF Aloof, Post, Printers

LEMMA DoReadAloof ==
  ASSUME NEW p \in Printers
  PROVE  Aloof(p, DoRead(p))
<1>1. LET r == DoRead(p)
      IN  /\ r \in Printers /\ SamePhase(p, r) /\ r.halted = p.halted
          /\ Grows(p.io, r.io, Plain)
  BY DoReadShell
<1>2. Grows(p.io, DoRead(p).io, Strangers)
  BY <1>1, BareIsForeign, GrowsMore
<1> QED
  BY <1>1, <1>2 DEF Aloof, SamePhase

LEMMA NextCommandAloof ==
  ASSUME NEW p \in Printers, Writable(p)
  PROVE  /\ Aloof(p, NextCommand(p))
         /\ NextCommand(p).queue # << >> => NextCommand(p).tx # << >>
<1> DEFINE r == NextCommand(p)
<1>1. /\ r \in Printers /\ r.queue = p.queue /\ r.job = p.job
      /\ r.halted = p.halted /\ Grows(p.io, r.io, Plain)
      /\ r.queue # << >> => r.tx # << >>
  BY NextShell
<1> HIDE DEF r
<1>2. Grows(p.io, r.io, Strangers)
  BY <1>1, BareIsForeign, GrowsMore
<1> QED
  BY <1>1, <1>2 DEF Aloof, r

LEMMA GetTemperatureAloof ==
  ASSUME OwnApart, NEW p \in Printers
  PROVE  Aloof(p, GetTemperature(p))
<1>1. "M105" \in OwnTexts \ Resuming
  BY DEF OwnTexts, Resuming
<1>2. Aloof(p, SendCommand(p, "M105", "temp")) /\ Aloof(p, p)
  BY <1>1, SendCommandAloof, AloofNot DEF OwnApart, Texts
<1> QED
  BY <1>2 DEF GetTemperature

LEMMA SetStateAloof ==
  ASSUME NEW p \in Printers
  PROVE  Aloof(p, SetState(p, "Connected"))
<1> DEFINE q == SetState(p, "Connected")
<1>1. q = p \/ q = [p EXCEPT !.state = "Connected"]
  BY DEF SetState
<1>2. q \in Printers
  BY SetStateLemma DEF States
<1> HIDE DEF q
<1>3. q.queue = p.queue /\ q.job = p.job /\ q.halted = p.halted /\ q.io = p.io
  BY <1>1 DEF Printers
<1> QED
  BY <1>2, <1>3, AloofNot DEF q

-----------------------------------------------------------------------------
(* The answer of the front command, and what the job makes of it. *)

LEMMA NextLineIs ==
  ASSUME NEW p \in Printers, p.job.st = "Running" => p.state = "Connected",
         p.job.pos <= Len(JobFile)
  PROVE  LET r == LinesProcessed(p, 1)
             pos == p.job.pos
         IN  /\ r \in Printers /\ r.queue = p.queue /\ r.halted = p.halted
             /\ p.job.st # "Running" => r = p
             /\ p.job.st = "Running" /\ pos < Len(JobFile) =>
                  /\ r.job.st = "Running" /\ r.job.pos = pos + 1
                  /\ r.io = Append(p.io, Sending(JobFile[pos + 1], "job"))
             /\ p.job.st = "Running" /\ pos = Len(JobFile) =>
                  /\ r.job.st = "Done" /\ r.job.pos = pos /\ r.io = p.io
<1> DEFINE r == LinesProcessed(p, 1)
           pos == p.job.pos
           rest == Len(JobFile) - pos
<1>1. /\ pos \in Nat /\ Len(JobFile) \in Nat /\ p.io \in Seq(Handlers)
      /\ p.job \in Jobs
  BY TextAssumption DEF Printers, Jobs
<1>2. r \in Printers /\ r.queue = p.queue
  BY LinesProcessedLemma DEF SameQueue
<1>3. CASE p.job.st # "Running"
  BY <1>2, <1>3 DEF LinesProcessed, Continues
<1> DEFINE k == IF 1 <= rest THEN 1 ELSE rest
           job == [p.job EXCEPT !.st = IF 1 > rest THEN "Done" ELSE "Running",
                                !.pos = pos + k,
                                !.ended = p.job.ended \/ 1 > rest]
           more == [i \in 1..k |-> Sending(JobFile[pos + i], "job")]
<1>4. ASSUME p.job.st = "Running"
      PROVE  r.job = job /\ r.io = p.io \o more /\ r.halted = p.halted
  <2>1. Continues(p) /\ p.state = "Connected" /\ (Exhausted(p, 1) <=> 1 > rest)
    BY <1>4 DEF Continues, Exhausted
  <2>2. ~(~Continues(p) \/ 1 = 0) /\ ~(p.state # "Connected")
    BY <2>1
  <2>3. r = [p EXCEPT !.job = [@ EXCEPT !.st = IF Exhausted(p, 1) THEN "Done"
                                               ELSE "Running",
                                        !.pos = p.job.pos + k,
                                        !.ended = p.job.ended \/ Exhausted(p, 1)],
                      !.io = @ \o more]
    BY <2>2 DEF LinesProcessed
  <2>4. job = [p.job EXCEPT !.st = IF Exhausted(p, 1) THEN "Done"
                                   ELSE "Running",
                            !.pos = p.job.pos + k,
                            !.ended = p.job.ended \/ Exhausted(p, 1)]
    BY <2>1
  <2>5. r = [p EXCEPT !.job = job, !.io = @ \o more]
    BY <2>3, <2>4
  <2> HIDE DEF job, more, r
  <2> QED
    BY <2>5 DEF Printers
<1>5. job.st = (IF 1 > rest THEN "Done" ELSE "Running") /\ job.pos = pos + k
  BY <1>1 DEF Jobs
<1> HIDE DEF job
<1>6. CASE p.job.st = "Running" /\ pos < Len(JobFile)
  <2> DEFINE hd == Sending(JobFile[pos + 1], "job")
  <2>1. ~(1 > rest) /\ k = 1
    BY <1>1, <1>6
  <2>2. hd \in Handlers
    <3>1. pos + 1 \in DOMAIN JobFile /\ JobFile \in Seq(Texts)
      BY <1>1, <1>6, TextAssumption
    <3>2. JobFile[pos + 1] \in Texts
      BY <3>1
    <3> QED
      BY <3>2, SendingType DEF Callbacks
  <2>3. more = << hd >>
    <3>1. more = [i \in 1..1 |-> Sending(JobFile[pos + i], "job")]
      BY <2>1
    <3>2. more[1] = hd
      BY <3>1
    <3> HIDE DEF hd
    <3> QED
      BY <3>1, <3>2
  <2>4. p.io \o more = Append(p.io, hd)
    BY <1>1, <2>2, <2>3, AppendIsConcat
  <2> HIDE DEF hd, more, r, k
  <2> QED
    BY <1>1, <1>2, <1>4, <1>5, <1>6, <2>1, <2>4 DEF hd, r
<1>7. CASE p.job.st = "Running" /\ pos = Len(JobFile)
  <2>1. 1 > rest /\ k = 0
    BY <1>1, <1>7
  <2>2. 1..k = {}
    BY <2>1
  <2>3. more = << >>
    BY <2>2
  <2>4. p.io \o more = p.io
    BY <1>1, <2>3, ConcatEmptySeq
  <2> HIDE DEF more, r, k
  <2> QED
    BY <1>1, <1>2, <1>4, <1>5, <1>7, <2>1, <2>4 DEF r
<1> QED
  BY <1>1, <1>3, <1>6, <1>7

(* The front of the queue is a line of the job, or no such line. *)
LEMMA FrontIs ==
  ASSUME NEW p \in Printers, p.queue # << >>, NEW done, NEW lines,
         Prints(p, done, lines)
  PROVE  LET c == Head(p.queue)
         IN  \/ Foreign(c)
             \/ /\ Given(c, p.job.pos) /\ OneGiven(p.queue, p.job.pos)
                /\ AllForeign(Tail(p.queue)) /\ AllForeign(Cmds(p.io))
                /\ Handed(p) /\ ~Resting(p)
<1>1. p.queue \in Seq(Commands)
  BY DEF Printers
<1>2. AllForeign(p.queue) => Foreign(Head(p.queue))
  BY <1>1, CommandsTail
<1>3. OneGiven(p.queue, p.job.pos) /\ ~Foreign(Head(p.queue)) =>
        Given(Head(p.queue), p.job.pos) /\ AllForeign(Tail(p.queue))
  BY <1>1, CommandsTail
<1> QED
  BY <1>2, <1>3 DEF Prints, Resting, Handed

LEMMA AnswerAloof ==
  ASSUME OwnApart, NEW p \in Printers, p.queue # << >>,
         Foreign(Head(p.queue))
  PROVE  \E q : Aloof(p, q) /\ Answer(p) = [q EXCEPT !.queue = Tail(@)]
<1> DEFINE cb == Head(p.queue).cb
           info == GetTemperature(ShowStartupMessage(SetState(p, "Connected")))
           called ==
             CASE cb = "info" -> info
               [] cb = "temp" -> [p EXCEPT !.tempTimer = TRUE]
               [] cb = "client" -> [p EXCEPT !.replies = @ + 1]
               [] cb = "job" -> LinesProcessed(p, 1)
               [] cb = "stale" -> [p EXCEPT !.halted = TRUE]
               [] OTHER -> p
<1>1. Answer(p) = [called EXCEPT !.queue = Tail(@)]
  BY DEF Answer
<1>2. cb \notin {"job", "stale"}
  BY DEF Foreign
<1>3. Aloof(p, info)
  <2> DEFINE q == SetState(p, "Connected")
             r == ShowStartupMessage(q)
  <2>1. Aloof(p, q)
    BY SetStateAloof
  <2> HIDE DEF q
  <2>2. "M117" \in OwnTexts \ Resuming
    BY DEF OwnTexts, Resuming
  <2>3. Aloof(q, r)
    BY <2>1, <2>2, SendCommandAloof
       DEF ShowStartupMessage, OwnApart, Texts, Aloof
  <2> HIDE DEF r
  <2>4. Aloof(r, GetTemperature(r))
    BY <2>3, GetTemperatureAloof DEF Aloof
  <2>5. Aloof(p, r)
    BY <2>1, <2>3, AloofTrans
  <2>6. Aloof(p, GetTemperature(r))
    BY <2>4, <2>5, AloofTrans
  <2> QED
    BY <2>6 DEF q, r
<1>4. Aloof(p, [p EXCEPT !.tempTimer = TRUE])
  <2> DEFINE q == [p EXCEPT !.tempTimer = TRUE]
  <2>1. /\ q \in Printers /\ q.queue = p.queue /\ q.job = p.job
        /\ q.halted = p.halted /\ q.io = p.io
    BY DEF Printers
  <2> HIDE DEF q
  <2> QED
    BY <2>1, AloofNot DEF q
<1>5. Aloof(p, p)
  BY AloofNot
<1>6. Aloof(p, [p EXCEPT !.replies = @ + 1])
  <2> DEFINE q == [p EXCEPT !.replies = @ + 1]
  <2>1. /\ q \in Printers /\ q.queue = p.queue /\ q.job = p.job
        /\ q.halted = p.halted /\ q.io = p.io
    <3>1. p.replies + 1 \in Nat
      BY DEF Printers
    <3> QED
      BY <3>1 DEF Printers
  <2> HIDE DEF q
  <2> QED
    BY <2>1, AloofNot DEF q
<1> HIDE DEF info
<1>7. Aloof(p, called)
  <2>1. CASE cb = "info"
    BY <1>3, <2>1
  <2>2. CASE cb = "temp"
    BY <1>4, <2>2
  <2>3. CASE cb = "client"
    BY <1>6, <2>3
  <2>4. CASE cb \notin {"info", "temp", "client", "job", "stale"}
    BY <1>5, <2>4
  <2> HIDE DEF cb
  <2> QED
    BY <1>2, <2>1, <2>2, <2>3, <2>4
<1> HIDE DEF called
<1> QED
  BY <1>1, <1>7

(* A job that runs gives its next line, or is done; any other stays.  *)
JobGoesOn(job, next, lines) ==
  \/ next.st = job.st /\ next.pos = job.pos
  \/ /\ job.st = "Running" /\ Len(lines) = job.pos /\ job.pos < Len(JobFile)
     /\ next.st = "Running" /\ next.pos = job.pos + 1
  \/ /\ job.st = "Running" /\ lines = JobFile
     /\ next.st = "Done" /\ next.pos = job.pos

LEMMA AnswerPrints ==
  ASSUME OwnApart, NEW p \in Printers, p.queue # << >>, NoJobYet(p),
         NEW done, done <=> Head(p.queue).cb = "job",
         NEW lines, Prints(p, done, lines)
  PROVE  Prints(Answer(p), FALSE, lines)
         /\ JobGoesOn(p.job, Answer(p).job, lines)
<1> DEFINE r == Answer(p)
           pos == p.job.pos
<1>1. /\ p.queue \in Seq(Commands) /\ p.io \in Seq(Handlers)
      /\ p.job \in Jobs /\ pos \in Nat /\ r \in Printers
  BY AnswerLemma DEF Printers, Jobs
<1>2. CASE Foreign(Head(p.queue))
  <2>1. PICK q : Aloof(p, q) /\ r = [q EXCEPT !.queue = Tail(@)]
    BY <1>2, AnswerAloof
  <2> HIDE DEF r
  <2>2. /\ r.queue = Tail(q.queue) /\ r.io = q.io /\ r.job = q.job
        /\ r.halted = q.halted /\ q.queue = p.queue /\ q.job = p.job
        /\ q.halted = p.halted
    BY <2>1 DEF Aloof, Printers
  <2>3. ~done
    BY <1>2 DEF Foreign
  <2>4. Prints(q, done, lines)
    BY <2>1, AloofPrints
  <2>5. Resting(q) => Resting(r)
    BY <1>1, <1>2, <2>2, CommandsTail DEF Resting
  <2>6. Handed(q) => Handed(r)
    <3>1. OneGiven(p.queue, pos) => OneGiven(Tail(p.queue), pos)
      BY <1>1, <1>2, CommandsTail
    <3>2. AllForeign(p.queue) => AllForeign(Tail(p.queue))
      BY <1>1, CommandsTail
    <3> QED
      BY <2>2, <3>1, <3>2 DEF Handed
  <2>7. Prints(r, FALSE, lines)
    BY <2>2, <2>3, <2>4, <2>5, <2>6 DEF Prints
  <2> QED
    BY <2>2, <2>7 DEF JobGoesOn, r
<1>3. CASE ~Foreign(Head(p.queue))
  <2> DEFINE q == LinesProcessed(p, 1)
  <2>1. /\ Given(Head(p.queue), pos) /\ AllForeign(Tail(p.queue))
        /\ AllForeign(Cmds(p.io)) /\ Handed(p) /\ ~Resting(p)
    BY <1>3, FrontIs
  <2>2. /\ Head(p.queue).cb = "job" /\ pos \in DOMAIN JobFile /\ done
    BY <2>1 DEF Given
  <2>3. /\ p.job.st \in {"Running", "Paused", "Stopped"}
        /\ lines = First(pos) /\ ~p.halted /\ pos <= Len(JobFile)
    BY <2>1, <2>2 DEF Prints
  <2>4. p.job.st = "Running" => p.state = "Connected"
    BY DEF NoJobYet
  <2>5. r = [q EXCEPT !.queue = Tail(@)]
    BY <2>2 DEF Answer
  <2>6. /\ q \in Printers /\ q.queue = p.queue /\ q.halted = p.halted
        /\ p.job.st # "Running" => q = p
        /\ p.job.st = "Running" /\ pos < Len(JobFile) =>
             /\ q.job.st = "Running" /\ q.job.pos = pos + 1
             /\ q.io = Append(p.io, Sending(JobFile[pos + 1], "job"))
        /\ p.job.st = "Running" /\ pos = Len(JobFile) =>
             /\ q.job.st = "Done" /\ q.job.pos = pos /\ q.io = p.io
    BY <2>3, <2>4, NextLineIs
  <2> HIDE DEF q, r
  <2>7. /\ r.queue = Tail(p.queue) /\ r.io = q.io /\ r.job = q.job
        /\ r.halted = q.halted
    BY <2>5, <2>6 DEF Printers
  <2>8. CASE p.job.st # "Running"
    BY <2>1, <2>3, <2>6, <2>7, <2>8 DEF Prints, Resting, JobGoesOn, r
  <2>9. CASE p.job.st = "Running" /\ pos < Len(JobFile)
    <3> DEFINE hd == Sending(JobFile[pos + 1], "job")
    <3>1. pos + 1 \in DOMAIN JobFile /\ JobFile[pos + 1] \in Texts
      BY <1>1, <2>9, FirstLines
    <3>2. hd \in Handlers /\ Given(hd.cmd, pos + 1)
      BY <3>1, SendingType DEF Callbacks, Sending, Given
    <3> HIDE DEF hd
    <3>3. Cmds(r.io) = Append(Cmds(p.io), hd.cmd)
      BY <1>1, <2>6, <2>7, <2>9, <3>2, CmdsAre DEF hd
    <3>4. Cmds(p.io) \in Seq(Commands \cup {Bare})
          /\ hd.cmd \in Commands \cup {Bare}
      BY <1>1, <3>2, CmdsAre DEF Handlers
    <3>5. OneGiven(Cmds(r.io), pos + 1)
      BY <2>1, <3>2, <3>3, <3>4, GivenAppend
    <3>6. Handed(r) /\ r.job.pos = pos + 1 /\ r.job.st = "Running"
      BY <2>1, <2>6, <2>7, <2>9, <3>5 DEF Handed
    <3>7. (pos + 1) - 1 = pos /\ pos + 1 <= Len(JobFile)
      BY <1>1, <3>1, FirstLines
    <3>8. Len(lines) = pos
      BY <1>1, <2>3, FirstLines
    <3>9. Prints(r, FALSE, lines)
      BY <2>3, <2>6, <2>7, <3>6, <3>7 DEF Prints
    <3> QED
      BY <2>9, <3>6, <3>8, <3>9 DEF JobGoesOn, r
  <2>10. CASE p.job.st = "Running" /\ pos = Len(JobFile)
    <3>1. /\ r.job.st = "Done" /\ r.job.pos = pos /\ r.io = p.io
          /\ Resting(r)
      BY <2>1, <2>6, <2>7, <2>10 DEF Resting
    <3>2. lines = JobFile
      BY <2>3, <2>10, FirstLines
    <3>3. Prints(r, FALSE, lines)
      BY <2>3, <2>6, <2>7, <2>10, <3>1 DEF Prints
    <3> QED
      BY <2>10, <3>1, <3>2, <3>3 DEF JobGoesOn, r
  <2>11. pos < Len(JobFile) \/ pos = Len(JobFile)
    BY <1>1, <2>3, FirstLines
  <2> QED
    BY <2>8, <2>9, <2>10, <2>11
<1> QED
  BY <1>2, <1>3

LEMMA NextFaithful ==
  ASSUME NEW p \in Printers, Writable(p), NEW f \in Firmwares,
         Talk(NextCommand(p), f), NEW lines, Prints(p, FALSE, lines)
  PROVE  Faithful(NextCommand(p), f, lines) /\ NextCommand(p).job = p.job
<1> DEFINE s == NextCommand(p)
<1>1. Aloof(p, s) /\ (s.queue # << >> => s.tx # << >>)
  BY NextCommandAloof
<1> HIDE DEF s
<1>2. Prints(s, FALSE, lines) /\ s \in Printers /\ s.job = p.job
  BY <1>1, AloofPrints DEF Aloof
<1>3. ~LinePrinted(s, f)
  BY <1>1, <1>2, WrittenIsNotPrinted DEF s
<1>4. Prints(s, LinePrinted(s, f), lines)
  BY <1>2, <1>3 DEF Prints
<1> QED
  BY <1>2, <1>4 DEF Faithful, s

LEMMA ConfirmedFaithful ==
  ASSUME OwnApart, OwnNumbering, HistoryLimit < MaxLineNo,
         NEW p \in Printers, NEW f \in Firmwares, Writable(p),
         Phase(p), Going(p), Ended(p, f), NEW lines, Faithful(p, f, lines)
  PROVE  /\ Faithful(Confirmed(p), f, lines)
         /\ JobGoesOn(p.job, Confirmed(p).job, lines)
<1> DEFINE r == IF p.lineNo = 0 THEN [p EXCEPT !.lineNo = 1]
                ELSE IF p.resend # NoLine THEN HandleResend(p, p.resend)
                ELSE Answer(p)
           done == LinePrinted(p, f)
<1>1. /\ Confirmed(p) = NextCommand(r) /\ Talk(Confirmed(p), f)
  BY ConfirmedIs, ConfirmedKeeps DEF Ended
<1>2. /\ p.lineNo \in Int /\ f.last \in Int /\ p.queue \in Seq(Commands)
      /\ p.queue # << >> /\ InFlight(p) /\ NoJobYet(p)
  BY DEF Printers, Firmwares, Ended, Phase
<1>3. Prints(p, done, lines)
  BY DEF Faithful
<1>4. SUFFICES /\ r \in Printers /\ Writable(r) /\ Prints(r, FALSE, lines)
               /\ JobGoesOn(p.job, r.job, lines)
  <2> HIDE DEF r
  <2>1. ASSUME r \in Printers, Writable(r), Prints(r, FALSE, lines)
        PROVE  Faithful(NextCommand(r), f, lines) /\ NextCommand(r).job = r.job
    BY <1>1, <2>1, NextFaithful
  <2> QED
    BY <1>1, <2>1
<1>5. ASSUME ~done, NEW q \in Printers, q.queue = p.queue, q.job = p.job,
             q.halted = p.halted, q.io = p.io, q.port = p.port
      PROVE  /\ Writable(q) /\ Prints(q, FALSE, lines)
             /\ JobGoesOn(p.job, q.job, lines)
  <2>1. Prints(q, done, lines)
    BY <1>3, <1>5, AloofNot, AloofPrints
  <2> HIDE DEF done
  <2>2. Prints(q, FALSE, lines)
    BY <1>5, <2>1 DEF Prints
  <2> QED
    BY <1>5, <2>2 DEF JobGoesOn, Writable
<1>6. CASE p.lineNo = 0
  <2>1. r = [p EXCEPT !.lineNo = 1] /\ 1 \in 0..MaxLineNo
    BY <1>6, LineNumbers
  <2> HIDE DEF r
  <2>2. /\ r \in Printers /\ r.queue = p.queue /\ r.job = p.job
        /\ r.halted = p.halted /\ r.io = p.io /\ r.port = p.port
    BY <2>1 DEF Printers
  <2>3. p.executing = "M110"
    <3>1. ~(p.lineNo >= 2) /\ ~(p.lineNo >= 1)
      BY <1>6
    <3> QED
      BY <1>2, <3>1 DEF InFlight
  <2>4. ~done
    BY <2>3 DEF LinePrinted, UsesLineNumber
  <2> QED
    BY <1>5, <2>2, <2>4
<1>7. CASE p.lineNo # 0 /\ p.resend # NoLine
  <2>1. /\ UsesLineNumber(p.executing) /\ p.resend = p.lineNo - 1
        /\ f.last = p.lineNo - 2
    BY <1>7 DEF Ended
  <2>2. p.history # << >> /\ p.lineNo >= 2
    BY <1>2, <2>1 DEF InFlight, UsesLineNumber
  <2>3. r = HandleResend(p, p.lineNo - 1)
    BY <1>7, <2>1
  <2>4. r \in Printers /\ SameShell(p, r)
    BY <2>2, <2>3, HandleResendIs DEF Ended
  <2> HIDE DEF r
  <2>5. ~done
    BY <1>2, <2>1 DEF LinePrinted
  <2> QED
    BY <1>5, <2>4, <2>5 DEF SameShell
<1>8. CASE p.lineNo # 0 /\ p.resend = NoLine
  <2>1. f.last = p.lineNo - 1
    <3>1. UsesLineNumber(p.executing) => p.lineNo >= 2
      BY <1>2 DEF InFlight, UsesLineNumber
    <3>2. ~(UsesLineNumber(p.executing) /\ p.resend = p.lineNo - 1)
      BY <1>2, <1>8, <3>1 DEF NoLine
    <3> QED
      BY <1>8, <3>2 DEF Ended
  <2>2. r = Answer(p)
    BY <1>8
  <2>3. r \in Printers /\ Writable(r)
    <3>1. PICK q : Gentle(p, q) /\ r = [q EXCEPT !.queue = Tail(@)]
      BY <1>2, <2>2, AnswerIs
    <3> HIDE DEF r
    <3>2. r.port = p.port
      BY <3>1 DEF Gentle, Printers
    <3> QED
      BY <2>2, <3>2, AnswerLemma DEF Writable
  <2>4. p.executing = Head(p.queue).text
    BY <1>2, <1>8 DEF InFlight
  <2>5. Head(p.queue) \in Commands
    BY <1>2
  <2>6. Head(p.queue).cb = "job" =>
          /\ p.executing # NoCommand /\ UsesLineNumber(p.executing)
    <3> SUFFICES ASSUME Head(p.queue).cb = "job"
                 PROVE  p.executing # NoCommand /\ UsesLineNumber(p.executing)
      OBVIOUS
    <3>1. JobLine(p.executing)
      BY <1>2, <1>3, <2>4, FrontIs, GivenIsNotForeign DEF Foreign
    <3>2. "M110" \in OwnTexts \ Resuming /\ "M999" \in OwnTexts \ Resuming
      BY DEF OwnTexts, Resuming
    <3>3. UsesLineNumber(p.executing)
      BY <3>1, <3>2 DEF UsesLineNumber, OwnApart
    <3> QED
      BY <2>4, <2>5, <3>3, TextAssumption DEF Commands
  <2>7. done <=> Head(p.queue).cb = "job"
    BY <1>2, <2>1, <2>6 DEF LinePrinted
  <2> HIDE DEF done
  <2>8. Prints(Answer(p), FALSE, lines)
        /\ JobGoesOn(p.job, Answer(p).job, lines)
    BY <1>2, <1>3, <2>7, AnswerPrints
  <2> QED
    BY <2>2, <2>3, <2>8
<1> QED
  BY <1>6, <1>7, <1>8

-----------------------------------------------------------------------------
(* The other handlers. *)

(* What a method leaves alone that goes on with the line in flight. *)
LEMMA AloofFaithful ==
  ASSUME NEW p \in Printers, NEW q, Aloof(p, q), NEW f, NEW lines,
         q.executing = p.executing, q.lineNo = p.lineNo, Faithful(p, f, lines)
  PROVE  Faithful(q, f, lines)
<1>1. LinePrinted(q, f) = LinePrinted(p, f)
  BY DEF LinePrinted, Aloof
<1> QED
  BY <1>1, AloofPrints DEF Faithful

LEMMA ReadDoneFaithful ==
  ASSUME OwnApart, OwnNumbering, HistoryLimit < MaxLineNo,
         NEW q \in Printers, NEW f \in Firmwares, Writable(q),
         Talk(q, f), Phase(q), NEW lines, Faithful(q, f, lines)
  PROVE  /\ Faithful(ReadDone(q), f, lines)
         /\ JobGoesOn(q.job, ReadDone(q).job, lines)
<1>1. PICK p \in Printers :
        /\ SamePhase(q, p) /\ p.io = q.io /\ p.port = q.port
        /\ p.executing = q.executing /\ p.halted = q.halted
        /\ Phase(p)
        /\ \/ ReadDone(q) = DoRead(p) /\ Talk(p, f)
           \/ ReadDone(q) = Confirmed(p) /\ Going(p) /\ Ended(p, f)
  BY ReadDoneIs
<1>2. Aloof(q, p) /\ p.job = q.job /\ p.lineNo = q.lineNo /\ Writable(p)
  BY <1>1, AloofNot DEF SamePhase, Writable
<1>3. Faithful(p, f, lines)
  BY <1>1, <1>2, AloofFaithful
<1>4. CASE ReadDone(q) = DoRead(p)
  <2>1. /\ Aloof(p, DoRead(p)) /\ DoRead(p).executing = p.executing
        /\ DoRead(p).lineNo = p.lineNo
    BY DoReadAloof, DoReadTalk DEF SameTalk
  <2>2. Faithful(DoRead(p), f, lines)
    BY <1>3, <2>1, AloofFaithful
  <2> QED
    BY <1>2, <1>4, <2>1, <2>2 DEF Aloof, JobGoesOn
<1>5. CASE ReadDone(q) = Confirmed(p) /\ Going(p) /\ Ended(p, f)
  BY <1>1, <1>2, <1>3, <1>5, ConfirmedFaithful
<1> QED
  BY <1>1, <1>4, <1>5

(* The handler that is taken, if it holds no command of the job. *)
LEMMA TakenFaithful ==
  ASSUME NEW p \in Printers, p.io # << >>, Foreign(Head(p.io).cmd),
         NEW f, NEW lines, Faithful(p, f, lines)
  PROVE  Faithful([p EXCEPT !.io = Tail(@)], f, lines)
<1> DEFINE q == [p EXCEPT !.io = Tail(@)]
           c == Cmds(p.io)
<1>1. /\ q.queue = p.queue /\ q.job = p.job /\ q.halted = p.halted
      /\ q.io = Tail(p.io) /\ q.executing = p.executing
      /\ q.lineNo = p.lineNo
  BY DEF Printers
<1>2. /\ c \in Seq(Commands \cup {Bare}) /\ c # << >>
      /\ Cmds(Tail(p.io)) = Tail(c) /\ Foreign(Head(c))
  BY CmdsAre DEF Printers
<1> HIDE DEF q, c
<1>3. AllForeign(c) => AllForeign(Tail(c))
  BY <1>2, CommandsTail
<1>4. OneGiven(c, p.job.pos) => OneGiven(Tail(c), p.job.pos)
  BY <1>2, CommandsTail
<1>5. (Resting(p) => Resting(q)) /\ (Handed(p) => Handed(q))
  BY <1>1, <1>2, <1>3, <1>4 DEF Resting, Handed, c
<1>6. LinePrinted(q, f) = LinePrinted(p, f)
  BY <1>1 DEF LinePrinted
<1>7. Faithful(q, f, lines)
  BY <1>1, <1>5, <1>6 DEF Faithful, Prints
<1> QED
  BY <1>7 DEF q

(* sendCommand's handler: the command goes from the handler to the queue. *)
LEMMA SendFaithful ==
  ASSUME HistoryLimit < MaxLineNo, NEW p \in Printers, NEW f \in Firmwares,
         p.io # << >>, Head(p.io).cmd \in Commands, Writable(p), Talk(p, f),
         Head(p.io).cmd.text = "M110" => p.lineNo = 1,
         NEW lines, Faithful(p, f, lines)
  PROVE  LET s == Send([p EXCEPT !.io = Tail(@)], Head(p.io).cmd)
         IN  Faithful(s, f, lines) /\ s.job = p.job
<1> DEFINE cmd == Head(p.io).cmd
           t == [p EXCEPT !.io = Tail(@)]
           q == [t EXCEPT !.queue = Append(@, cmd)]
           s == Send(t, cmd)
           c == Cmds(p.io)
           pos == p.job.pos
<1>1. /\ t \in Printers /\ t.queue = p.queue /\ t.job = p.job
      /\ t.halted = p.halted /\ t.io = Tail(p.io) /\ t.lineNo = p.lineNo
      /\ t.executing = p.executing /\ Writable(t) /\ SameTalk(p, t)
      /\ p.queue \in Seq(Commands)
  <2>1. Tail(p.io) \in Seq(Handlers)
    BY DEF Printers
  <2> QED
    BY <2>1 DEF Printers, Writable, SameTalk
<1>2. /\ c \in Seq(Commands \cup {Bare}) /\ c # << >>
      /\ Cmds(Tail(p.io)) = Tail(c) /\ Head(c) = cmd
  BY CmdsAre DEF Printers
<1>3. s = DoWrite(q)
  BY DEF Send
<1> HIDE DEF t
<1>4. /\ q \in Printers /\ q.queue = Append(p.queue, cmd) /\ q.job = p.job
      /\ q.halted = p.halted /\ q.io = Tail(p.io) /\ Writable(q)
      /\ q.lineNo = p.lineNo /\ q.executing = p.executing
      /\ q.queue # << >>
  <2>1. Append(t.queue, cmd) \in Seq(Commands) /\ Append(t.queue, cmd) # << >>
    BY <1>1
  <2> QED
    BY <1>1, <2>1 DEF Printers, Writable
<1>5. Talk(t, f) /\ Talk(s, f)
  BY <1>1, SameTalkTalk, SendTalks
<1> HIDE DEF q, s, c, cmd
<1>6. /\ s \in Printers /\ s.queue = Append(p.queue, cmd) /\ s.job = p.job
      /\ s.halted = p.halted /\ s.io = Tail(p.io)
  <2>1. CASE MayWrite(q)
    BY <1>3, <1>4, <2>1, DoWriteIs, DoWriteLemma
  <2>2. CASE ~MayWrite(q)
    BY <1>3, <1>4, <2>2 DEF DoWrite
  <2> QED
    BY <2>1, <2>2
<1>7. Resting(p) => Resting(s)
  <2> SUFFICES ASSUME Resting(p) PROVE Resting(s)
    OBVIOUS
  <2>1. Foreign(cmd) /\ AllForeign(Tail(c))
    BY <1>2, CommandsTail DEF Resting, c
  <2>2. AllForeign(Append(p.queue, cmd))
    BY <1>1, <2>1, ForeignAppend DEF Resting, cmd
  <2> QED
    BY <1>2, <1>6, <2>1, <2>2 DEF Resting
<1>8. Handed(p) => Handed(s)
  <2>1. CASE OneGiven(p.queue, pos) /\ AllForeign(c)
    <3>1. Foreign(cmd) /\ AllForeign(Tail(c))
      BY <1>2, <2>1, CommandsTail
    <3>2. OneGiven(Append(p.queue, cmd), pos)
      BY <1>1, <2>1, <3>1, ForeignAppend DEF cmd
    <3> QED
      BY <1>2, <1>6, <3>1, <3>2 DEF Handed
  <2>2. CASE AllForeign(p.queue) /\ OneGiven(c, pos) /\ Foreign(cmd)
    <3>1. OneGiven(Tail(c), pos)
      BY <1>2, <2>2, CommandsTail
    <3>2. AllForeign(Append(p.queue, cmd))
      BY <1>1, <2>2, ForeignAppend DEF cmd
    <3> QED
      BY <1>2, <1>6, <3>1, <3>2 DEF Handed
  <2>3. CASE AllForeign(p.queue) /\ OneGiven(c, pos) /\ ~Foreign(cmd)
    <3>1. Given(cmd, pos) /\ AllForeign(Tail(c))
      BY <1>2, <2>3, CommandsTail
    <3>2. OneGiven(Append(p.queue, cmd), pos)
      BY <1>1, <2>3, <3>1, GivenAppend DEF cmd
    <3> QED
      BY <1>2, <1>6, <3>1, <3>2 DEF Handed
  <2> QED
    BY <2>1, <2>2, <2>3 DEF Handed, c
<1>9. LinePrinted(s, f) = LinePrinted(p, f)
  <2>1. CASE MayWrite(q)
    <3>1. p.queue = << >>
      BY <1>4, <2>1 DEF MayWrite, Talk, Flying, Still
    <3>2. s.tx # << >>
      <4>1. PICK frame \in Frames : s.tx = Append(q.tx, frame)
        BY <1>3, <1>4, <2>1, DoWriteSends
      <4>2. q.tx \in Seq(Frames)
        BY <1>4 DEF Printers
      <4> QED
        BY <4>1, <4>2
    <3>3. ~LinePrinted(s, f)
      BY <1>5, <1>6, <3>2, WrittenIsNotPrinted
    <3>4. ~LinePrinted(p, f)
      BY <3>1 DEF LinePrinted
    <3> QED
      BY <3>3, <3>4 DEF LinePrinted
  <2>2. CASE ~MayWrite(q)
    <3>1. s = q /\ p.queue # << >>
      BY <1>3, <1>4, <2>2 DEF MayWrite, DoWrite, Talk, Still, Flying
    <3>2. Head(s.queue) = Head(p.queue) /\ s.queue # << >>
      BY <1>1, <1>6, <3>1
    <3> QED
      BY <1>4, <3>1, <3>2 DEF LinePrinted
  <2> QED
    BY <2>1, <2>2
<1>10. Faithful(s, f, lines)
  BY <1>6, <1>7, <1>8, <1>9 DEF Faithful, Prints
<1> QED
  BY <1>6, <1>10 DEF s, t, cmd

(* A handler that runs: the job goes on, or stays where it is. *)
LEMMA RunIoFaithful ==
  ASSUME OwnApart, OwnNumbering, HistoryLimit < MaxLineNo, QuietLimit > 0,
         TypeOK, Attended(printer, {}), Open(printer, {}), Spoken, RunIo,
         NEW lines, Faithful(printer, fw, lines)
  PROVE  /\ Faithful(printer', fw, lines) /\ fw' = fw /\ printed' = printed
         /\ JobGoesOn(printer.job, printer'.job, lines)
<1> DEFINE p == Taken
           cmd == Head(printer.io).cmd
<1>0. printer \in Printers /\ fw \in Firmwares
  BY DEF TypeOK
<1>1. ASSUME NEW h, NEW result, RunHandler(h, result), h # "send"
      PROVE  /\ p \in Printers /\ Open(p, {h}) /\ h \notin Failures
             /\ h \in Waiting(printer.io) /\ h # "reconnect" /\ Due(h)
             /\ printer' = result /\ fw' = fw /\ printed' = printed
             /\ Writable(p) /\ Talk(p, fw) /\ (h # "init" => Phase(p))
             /\ Faithful(p, fw, lines) /\ p.job = printer.job
  <2>1. /\ Talk(p, fw) /\ Writable(p) /\ h # "reconnect"
        /\ h # "init" => Phase(p)
        /\ p \in Printers /\ Open(p, {h}) /\ h \notin Failures
        /\ h \in Waiting(printer.io) /\ cmd = Bare
        /\ printer' = result /\ fw' = fw /\ printed' = printed /\ Due(h)
    BY <1>1, TakenTalks DEF RunHandler
  <2>2. Foreign(cmd) /\ printer.io # << >>
    BY <2>1, BareIsForeign DEF Due
  <2>3. Faithful(p, fw, lines)
    BY <1>0, <2>2, TakenFaithful DEF Taken
  <2>4. p.job = printer.job
    BY <1>0 DEF Taken, Printers
  <2> QED
    BY <2>1, <2>3, <2>4
<1>2. ASSUME NEW h \in {"readOk", "check", "init", "temp"},
             NEW result, RunHandler(h, result),
             Faithful(result, fw, lines), result.job = p.job
      PROVE  /\ Faithful(printer', fw, lines) /\ fw' = fw /\ printed' = printed
             /\ JobGoesOn(printer.job, printer'.job, lines)
  <2> HIDE DEF p
  <2>1. /\ printer' = result /\ fw' = fw /\ printed' = printed
        /\ p.job = printer.job
    BY <1>1, <1>2
  <2> QED
    BY <1>2, <2>1 DEF JobGoesOn
<1>01. /\ "readOk" # "send" /\ "readOk" # "init"
       /\ "check" # "send" /\ "check" # "init"
  OBVIOUS
<1>3. CASE RunSend
  <2>0. RunHandler("send", Send(p, cmd))
    BY <1>3 DEF RunSend
  <2>1. /\ cmd \in Commands /\ printer.io # << >>
        /\ printer' = Send(p, cmd) /\ fw' = fw /\ printed' = printed
        /\ Due("send")
    BY <2>0, TakenTalks DEF RunHandler, Due
  <2>2. cmd.text = "M110" => printer.lineNo = 1
    BY <2>1, TakenPhase DEF Spoken, Resetting, Blank
  <2>3. Talk(printer, fw) /\ Writable(printer)
    BY DEF Spoken, Open, Writable
  <2>4. Faithful(Send(p, cmd), fw, lines) /\ Send(p, cmd).job = printer.job
    BY <1>0, <2>1, <2>2, <2>3, SendFaithful DEF Taken
  <2> QED
    BY <2>1, <2>4 DEF JobGoesOn
<1>4. CASE RunReadDone
  <2>0. RunHandler("readOk", ReadDone(p))
    BY <1>4 DEF RunReadDone
  <2> HIDE DEF p
  <2>1. /\ p \in Printers /\ Writable(p) /\ Talk(p, fw) /\ Phase(p)
        /\ printer' = ReadDone(p) /\ fw' = fw /\ printed' = printed
        /\ Faithful(p, fw, lines) /\ p.job = printer.job
    BY <1>01, <1>1, <2>0
  <2>2. /\ Faithful(ReadDone(p), fw, lines)
        /\ JobGoesOn(p.job, ReadDone(p).job, lines)
    BY <1>0, <2>1, ReadDoneFaithful
  <2> QED
    BY <2>1, <2>2
<1>5. CASE RunReadError \/ RunWriteError
  BY <1>1, <1>5 DEF RunReadError, RunWriteError, Failures
<1>6. CASE RunConnected \/ RunConnectFailed \/ RunConnectTimeout
  BY <1>1, <1>6
     DEF RunConnected, RunConnectFailed, RunConnectTimeout, Attended, Serial
<1>7. CASE RunTimeoutCheck
  <2>0. RunHandler("check", TimeoutCheck(p))
    BY <1>7 DEF RunTimeoutCheck
  <2> HIDE DEF p
  <2>1. /\ p \in Printers /\ Open(p, {"check"}) /\ Talk(p, fw)
        /\ Faithful(p, fw, lines)
    BY <1>01, <1>1, <2>0
  <2> DEFINE q == SetupTimeoutCheck(p)
  <2>2. TimeoutCheck(p) = q
    BY <2>1, TimeoutCheckIs
  <2>3. /\ q \in Printers /\ q.queue = p.queue /\ q.job = p.job
        /\ q.halted = p.halted /\ q.io = p.io /\ q.executing = p.executing
        /\ q.lineNo = p.lineNo
    BY <2>1 DEF SetupTimeoutCheck, Printers
  <2> HIDE DEF q
  <2>4. Faithful(q, fw, lines)
    BY <2>1, <2>3, AloofNot, AloofFaithful
  <2> QED
    BY <1>2, <2>0, <2>2, <2>3, <2>4
<1>8. CASE RunReconnect
  BY <1>1, <1>8 DEF RunReconnect
<1>9. CASE RunInitialize
  <2>0. RunHandler("init", Initialize(p))
    BY <1>9 DEF RunInitialize
  <2>1. Blank(p)
    BY <1>1, <2>0, TakenPhase DEF Spoken
  <2> HIDE DEF p
  <2>2. p \in Printers /\ Faithful(p, fw, lines)
    BY <1>1, <2>0
  <2> DEFINE q == SendCommand(p, "M110", "none")
             r == SendCommand(q, "M115", "info")
  <2>3. Initialize(p) = r
    BY <2>1, <2>2, InitializeIs DEF SendCommand, Printers
  <2>4. /\ q.executing = p.executing /\ q.lineNo = p.lineNo
        /\ r.executing = p.executing /\ r.lineNo = p.lineNo
    BY <2>2 DEF SendCommand, Printers
  <2>5. /\ "M110" \in OwnTexts \ Resuming /\ "M115" \in OwnTexts \ Resuming
        /\ "M110" \in Texts /\ "M115" \in Texts
    BY DEF OwnTexts, Resuming, Texts
  <2>6. Aloof(p, q)
    BY <2>2, <2>5, SendCommandAloof DEF OwnApart
  <2> HIDE DEF q
  <2>7. Aloof(q, r)
    BY <2>5, <2>6, SendCommandAloof DEF OwnApart, Aloof
  <2> HIDE DEF r
  <2>8. Aloof(p, r)
    BY <2>2, <2>6, <2>7, AloofTrans
  <2>9. Faithful(r, fw, lines) /\ r.job = p.job
    BY <2>2, <2>4, <2>8, AloofFaithful DEF Aloof
  <2> QED
    BY <1>2, <2>0, <2>3, <2>9
<1>10. CASE RunGetTemperature
  <2>0. RunHandler("temp", GetTemperature(p))
    BY <1>10 DEF RunGetTemperature
  <2> HIDE DEF p
  <2> DEFINE q == GetTemperature(p)
  <2>1. p \in Printers /\ Faithful(p, fw, lines)
    BY <1>1, <2>0
  <2>2. Aloof(p, q) /\ q.executing = p.executing /\ q.lineNo = p.lineNo
    BY <2>1, GetTemperatureAloof, GetTemperatureGentle DEF Gentle, SameTalk
  <2> HIDE DEF q
  <2>3. Faithful(q, fw, lines) /\ q.job = p.job
    BY <2>1, <2>2, AloofFaithful DEF Aloof
  <2> QED
    BY <1>2, <2>0, <2>3 DEF q
<1> QED
  BY <1>3, <1>4, <1>5, <1>6, <1>7, <1>8, <1>9, <1>10 DEF RunIo

(* A timer posts a completion. *)
LEMMA TimersFaithful ==
  ASSUME TypeOK, TypeOK', Attended(printer, {}), Spoken, Timers,
         ~PrinterStalls, NEW lines, Faithful(printer, fw, lines)
  PROVE  /\ Faithful(printer', fw, lines) /\ fw' = fw /\ printed' = printed
         /\ printer'.job = printer.job
<1> DEFINE p == printer
           q == printer'
<1>0. p \in Printers /\ q \in Printers
  BY DEF TypeOK
<1>1. PICK h \in Completions :
        /\ q.io = Append(p.io, Handler(h)) /\ q.queue = p.queue
        /\ q.job = p.job /\ q.halted = p.halted /\ q.executing = p.executing
        /\ q.lineNo = p.lineNo /\ fw' = fw /\ printed' = printed
  <2>1. p.reconnectTimer \in {"init", "idle"}
    BY <1>0 DEF Spoken, Phase, Printers
  <2>2. /\ "init" \in Completions /\ "check" \in Completions
        /\ "temp" \in Completions
    BY DEF Completions
  <2>3. CASE ReconnectTimerExpires
    BY <1>0, <2>1, <2>2, <2>3 DEF ReconnectTimerExpires, Post, Printers
  <2>4. CASE CheckTimerExpires
    BY <1>0, <2>2, <2>4 DEF CheckTimerExpires, Post, Printers
  <2>5. CASE ConnectTimerExpires
    BY <2>5 DEF ConnectTimerExpires, Attended, Serial
  <2>6. CASE TemperatureTimerExpires
    BY <1>0, <2>2, <2>6 DEF TemperatureTimerExpires, Post, Printers
  <2> QED
    BY <2>3, <2>4, <2>5, <2>6 DEF Timers
<1>2. Handler(h) \in Strangers
  BY BareIsForeign, HandlerType DEF Strangers, Handler
<1>3. Grows(p.io, q.io, Strangers)
  BY <1>0, <1>1, <1>2, AppendGrows DEF Printers
<1>4. Aloof(p, q)
  BY <1>0, <1>1, <1>3 DEF Aloof
<1> QED
  BY <1>0, <1>1, <1>4, AloofFaithful

(* Lines that arrive wait in the buffer. *)
LEMMA LinkFaithful ==
  ASSUME TypeOK, TypeOK', Open(printer, {}), Link, ~Replug, ~LoseFrame,
         NEW lines, Faithful(printer, fw, lines)
  PROVE  /\ Faithful(printer', fw, lines) /\ fw' = fw /\ printed' = printed
         /\ printer'.job = printer.job
<1> DEFINE p == printer
           q == printer'
<1>0. p \in Printers /\ q \in Printers
  BY DEF TypeOK
<1>1. CASE ReadFails \/ Established \/ Refused
  BY <1>1 DEF ReadFails, Established, Refused, Open
<1>2. CASE LinesArrive
  <2>1. PICK k \in 1..Len(p.wire) :
          q = [Post(p, "readOk") EXCEPT
                 !.reads = @ - 1,
                 !.rx = @ \o SubSeq(p.wire, 1, k),
                 !.wire = SubSeq(@, k + 1, Len(@))]
    BY <1>2 DEF LinesArrive
  <2> DEFINE s == Post(p, "readOk")
  <2>2. s \in Printers /\ Aloof(p, s)
    BY <1>0, PostAloof DEF Completions, Aloof
  <2>3. s.executing = p.executing /\ s.lineNo = p.lineNo
    BY <1>0 DEF Post, Printers
  <2> HIDE DEF s
  <2>4. /\ q.queue = s.queue /\ q.job = s.job /\ q.halted = s.halted
        /\ q.io = s.io /\ q.executing = s.executing /\ q.lineNo = s.lineNo
    BY <2>1, <2>2 DEF Printers, s
  <2>5. Aloof(p, q)
    BY <1>0, <2>2, <2>4, AloofNot, AloofTrans
  <2>6. fw' = fw /\ printed' = printed
    BY <1>2 DEF LinesArrive
  <2> QED
    BY <1>0, <2>3, <2>4, <2>5, <2>6, AloofFaithful DEF Aloof
<1> QED
  BY <1>1, <1>2 DEF Link

(* The firmware executes the line that was given, or something else. *)
LEMMA FirmwareFaithful ==
  ASSUME OwnApart, TypeOK, TypeOK', Open(printer, {}), Spoken, FirmwareStep,
         ~FirmwareOverconfirms, ~FirmwareReboots, ~FirmwareFails,
         Faithful(printer, fw, printed)
  PROVE  LET pos == printer.job.pos
         IN  /\ Faithful(printer', fw', printed')
             /\ printer'.job = printer.job
             /\ \/ printed' = printed
                \/ /\ Len(printed) = pos - 1 /\ pos \in DOMAIN JobFile
                   /\ printed' = Append(printed, JobFile[pos])
<1> DEFINE p == printer
           q == printer'
           pos == p.job.pos
           frame == Head(p.tx)
           text == p.executing
<1>0. /\ p \in Printers /\ q \in Printers /\ fw \in Firmwares
      /\ fw.last \in Int /\ p.lineNo \in Int /\ p.queue \in Seq(Commands)
  BY DEF TypeOK, Printers, Firmwares
<1>1. CASE FirmwareExecutes \/ FrameCorrupted
  <2>1. p.tx # << >>
    BY <1>1 DEF FirmwareExecutes, FrameCorrupted
  <2>2. /\ Flying(p, fw) /\ Written(p, fw) /\ InFlight(p)
        /\ text # NoCommand /\ p.queue # << >>
    BY <2>1 DEF Spoken, Talk, Still, Flying, Written, Accepted, Declined
  <2>3. \E rest : TakeFrame(rest)
    BY <1>1 DEF FirmwareExecutes, FrameCorrupted
  <2>4. /\ q.queue = p.queue /\ q.job = p.job /\ q.halted = p.halted
        /\ q.io = p.io /\ q.executing = p.executing /\ q.lineNo = p.lineNo
    BY <1>0, <2>3 DEF TakeFrame, Reply, Printers
  <2>5. Aloof(p, q)
    BY <1>0, <2>4, AloofNot
  <2>6. \A done, lines : Prints(p, done, lines) => Prints(q, done, lines)
    BY <1>0, <2>5, AloofPrints
  <2>7. UsesLineNumber(text) => text = Head(p.queue).text /\ fw.last = p.lineNo - 2
    BY <2>2 DEF InFlight, Written, UsesLineNumber
  <2>8. ~LinePrinted(p, fw)
    BY <1>0, <2>7 DEF LinePrinted
  <2>9. Head(p.queue).cb = "job" =>
          /\ Given(Head(p.queue), pos) /\ Handed(p) /\ ~Resting(p)
    BY <1>0, <2>2, FrontIs DEF Faithful, Foreign
  <2> HIDE DEF q
  <2>10. CASE FrameCorrupted
    <3>1. fw' = fw /\ printed' = printed
      BY <2>10 DEF FrameCorrupted
    <3>2. Faithful(q, fw, printed)
      BY <1>0, <2>4, <2>5, AloofFaithful
    <3> QED
      BY <2>4, <3>1, <3>2 DEF q
  <2>11. CASE FirmwareExecutes
    <3>1. frame = [n |-> IF UsesLineNumber(text) THEN p.lineNo - 1 ELSE NoLine,
                   text |-> text]
      BY <2>2 DEF Written
    <3> HIDE DEF frame
    <3>2. frame.text = text
          /\ frame.n = IF UsesLineNumber(text) THEN p.lineNo - 1 ELSE NoLine
      BY <3>1
    <3>3. InSequence(fw, frame)
      BY <1>0, <2>7, <3>2 DEF InSequence
    <3>4. /\ fw' = Executed(fw, frame)
          /\ printed' = IF JobLine(text) /\ Len(printed) <= Len(JobFile)
                          THEN Append(printed, text) ELSE printed
      BY <2>11, <3>2, <3>3 DEF FirmwareExecutes, Execute, frame
    <3>5. CASE JobLine(text)
      <4>1. UsesLineNumber(text)
        <5>1. "M110" \in OwnTexts \ Resuming /\ "M999" \in OwnTexts \ Resuming
          BY DEF OwnTexts, Resuming
        <5> QED
          BY <3>5, <5>1 DEF UsesLineNumber, OwnApart
      <4>2. Given(Head(p.queue), pos) /\ Handed(p) /\ ~Resting(p)
        <5>1. ~Foreign(Head(p.queue))
          BY <2>7, <3>5, <4>1 DEF Foreign
        <5> QED
          BY <1>0, <2>2, <5>1, FrontIs DEF Faithful
      <4>3. /\ pos \in DOMAIN JobFile /\ text = JobFile[pos]
            /\ Head(p.queue).cb = "job"
        BY <2>7, <4>1, <4>2 DEF Given
      <4>4. Prints(p, FALSE, printed)
        BY <2>8 DEF Faithful, Prints
      <4>5. printed = First(pos - 1)
        BY <4>2, <4>4 DEF Prints
      <4>6. Len(printed) = pos - 1 /\ Len(printed) <= Len(JobFile)
        BY <4>3, <4>5, FirstLines
      <4>7. printed' = Append(printed, JobFile[pos]) /\ printed' = First(pos)
        BY <3>4, <3>5, <4>3, <4>5, <4>6, FirstLines
      <4>8. fw'.last = p.lineNo - 1
        <5>1. frame.n = p.lineNo - 1 /\ frame.text # "M110" /\ frame.n # NoLine
          BY <1>0, <2>2, <3>2, <4>1 DEF InFlight, UsesLineNumber, NoLine
        <5> QED
          BY <1>0, <3>4, <5>1 DEF Executed, Firmwares
      <4>9. LinePrinted(q, fw')
        BY <2>2, <2>4, <4>1, <4>3, <4>8 DEF LinePrinted
      <4>10. Prints(p, TRUE, printed')
        BY <4>2, <4>4, <4>7 DEF Prints
      <4>11. Prints(q, TRUE, printed')
        BY <2>6, <4>10
      <4>12. Faithful(q, fw', printed')
        BY <4>9, <4>11 DEF Faithful, Prints
      <4> QED
        BY <2>4, <4>3, <4>6, <4>7, <4>12 DEF q
    <3>6. CASE ~JobLine(text)
      <4>1. printed' = printed
        BY <3>4, <3>6
      <4>2. ~(UsesLineNumber(text) /\ Head(p.queue).cb = "job")
        BY <2>7, <2>9, <3>6, GivenIsNotForeign DEF Given, JobLine
      <4>3. ~LinePrinted(q, fw')
        BY <2>4, <4>2 DEF LinePrinted
      <4>4. Prints(p, FALSE, printed)
        BY <2>8 DEF Faithful, Prints
      <4>5. Prints(q, FALSE, printed')
        BY <2>6, <4>1, <4>4
      <4>6. Faithful(q, fw', printed')
        BY <4>3, <4>5 DEF Faithful, Prints
      <4> QED
        BY <2>4, <4>1, <4>6 DEF q
    <3> QED
      BY <3>5, <3>6
  <2> QED
    BY <1>1, <2>10, <2>11
<1> QED
  BY <1>1 DEF FirmwareStep

-----------------------------------------------------------------------------
(* The requests that start, resume, pause and cancel a job. *)

LEMMA RestingIsNotPrinted ==
  ASSUME NEW p \in Printers, Resting(p), NEW f
  PROVE  ~LinePrinted(p, f)
<1>1. p.queue \in Seq(Commands)
  BY DEF Printers
<1>2. p.queue # << >> => Head(p.queue).cb # "job"
  BY <1>1, CommandsTail DEF Resting, Foreign
<1> QED
  BY <1>2 DEF LinePrinted

(* When no line is on its way, the job goes on with its next line. *)
LEMMA RestingGoesOn ==
  ASSUME NEW p \in Printers, Resting(p), ~p.halted, p.job.st = "Running",
         p.state = "Connected", p.job.pos <= Len(JobFile)
  PROVE  LET r == LinesProcessed(p, 1)
             pos == p.job.pos
         IN  /\ Prints(r, FALSE, First(pos)) /\ r \in Printers
             /\ r.queue = p.queue
             /\ pos < Len(JobFile) =>
                  r.job.st = "Running" /\ r.job.pos = pos + 1
             /\ pos = Len(JobFile) => r.job.st = "Done" /\ r.job.pos = pos
<1> DEFINE r == LinesProcessed(p, 1)
           pos == p.job.pos
           hd == Sending(JobFile[pos + 1], "job")
<1>1. /\ r \in Printers /\ r.queue = p.queue /\ r.halted = p.halted
      /\ pos < Len(JobFile) =>
           /\ r.job.st = "Running" /\ r.job.pos = pos + 1
           /\ r.io = Append(p.io, hd)
      /\ pos = Len(JobFile) =>
           /\ r.job.st = "Done" /\ r.job.pos = pos /\ r.io = p.io
  BY NextLineIs
<1>2. pos \in Nat /\ p.io \in Seq(Handlers) /\ Len(JobFile) \in Nat
  BY FirstLines DEF Printers, Jobs
<1> HIDE DEF r
<1>3. CASE pos < Len(JobFile)
  <2>1. pos + 1 \in DOMAIN JobFile /\ JobFile[pos + 1] \in Texts
    BY <1>2, <1>3, FirstLines
  <2>2. hd \in Handlers /\ Given(hd.cmd, pos + 1)
    BY <2>1, SendingType DEF Callbacks, Sending, Given
  <2> HIDE DEF hd
  <2>3. Cmds(r.io) = Append(Cmds(p.io), hd.cmd)
    BY <1>1, <1>2, <1>3, <2>2, CmdsAre
  <2>4. Cmds(p.io) \in Seq(Commands \cup {Bare})
        /\ hd.cmd \in Commands \cup {Bare}
    BY <1>2, <2>2, CmdsAre DEF Handlers
  <2>5. OneGiven(Cmds(r.io), pos + 1)
    BY <2>2, <2>3, <2>4, GivenAppend DEF Resting
  <2>6. Handed(r)
    BY <1>1, <1>3, <2>5 DEF Handed, Resting
  <2>7. (pos + 1) - 1 = pos /\ pos + 1 <= Len(JobFile)
    BY <1>2, <1>3
  <2>8. Prints(r, FALSE, First(pos))
    BY <1>1, <1>3, <2>6, <2>7 DEF Prints
  <2> QED
    BY <1>1, <1>2, <1>3, <2>8 DEF r
<1>4. CASE pos = Len(JobFile)
  <2>1. Prints(r, FALSE, First(pos))
    BY <1>1, <1>4 DEF Prints, Resting
  <2> QED
    BY <1>1, <1>2, <1>4, <2>1 DEF r
<1>5. pos < Len(JobFile) \/ pos = Len(JobFile)
  BY <1>2
<1> QED
  BY <1>3, <1>4, <1>5

(* A job that starts from the beginning of its file. *)
LEMMA StartPrints ==
  ASSUME NEW p \in Printers, Resting(p), ~p.halted,
         p.job.st \notin {"Running", "Paused"}, ~p.job.ended
  PROVE  LET s == JobStart(p)
         IN  /\ \A f : Faithful(s, f, << >>)
             /\ s.job.st \in {"Running", "Error"} /\ s.job.pos = 1
<1> DEFINE s == JobStart(p)
           job == [p.job EXCEPT !.st = "Running", !.pos = 0]
           q == [p EXCEPT !.job = job]
<1>1. s = LinesProcessed(q, 1)
  BY DEF JobStart, PrintLine
<1>2. job \in Jobs /\ job.st = "Running" /\ job.pos = 0
  BY DEF Printers, Jobs, JobStates
<1> HIDE DEF job
<1>3. /\ q \in Printers /\ q.job = job /\ q.queue = p.queue /\ q.io = p.io
      /\ q.halted = p.halted /\ q.state = p.state
  BY <1>2 DEF Printers
<1> HIDE DEF q
<1>4. Resting(q) /\ q.job.pos <= Len(JobFile) /\ 0 < Len(JobFile)
      /\ First(0) = << >> /\ 0 + 1 = 1 /\ 1 <= Len(JobFile)
  BY <1>2, <1>3, FirstLines DEF Resting
<1>5. CASE q.state = "Connected"
  <2>1. /\ Prints(s, FALSE, << >>) /\ s \in Printers /\ s.queue = p.queue
        /\ s.job.st = "Running" /\ s.job.pos = 1
    <3> DEFINE pos == q.job.pos
               r == LinesProcessed(q, 1)
    <3>1. pos = 0 /\ pos <= Len(JobFile) /\ pos < Len(JobFile)
      BY <1>2, <1>3, <1>4
    <3>2. /\ Prints(r, FALSE, First(pos)) /\ r \in Printers
          /\ r.queue = q.queue
          /\ pos < Len(JobFile) =>
               r.job.st = "Running" /\ r.job.pos = pos + 1
      BY <1>2, <1>3, <1>4, <1>5, <3>1, RestingGoesOn
    <3> HIDE DEF pos, r
    <3>3. /\ Prints(r, FALSE, << >>) /\ r \in Printers /\ r.queue = p.queue
          /\ r.job.st = "Running" /\ r.job.pos = 1
      BY <1>3, <1>4, <3>1, <3>2
    <3> QED
      BY <1>1, <3>3 DEF r
  <2> HIDE DEF s
  <2>2. \A f : ~LinePrinted(s, f)
    <3>1. p.queue \in Seq(Commands)
      BY DEF Printers
    <3>2. p.queue # << >> => Head(p.queue).cb # "job"
      BY <3>1, CommandsTail DEF Resting, Foreign
    <3> QED
      BY <2>1, <3>2 DEF LinePrinted
  <2>3. \A f : Faithful(s, f, << >>)
    BY <2>1, <2>2 DEF Faithful, Prints
  <2> QED
    BY <2>1, <2>3 DEF s
<1>6. CASE q.state # "Connected"
  <2>1. /\ s \in Printers /\ s.queue = p.queue /\ s.io = p.io
        /\ s.halted = p.halted /\ s.job.st = "Error" /\ s.job.pos = 1
    <3>1. PICK failed \in Jobs : /\ s = [p EXCEPT !.job = failed]
                                 /\ failed.st = "Error" /\ failed.pos = 1
      BY <1>3, <1>6, JobStartsNot
    <3> HIDE DEF s
    <3> QED
      BY <3>1 DEF Printers
  <2> HIDE DEF s
  <2>2. Resting(s)
    BY <2>1 DEF Resting
  <2>3. \A f : ~LinePrinted(s, f)
    BY <2>1, <2>2, RestingIsNotPrinted
  <2>4. Prints(s, FALSE, << >>)
    BY <1>4, <2>1, <2>2 DEF Prints
  <2>5. \A f : Faithful(s, f, << >>)
    BY <2>3, <2>4 DEF Faithful, Prints
  <2> QED
    BY <2>1, <2>5 DEF s
<1> QED
  BY <1>5, <1>6

(* A paused job that goes on, behind the commands that undo the pause. *)
LEMMA ResumePrints ==
  ASSUME OwnApart, ResumeApart, NEW p \in Printers, Resting(p), ~p.halted,
         p.job.st = "Paused", p.state = "Connected",
         p.job.pos <= Len(JobFile)
  PROVE  LET s == JobStart(p)
             pos == p.job.pos
         IN  /\ \A f : Faithful(s, f, First(pos))
             /\ pos < Len(JobFile) =>
                  s.job.st = "Running" /\ s.job.pos = pos + 1
             /\ pos = Len(JobFile) => s.job.st = "Done" /\ s.job.pos = pos
<1> DEFINE s == JobStart(p)
           pos == p.job.pos
           texts == ResumeSequence(p.job.saved)
           q == SendCommands(p, texts)
           job == [q.job EXCEPT !.st = "Running"]
           r == [q EXCEPT !.job = job]
<1>1. s = LinesProcessed(r, 1)
  BY DEF JobStart, PrintLine
<1>2. Aloof(p, q)
  <2> DEFINE T == {"G0", "G90", "M82", "M83", "M117"}
  <2>1. texts \in Seq(Texts) /\ texts \in Seq(T)
    BY ResumeSequenceOver DEF Texts, OwnTexts
  <2>2. \A text \in T : ~JobLine(text)
    BY DEF OwnApart, ResumeApart, Resuming, OwnTexts
  <2> HIDE DEF texts, T
  <2>3. \A i \in DOMAIN texts : ~JobLine(texts[i])
    BY <2>1, <2>2
  <2> QED
    BY <2>1, <2>3, SendCommandsAloof
<1>3. q.state = p.state
  BY DEF SendCommands, Printers
<1> HIDE DEF q
<1>4. q \in Printers /\ q.job = p.job /\ q.halted = p.halted
  BY <1>2 DEF Aloof
<1>5. job \in Jobs /\ job.st = "Running" /\ job.pos = pos
  BY <1>4 DEF Printers, Jobs, JobStates
<1>6. Resting(q)
  BY <1>2, AloofSame
<1> HIDE DEF job
<1>7. /\ r \in Printers /\ r.queue = q.queue /\ r.io = q.io
      /\ r.job = job /\ r.halted = q.halted /\ r.state = q.state
  BY <1>4, <1>5 DEF Printers
<1> HIDE DEF r
<1>8. /\ Resting(r) /\ ~r.halted /\ r.job.st = "Running"
      /\ r.state = "Connected" /\ r.job.pos = pos
  BY <1>3, <1>4, <1>5, <1>6, <1>7 DEF Resting
<1>9. /\ Prints(s, FALSE, First(pos)) /\ s.queue = r.queue
      /\ pos < Len(JobFile) => s.job.st = "Running" /\ s.job.pos = pos + 1
      /\ pos = Len(JobFile) => s.job.st = "Done" /\ s.job.pos = pos
  <2> HIDE DEF s
  <2>1. r.job.pos <= Len(JobFile)
    BY <1>8
  <2> HIDE DEF pos
  <2> QED
    BY <1>1, <1>7, <1>8, <2>1, RestingGoesOn
<1> HIDE DEF s, pos
<1>10. ASSUME NEW f PROVE Faithful(s, f, First(pos))
  <2>1. r.queue \in Seq(Commands)
    BY <1>7 DEF Printers
  <2>2. r.queue # << >> => Head(r.queue).cb # "job"
    BY <1>8, <2>1, CommandsTail DEF Resting, Foreign
  <2>3. ~LinePrinted(s, f)
    BY <1>9, <2>2 DEF LinePrinted
  <2> QED
    BY <1>9, <2>3 DEF Faithful, Prints
<1> QED
  BY <1>9, <1>10 DEF s, pos

(* No line of a job is on its way. *)
LEMMA ApartRests ==
  ASSUME NEW p \in Printers, ~Calls(p, "job"), NEW done, NEW lines,
         Prints(p, done, lines)
  PROVE  Resting(p)
<1>1. p.io \in Seq(Handlers)
  BY DEF Printers
<1>2. ~OneGiven(p.queue, p.job.pos)
  BY OneIsNotAll DEF Calls
<1>3. ~OneGiven(Cmds(p.io), p.job.pos)
  <2> DEFINE c == Cmds(p.io)
  <2>1. DOMAIN c = DOMAIN p.io /\ \A i \in DOMAIN p.io : c[i] = p.io[i].cmd
    BY <1>1, CmdsAre
  <2>2. \A i \in DOMAIN c : c[i].cb # "job"
    BY <2>1 DEF Calls
  <2> HIDE DEF c
  <2>3. ~OneGiven(c, p.job.pos)
    BY <2>2, OneIsNotAll
  <2> QED
    BY <2>3 DEF c
<1> QED
  BY <1>2, <1>3 DEF Prints, Handed

(* A new job finds no callback of the last one. *)
LEMMA SetPrintJobRests ==
  ASSUME NEW p \in Printers, Resting(p), p.job.st \notin {"Running", "Paused"}
  PROVE  LET q == SetPrintJob(p)
         IN  /\ q \in Printers /\ Resting(q) /\ q.halted = p.halted
             /\ q.job.st = "Stopped" /\ q.job.pos = 0 /\ ~q.job.ended
<1> DEFINE age(c) == IF c.cb = "job" THEN [c EXCEPT !.cb = "stale"] ELSE c
           q == SetPrintJob(p)
           queue == [i \in DOMAIN p.queue |-> age(p.queue[i])]
           io == [i \in DOMAIN p.io |-> [p.io[i] EXCEPT !.cmd = age(p.io[i].cmd)]]
<1>1. /\ q.queue = queue /\ q.io = io /\ q.halted = p.halted
      /\ q.job.st = "Stopped" /\ q.job.pos = 0 /\ ~q.job.ended
  BY DEF SetPrintJob, Printers
<1>2. q \in Printers
  BY SetPrintJobLemma
<1> HIDE DEF q
<1>3. AllForeign(queue)
  BY DEF AllForeign, Foreign, Resting
<1>4. AllForeign(Cmds(io))
  <2>1. \A i \in DOMAIN p.io : p.io[i].cmd.cb # "job" /\ Foreign(p.io[i].cmd)
    BY DEF Resting, AllForeign, Foreign, Cmds
  <2>2. \A i \in DOMAIN p.io : p.io[i] \in Handlers
    BY DEF Printers
  <2>3. ASSUME NEW i \in DOMAIN p.io PROVE Foreign(io[i].cmd)
    <3>1. io[i].cmd = p.io[i].cmd
      BY <2>1, <2>2 DEF Handlers
    <3> QED
      BY <2>1, <3>1
  <2> HIDE DEF io
  <2>4. DOMAIN io = DOMAIN p.io
    BY DEF io
  <2> QED
    BY <2>3, <2>4 DEF AllForeign, Cmds
<1> QED
  BY <1>1, <1>2, <1>3, <1>4 DEF Resting, q

-----------------------------------------------------------------------------
(***************************************************************************)
(* The steps of the service.  A request that starts or resumes a job finds *)
(* none of its lines on the way, by JobsApart.                             *)
(***************************************************************************)
LEMMA JobStartsFaithful ==
  ASSUME OwnApart, ResumeApart \/ left["resume"] = 0, TypeOK,
         NoJobYet(printer), JobsApart, SubmitJob \/ ResumeJob,
         Faithful(printer, fw, printed)
  PROVE  /\ Faithful(printer', fw', printed')
         /\ Service!Submit \/ Service!Resume
<1> DEFINE p == printer
           q == printer'
           pos == p.job.pos
           set == SetPrintJob(p)
<1>1. /\ p \in Printers /\ fw' = fw /\ ~Calls(p, "job")
      /\ pos \in Nat /\ ~p.halted /\ pos <= Len(JobFile)
      /\ Len(JobFile) \in Nat
  BY FirstLines DEF TypeOK, Printers, Jobs, JobsApart, SubmitJob, ResumeJob,
     Request, Faithful, Prints
<1>2. /\ Resting(p) /\ p.job.st # "Running"
      /\ p.job.st = "Paused" => printed = First(pos)
  <2>1. Resting(p)
    BY <1>1, ApartRests DEF Faithful
  <2>2. Handed(p) => ~Resting(p)
    BY OneIsNotAll DEF Handed, Resting
  <2> QED
    BY <2>1, <2>2 DEF Faithful, Prints
<1>3. CASE SubmitJob
  <2>1. /\ p.job.st \notin {"Running", "Paused"} /\ printed' = << >>
        /\ q = set \/ q = JobStart(set)
    BY <1>3 DEF SubmitJob, Request
  <2>2. /\ set \in Printers /\ Resting(set) /\ ~set.halted
        /\ set.job.st = "Stopped" /\ set.job.pos = 0 /\ ~set.job.ended
    BY <1>1, <1>2, <2>1, SetPrintJobRests
  <2> HIDE DEF set
  <2>3. CASE q = set
    <3>1. ~LinePrinted(set, fw)
      BY <2>2, RestingIsNotPrinted
    <3>2. First(0) = << >> /\ 0 <= Len(JobFile)
      BY FirstLines
    <3>3. Faithful(set, fw, << >>)
      BY <2>2, <3>1, <3>2 DEF Faithful, Prints
    <3>4. Service!Submit
      BY <2>1, <2>2, <2>3 DEF Service!Submit, Service!InProgress
    <3> QED
      BY <1>1, <2>1, <2>3, <3>3, <3>4
  <2>4. CASE q = JobStart(set)
    <3>1. /\ Faithful(JobStart(set), fw, << >>)
          /\ JobStart(set).job.st \in {"Running", "Error"}
          /\ JobStart(set).job.pos = 1
      BY <2>2, StartPrints
    <3>2. Service!Submit
      BY <2>1, <2>4, <3>1 DEF Service!Submit, Service!InProgress
    <3> QED
      BY <1>1, <2>1, <2>4, <3>1, <3>2
  <2> QED
    BY <2>1, <2>3, <2>4
<1>4. CASE ResumeJob
  <2>1. /\ q = JobStart(p) /\ p.job.st # "None"
        /\ printed' = IF p.job.st = "Paused" THEN printed ELSE << >>
        /\ p.job.st = "Paused" \/ ~p.job.ended
    BY <1>4 DEF ResumeJob, Request, JobsApart
  <2>2. left["resume"] > 0
    BY <1>4 DEF ResumeJob, Request, Spend
  <2>3. CASE p.job.st = "Paused"
    <3>1. ResumeApart /\ p.state = "Connected"
      BY <2>2, <2>3 DEF NoJobYet
    <3>2. /\ Faithful(q, fw, First(pos))
          /\ pos < Len(JobFile) => q.job.st = "Running" /\ q.job.pos = pos + 1
          /\ pos = Len(JobFile) => q.job.st = "Done" /\ q.job.pos = pos
      BY <1>1, <1>2, <2>1, <2>3, <3>1, ResumePrints
    <3>3. Len(First(pos)) = pos /\ First(Len(JobFile)) = JobFile
      BY <1>1, FirstLines
    <3>4. printed' = printed /\ printed = First(pos) /\ Len(printed) = pos
      BY <1>2, <2>1, <2>3, <3>3
    <3>5. ASSUME pos < Len(JobFile) PROVE Service!Resume
      BY <2>3, <3>2, <3>4, <3>5 DEF Service!Resume
    <3>6. ASSUME pos = Len(JobFile) PROVE Service!Resume
      <4>1. printed = JobFile /\ q.job.st = "Done" /\ q.job.pos = pos
        BY <3>2, <3>3, <3>4, <3>6
      <4> QED
        BY <2>3, <3>4, <4>1 DEF Service!Resume
    <3>7. Service!Resume
      BY <1>1, <3>5, <3>6
    <3> QED
      BY <1>1, <3>2, <3>4, <3>7
  <2>4. CASE p.job.st # "Paused"
    <3>1. /\ Faithful(q, fw, << >>) /\ q.job.st \in {"Running", "Error"}
          /\ q.job.pos = 1
      BY <1>1, <1>2, <2>1, <2>4, StartPrints
    <3>2. Service!Submit
      BY <1>2, <2>1, <2>4, <3>1 DEF Service!Submit, Service!InProgress
    <3> QED
      BY <1>1, <2>1, <2>4, <3>1, <3>2
  <2> QED
    BY <2>3, <2>4
<1> QED
  BY <1>3, <1>4

(* A job that stops running, and commands behind it. *)
LEMMA JobEndsPrints ==
  ASSUME NEW p \in Printers, p.job.st \in {"Running", "Paused"},
         NEW job \in Jobs, job.pos = p.job.pos,
         job.st \in {"Paused", "Stopped"},
         NEW texts \in Seq(Texts), \A i \in DOMAIN texts : ~JobLine(texts[i]),
         NEW f, NEW lines, Faithful(p, f, lines)
  PROVE  LET s == SendCommands([p EXCEPT !.job = job], texts)
         IN  Faithful(s, f, lines) /\ s.job = job
<1> DEFINE q == [p EXCEPT !.job = job]
           s == SendCommands(q, texts)
<1>1. /\ q \in Printers /\ q.queue = p.queue /\ q.io = p.io /\ q.job = job
      /\ q.halted = p.halted /\ q.executing = p.executing
      /\ q.lineNo = p.lineNo
  BY DEF Printers
<1> HIDE DEF q
<1>2. (Resting(p) => Resting(q)) /\ (Handed(p) => Handed(q))
  BY <1>1 DEF Resting, Handed
<1>3. LinePrinted(q, f) = LinePrinted(p, f)
  BY <1>1 DEF LinePrinted
<1>4. Faithful(q, f, lines)
  BY <1>1, <1>2, <1>3 DEF Faithful, Prints
<1>5. Aloof(q, s) /\ s.executing = q.executing /\ s.lineNo = q.lineNo
  BY <1>1, SendCommandsAloof, SendCommandsTalk DEF SameTalk
<1> HIDE DEF s
<1>6. Faithful(s, f, lines) /\ s.job = job
  BY <1>1, <1>4, <1>5, AloofFaithful DEF Aloof
<1> QED
  BY <1>6 DEF s, q

LEMMA PauseFaithful ==
  ASSUME OwnApart, TypeOK, PauseJob \/ CancelJob,
         Faithful(printer, fw, printed)
  PROVE  /\ Faithful(printer', fw', printed')
         /\ Service!Pause \/ Service!Cancel
<1> DEFINE p == printer
           q == printer'
<1>1. p \in Printers /\ fw' = fw /\ printed' = printed
  BY DEF TypeOK, PauseJob, CancelJob, Request
<1>2. ASSUME NEW texts, texts \in Seq(OwnTexts \ Resuming)
      PROVE  /\ texts \in Seq(Texts)
             /\ \A i \in DOMAIN texts : ~JobLine(texts[i])
  <2>1. OwnTexts \ Resuming \subseteq Texts
    BY DEF Texts
  <2>2. \A i \in DOMAIN texts : texts[i] \in OwnTexts \ Resuming
    BY <1>2
  <2> QED
    BY <1>2, <2>1, <2>2 DEF OwnApart
<1>3. CASE PauseJob
  <2> DEFINE job == [p.job EXCEPT !.st = "Paused", !.saved = p.mode]
             texts == (IF ~p.mode.rel THEN << "G91" >> ELSE << >>)
                        \o << "G0", "M117" >>
  <2>1. p.job.st = "Running" /\ q = SendCommands([p EXCEPT !.job = job], texts)
    BY <1>3 DEF PauseJob, Request, JobPause
  <2>2. job \in Jobs /\ job.pos = p.job.pos /\ job.st = "Paused"
    BY <1>1 DEF Printers, Jobs, JobStates
  <2>3. texts \in Seq(OwnTexts \ Resuming)
    <3> DEFINE S == OwnTexts \ Resuming
               first == IF ~p.mode.rel THEN << "G91" >> ELSE << >>
               rest == << "G0", "M117" >>
    <3>1. "G91" \in S /\ "G0" \in S /\ "M117" \in S
      BY DEF OwnTexts, Resuming
    <3> HIDE DEF S
    <3>2. << "G91" >> \in Seq(S) /\ << >> \in Seq(S) /\ rest \in Seq(S)
      BY <3>1
    <3>3. first \in Seq(S)
      BY <3>2, Zenon
    <3> HIDE DEF first, rest
    <3>4. first \o rest \in Seq(S)
      BY <3>2, <3>3
    <3> QED
      BY <3>4 DEF S, first, rest
  <2> HIDE DEF job, texts
  <2>4. Faithful(q, fw, printed) /\ q.job = job
    BY <1>1, <1>2, <2>1, <2>2, <2>3, JobEndsPrints
  <2>5. Service!Pause
    BY <1>1, <2>1, <2>2, <2>4 DEF Service!Pause
  <2> QED
    BY <1>1, <2>4, <2>5
<1>4. CASE CancelJob
  <2> DEFINE job == [p.job EXCEPT !.st = "Stopped"]
             texts == << "M18", "M107", "M104", "M140", "G91", "G0" >>
  <2>1. /\ p.job.st \in {"Running", "Paused"}
        /\ q = SendCommands([p EXCEPT !.job = job], texts)
    BY <1>4 DEF CancelJob, Request, JobStop
  <2>2. job \in Jobs /\ job.pos = p.job.pos /\ job.st = "Stopped"
    BY <1>1 DEF Printers, Jobs, JobStates
  <2>3. texts \in Seq(OwnTexts \ Resuming)
    BY DEF OwnTexts, Resuming
  <2> HIDE DEF job, texts
  <2>4. Faithful(q, fw, printed) /\ q.job = job
    BY <1>1, <1>2, <2>1, <2>2, <2>3, JobEndsPrints
  <2>5. Service!Cancel
    BY <1>1, <2>1, <2>2, <2>4 DEF Service!Cancel, Service!InProgress
  <2> QED
    BY <1>1, <2>4, <2>5
<1> QED
  BY <1>3, <1>4

(* A command of a user or of a request to set temperatures. *)
LEMMA SubmitFaithful ==
  ASSUME OwnApart, TypeOK, SubmitGcode \/ SetTemperature,
         Faithful(printer, fw, printed)
  PROVE  /\ Faithful(printer', fw', printed') /\ printed' = printed
         /\ printer'.job = printer.job
<1> DEFINE p == printer
<1>1. PICK text \in Texts, cb \in {"none", "client"} :
        /\ ~JobLine(text) /\ printer' = SendCommand(p, text, cb)
  <2>1. CASE SubmitGcode
    BY <2>1 DEF SubmitGcode, Request, Texts
  <2>2. CASE SetTemperature
    <3>1. "M104" \in OwnTexts \ Resuming /\ "M104" \in Texts
      BY DEF OwnTexts, Resuming, Texts
    <3> QED
      BY <2>2, <3>1 DEF SetTemperature, Request, OwnApart
  <2> QED
    BY <2>1, <2>2
<1> DEFINE q == SendCommand(p, text, cb)
<1>2. p \in Printers /\ fw' = fw /\ printed' = printed
  BY DEF TypeOK, SubmitGcode, SetTemperature, Request
<1>3. Aloof(p, q) /\ q.executing = p.executing /\ q.lineNo = p.lineNo
  BY <1>1, <1>2, SendCommandAloof, SendCommandTalk DEF SameTalk
<1> HIDE DEF q
<1>4. Faithful(q, fw, printed) /\ q.job = p.job
  BY <1>2, <1>3, AloofFaithful DEF Aloof
<1> QED
  BY <1>1, <1>2, <1>4 DEF q

Steps == [Service!Next]_(Service!vars)

LEMMA StaysIsStep ==
  ASSUME printed' = printed, printer'.job.st = printer.job.st,
         printer'.job.pos = printer.job.pos
  PROVE  Steps
BY DEF Steps, Service!vars

LEMMA GoesOnIsStep ==
  ASSUME printed' = printed, JobGoesOn(printer.job, printer'.job, printed)
  PROVE  Steps
<1> DEFINE job == printer.job
           next == printer'.job
<1>1. CASE next.st = job.st /\ next.pos = job.pos
  BY <1>1, StaysIsStep
<1>2. CASE /\ job.st = "Running" /\ Len(printed) = job.pos
           /\ job.pos < Len(JobFile)
           /\ next.st = "Running" /\ next.pos = job.pos + 1
  <2>1. Service!GiveLine
    BY <1>2 DEF Service!GiveLine
  <2> QED
    BY <2>1 DEF Steps, Service!Next
<1>3. CASE /\ job.st = "Running" /\ printed = JobFile
           /\ next.st = "Done" /\ next.pos = job.pos
  <2>1. Service!Finish
    BY <1>3 DEF Service!Finish
  <2> QED
    BY <2>1 DEF Steps, Service!Next
<1> QED
  BY <1>1, <1>2, <1>3 DEF JobGoesOn

LEMMA RequestsFaithful ==
  ASSUME OwnApart, ResumeApart \/ left["resume"] = 0, TypeOK, Spoken,
         JobsApart, Requests, ~StopPrinter, ~ChangeSettings, ~ChangePath,
         Faithful(printer, fw, printed)
  PROVE  Faithful(printer', fw', printed') /\ Steps
<1>1. printer.state \in {"Initializing", "Connected"} /\ NoJobYet(printer)
  BY DEF Spoken, Phase, Booting, Resetting, Going
<1>2. CASE StartPrinter \/ ResetRequest
  BY <1>1, <1>2 DEF StartPrinter, ResetRequest
<1>3. CASE SubmitGcode \/ SetTemperature
  BY <1>3, SubmitFaithful, StaysIsStep
<1>4. CASE SubmitJob \/ ResumeJob
  BY <1>1, <1>4, JobStartsFaithful DEF Steps, Service!Next
<1>5. CASE PauseJob \/ CancelJob
  BY <1>5, PauseFaithful DEF Steps, Service!Next
<1> QED
  BY <1>2, <1>3, <1>4, <1>5 DEF Requests

(* Before the printer is started. *)
LEMMA UnsentFaithful ==
  ASSUME OwnApart, ResumeApart \/ left["resume"] = 0, TypeOK,
         Unsent(printer, fw), JobsApart, StartPrinter \/ SubmitJob \/ ResumeJob,
         Faithful(printer, fw, printed)
  PROVE  Faithful(printer', fw', printed') /\ Steps
<1> DEFINE p == printer
           q == Start(p)
<1>0. p \in Printers
  BY DEF TypeOK
<1>1. CASE StartPrinter
  <2>1. printer' = q /\ fw' = fw /\ printed' = printed
    BY <1>1 DEF StartPrinter, Request
  <2>2. /\ q.io = << >> /\ q.queue = p.queue /\ q.job = p.job
        /\ q.halted = p.halted /\ SameTalk(p, q)
    BY <1>0, StartIs
  <2>3. q \in Printers
    BY <1>0, StartLemma
  <2>4. p.io = << >>
    BY DEF Unsent, Fresh
  <2> HIDE DEF q
  <2>5. Aloof(p, q)
    BY <1>0, <2>2, <2>3, <2>4, AloofNot
  <2>6. Faithful(q, fw, printed)
    BY <1>0, <2>2, <2>5, AloofFaithful DEF SameTalk
  <2>7. Steps
    BY <2>1, <2>2, StaysIsStep
  <2> QED
    BY <2>1, <2>6, <2>7
<1>2. CASE SubmitJob \/ ResumeJob
  <2>1. NoJobYet(p)
    BY DEF Unsent, Fresh, NoJobYet
  <2> QED
    BY <1>2, <2>1, JobStartsFaithful DEF Steps, Service!Next
<1> QED
  BY <1>1, <1>2

-----------------------------------------------------------------------------
(***************************************************************************)
(* The lines that were printed are those that the job has given, but for   *)
(* the one on its way, and every step is one of the service.  A line of    *)
(* the job is told from dashprint's own commands by its text: Told.        *)
(***************************************************************************)
Told ==
  \A text \in OwnTexts :
    JobLine(text) => text \in Resuming /\ Budget["resume"] = 0

Faith ==
  /\ NothingFails /\ Tracked
  /\ ResumeApart \/ left["resume"] = 0
  /\ Faithful(printer, fw, printed)

LEMMA ToldApart ==
  ASSUME Told
  PROVE  OwnApart /\ (ResumeApart \/ Budget["resume"] = 0)
<1>1. Resuming \subseteq OwnTexts
  BY DEF Resuming, OwnTexts
<1> QED
  BY <1>1 DEF Told, OwnApart, ResumeApart

LEMMA FaithStays ==
  ASSUME Calm, OwnApart, IInv, IInv', Faith, [Next]_vars,
         (NumberingArrives /\ JobsApart) \/ UNCHANGED vars
  PROVE  Faith' /\ Steps
<1>0. TypeOK /\ TypeOK' /\ Attended(printer, {})
  BY DEF IInv
<1>1. NothingFails' /\ Tracked'
  BY <1>0, NothingFailsStays, TrackedStays DEF Faith, TypeOK
<1>2. ResumeApart \/ left'["resume"] = 0
  <2>1. left["resume"] = 0 => left'["resume"] = 0
    BY <1>0, NothingLeft DEF TypeOK, Kinds
  <2> QED
    BY <2>1 DEF Faith
<1>3. /\ ~FirmwareOverconfirms /\ ~FirmwareReboots /\ ~PrinterStalls
      /\ ~Replug /\ ~StopPrinter /\ ~ChangeSettings /\ ~ChangePath
      /\ ~LoseFrame /\ ~FirmwareFails
  BY <1>0, NoDisorderStays, NothingFailsStays DEF TypeOK, NothingFails, Faith
<1>4. CASE UNCHANGED vars
  BY <1>4, <1>1, <1>2 DEF Faith, vars, Steps, Service!vars
<1>5. CASE Unsent(printer, fw) /\ Next /\ JobsApart
  <2>1. StartPrinter \/ SubmitJob \/ ResumeJob
    BY <1>0, <1>3, <1>5, UnsentRequests
  <2>2. Faithful(printer', fw', printed') /\ Steps
    BY <1>0, <1>5, <2>1, UnsentFaithful DEF Faith
  <2> QED
    BY <1>1, <1>2, <2>2 DEF Faith
<1>6. CASE Open(printer, {}) /\ Spoken /\ Next /\ JobsApart
  <2>1. /\ OwnNumbering /\ HistoryLimit < MaxLineNo /\ QuietLimit > 0
    BY DEF Calm, Orderly
  <2>2. Faithful(printer, fw, printed) /\ (ResumeApart \/ left["resume"] = 0)
    BY DEF Faith
  <2>3. Faithful(printer', fw', printed') /\ Steps
    <3>1. CASE RunIo
      BY <1>0, <1>6, <2>1, <2>2, <3>1, RunIoFaithful, GoesOnIsStep
    <3>2. CASE Timers
      BY <1>0, <1>3, <1>6, <2>2, <3>2, TimersFaithful, StaysIsStep
    <3>3. CASE Link
      BY <1>0, <1>3, <1>6, <2>2, <3>3, LinkFaithful, StaysIsStep
    <3>4. CASE FirmwareStep
      <4> DEFINE pos == printer.job.pos
      <4>1. /\ Faithful(printer', fw', printed')
            /\ printer'.job = printer.job
            /\ \/ printed' = printed
               \/ /\ Len(printed) = pos - 1 /\ pos \in DOMAIN JobFile
                  /\ printed' = Append(printed, JobFile[pos])
        BY <1>0, <1>3, <1>6, <2>2, <3>4, FirmwareFaithful
      <4>2. CASE printed' = printed
        BY <4>1, <4>2, StaysIsStep
      <4>3. CASE /\ Len(printed) = pos - 1 /\ pos \in DOMAIN JobFile
                 /\ printed' = Append(printed, JobFile[pos])
        <5>1. /\ Len(printed) < pos /\ pos <= Len(JobFile)
              /\ Len(printed) + 1 = pos
          BY <4>3, FirstLines
        <5>2. Service!PrintLine
          BY <4>1, <4>3, <5>1 DEF Service!PrintLine
        <5> QED
          BY <4>1, <5>2 DEF Steps, Service!Next
      <4> QED
        BY <4>1, <4>2, <4>3
    <3>5. CASE Requests
      BY <1>0, <1>3, <1>6, <2>2, <3>5, RequestsFaithful
    <3> QED
      BY <1>6, <3>1, <3>2, <3>3, <3>4, <3>5 DEF Next
  <2> QED
    BY <1>1, <1>2, <2>3 DEF Faith
<1> QED
  BY <1>4, <1>5, <1>6 DEF Faith, Tracked

LEMMA FaithStarts ==
  ASSUME Calm, Told, Init
  PROVE  Faith /\ Service!Init
<1>1. NothingFails /\ Tracked
  BY TrackedStarts
<1>2. ResumeApart \/ left["resume"] = 0
  BY ToldApart DEF Init
<1>3. /\ printer.queue = << >> /\ printer.io = << >> /\ ~printer.halted
      /\ printer.job.st = "None" /\ printer.job.pos = 0 /\ printed = << >>
  BY DEF Init, NewPrinter
<1>4. Resting(printer)
  BY <1>3 DEF Resting, AllForeign, Cmds
<1>5. ~LinePrinted(printer, fw)
  BY <1>3 DEF LinePrinted
<1>6. Faithful(printer, fw, printed)
  BY <1>3, <1>4, <1>5, FirstLines DEF Faithful, Prints
<1>7. Service!Init
  BY <1>3 DEF Service!Init
<1> QED
  BY <1>1, <1>2, <1>6, <1>7 DEF Faith

(***************************************************************************)
(* Everything together, with the invariant of all theorems about printing. *)
(***************************************************************************)
LEMMA FaithKept ==
  ASSUME Calm, Told
  PROVE  Spec /\ [][NumberingArrives /\ JobsApart]_vars => []Faith /\ [][Steps]_vars
<1>1. Init => Faith
  BY FaithStarts
<1>2. /\ IInv /\ IInv' /\ Faith /\ [Next]_vars
      /\ [NumberingArrives /\ JobsApart]_vars
      => Faith' /\ Steps
  BY ToldApart, FaithStays
<1>3. Spec => []IInv
  BY CalmInductive
<1> QED
  BY <1>1, <1>2, <1>3, PTL DEF Spec

(***************************************************************************)
(* The firmware executes the lines of the file in order, each once, in     *)
(* spite of frames that are damaged, refused and sent again, and of other  *)
(* commands in between (Printer.cpp, readDone and handleResend).           *)
(***************************************************************************)
THEOREM LinesPrintedInOrder ==
  ASSUME Calm, Told
  PROVE  Spec /\ [][NumberingArrives /\ JobsApart]_vars => []PrintedInOrder
<1>1. IInv /\ Faith => PrintedInOrder
  BY FaithfulPrints DEF IInv, Faith
<1>2. Spec => []IInv
  BY CalmInductive
<1> QED
  BY <1>1, <1>2, FaithKept, PTL

(***************************************************************************)
(* A job that is Done has been printed: the end of the file is found when  *)
(* the answer to the last line comes (PrintJob.cpp, printLine), not when   *)
(* that line is written.                                                   *)
(***************************************************************************)
THEOREM DoneMeansPrinted ==
  ASSUME Calm, Told
  PROVE  Spec /\ [][NumberingArrives /\ JobsApart]_vars => []DoneIsPrinted
<1>1. IInv /\ Faith => DoneIsPrinted
  BY FaithfulPrints DEF IInv, Faith
<1>2. Spec => []IInv
  BY CalmInductive
<1> QED
  BY <1>1, <1>2, FaithKept, PTL

(***************************************************************************)
(* The connection, the protocol, the queue and the event loop implement    *)
(* the promise of PrintService: every step gives the next line of the job, *)
(* prints it, ends the job, does what a request asks, or is not visible.   *)
(***************************************************************************)
THEOREM ServiceImplemented ==
  ASSUME Calm, Told
  PROVE  Spec /\ [][NumberingArrives /\ JobsApart]_vars => ImplementsService
<1>1. Init => Service!Init
  BY FaithStarts
<1>2. [Steps]_vars => [Service!Next]_(Service!vars)
  BY DEF Steps, vars, Service!vars
<1> QED
  BY <1>1, <1>2, FaithKept, PTL DEF Spec, ImplementsService, Service!Spec
=============================================================================
