---------------------------- MODULE EventsProofs ----------------------------
(***************************************************************************)
(* Proofs about JobEvents, for any number of browsers, subscriptions and   *)
(* events: that the WebSocket implements the safety part of EventChannel,  *)
(* and what a browser's subscriptions get it.                              *)
(***************************************************************************)
EXTENDS JobEvents, TLAPS, SequenceTheorems

Ev == Seq(JobStates)

(* What is on its way in a connection, in order. *)
Transit(h) == h.pending \o h.posted

-----------------------------------------------------------------------------
(* Sequences. *)

LEMMA RepeatProperties ==
    ASSUME NEW n \in Nat, NEW x \in JobStates
    PROVE  /\ Repeat(n, x) \in Ev /\ Len(Repeat(n, x)) = n
           /\ \A i \in 1..n : Repeat(n, x)[i] = x
  BY DEF Repeat, Ev

LEMMA HeadTailConcat ==
    ASSUME NEW S, NEW s \in Seq(S), NEW t \in Seq(S), s # << >>
    PROVE  /\ s \o t # << >> /\ s \o t \in Seq(S)
           /\ Head(s \o t) = Head(s)
           /\ Tail(s \o t) = Tail(s) \o t
  <1>1. /\ s \o t \in Seq(S) /\ Len(s \o t) = Len(s) + Len(t)
        /\ Len(s) > 0 /\ Len(t) \in Nat /\ Len(s) \in Nat
        /\ \A i \in 1..(Len(s) + Len(t)) :
             (s \o t)[i] = IF i <= Len(s) THEN s[i] ELSE t[i - Len(s)]
    BY ConcatProperties, EmptySeq, LenProperties
  <1>2. s \o t # << >>
    BY <1>1
  <1>3. Head(s \o t) = Head(s)
    BY <1>1, <1>2
  <1>4. /\ Tail(s) \in Seq(S) /\ Len(Tail(s)) = Len(s) - 1
        /\ \A i \in 1..Len(Tail(s)) : Tail(s)[i] = s[i + 1]
    BY HeadTailProperties
  <1>5. /\ Tail(s \o t) \in Seq(S) /\ Len(Tail(s \o t)) = Len(s) + Len(t) - 1
        /\ \A i \in 1..Len(Tail(s \o t)) : Tail(s \o t)[i] = (s \o t)[i + 1]
    BY <1>1, <1>2, HeadTailProperties
  <1>6. /\ Tail(s) \o t \in Seq(S) /\ Len(Tail(s) \o t) = Len(s) - 1 + Len(t)
        /\ \A i \in 1..(Len(s) - 1 + Len(t)) :
             (Tail(s) \o t)[i] = IF i <= Len(s) - 1 THEN Tail(s)[i]
                                 ELSE t[i - (Len(s) - 1)]
    BY <1>1, <1>4, ConcatProperties
  <1>7. ASSUME NEW i \in 1..(Len(s) + Len(t) - 1)
        PROVE  Tail(s \o t)[i] = (Tail(s) \o t)[i]
    <2>1. i + 1 \in 1..(Len(s) + Len(t))
      BY <1>1
    <2>2. Tail(s \o t)[i] = IF i + 1 <= Len(s) THEN s[i + 1] ELSE t[i + 1 - Len(s)]
      BY <2>1, <1>1, <1>5
    <2>3. i - (Len(s) - 1) = i + 1 - Len(s)
      BY <1>1
    <2> QED
      BY <2>2, <2>3, <1>1, <1>4, <1>6
  <1>8. Tail(s \o t) = Tail(s) \o t
    BY <1>1, <1>5, <1>6, <1>7, SeqEqual
  <1> QED
    BY <1>1, <1>2, <1>3, <1>8

(* Moving the first of one sequence to the end of the one before it. *)
LEMMA MoveHead ==
    ASSUME NEW S, NEW s \in Seq(S), NEW t \in Seq(S), t # << >>
    PROVE  Append(s, Head(t)) \o Tail(t) = s \o t
  <1>1. Head(t) \in S /\ Tail(t) \in Seq(S) /\ << Head(t) >> \in Seq(S)
    BY HeadTailProperties
  <1>2. Append(s, Head(t)) = s \o << Head(t) >>
    BY <1>1
  <1>3. << Head(t) >> \o Tail(t) = t
    <2>1. /\ Len(Tail(t)) = Len(t) - 1 /\ Len(t) \in Nat /\ Len(t) > 0
          /\ \A i \in 1..Len(Tail(t)) : Tail(t)[i] = t[i + 1]
      BY HeadTailProperties, EmptySeq, LenProperties
    <2>2. /\ << Head(t) >> \o Tail(t) \in Seq(S)
          /\ Len(<< Head(t) >> \o Tail(t)) = Len(t)
          /\ \A i \in 1..Len(t) : (<< Head(t) >> \o Tail(t))[i] =
               IF i <= 1 THEN << Head(t) >>[i] ELSE Tail(t)[i - 1]
      <3>1. Len(<< Head(t) >>) = 1
        OBVIOUS
      <3>2. 1 + Len(Tail(t)) = Len(t)
        BY <2>1
      <3> QED
        BY <3>1, <3>2, <1>1, ConcatProperties
    <2>3. ASSUME NEW i \in 1..Len(t)
          PROVE  (<< Head(t) >> \o Tail(t))[i] = t[i]
      <3>1. CASE i = 1
        BY <3>1, <2>1, <2>2
      <3>2. CASE i # 1
        <4>1. i - 1 \in 1..Len(Tail(t)) /\ ~(i <= 1)
          BY <3>2, <2>1
        <4>2. Tail(t)[i - 1] = t[(i - 1) + 1]
          BY <4>1, <2>1
        <4> QED
          BY <4>1, <4>2, <2>2, <2>1
      <3> QED
        BY <3>1, <3>2
    <2> QED
      BY <2>2, <2>3, SeqEqual
  <1>4. (s \o << Head(t) >>) \o Tail(t) = s \o (<< Head(t) >> \o Tail(t))
    BY <1>1, ConcatAssociative
  <1> QED
    BY <1>2, <1>3, <1>4

(* What follows a prefix does not disturb it. *)
LEMMA PrefixOfConcat ==
    ASSUME NEW S, NEW s \in Seq(S), NEW t \in Seq(S)
    PROVE  Len(s \o t) >= Len(s) /\ SubSeq(s \o t, 1, Len(s)) = s
  <1>1. /\ s \o t \in Seq(S) /\ Len(s \o t) = Len(s) + Len(t)
        /\ Len(t) \in Nat /\ Len(s) \in Nat
        /\ \A i \in 1..(Len(s) + Len(t)) :
             (s \o t)[i] = IF i <= Len(s) THEN s[i] ELSE t[i - Len(s)]
    BY ConcatProperties, LenProperties
  <1>2. \A i \in 1..Len(s) : (s \o t)[i] = s[i] /\ s[i] \in S
    BY <1>1, ElementOfSeq
  <1>3. /\ SubSeq(s \o t, 1, Len(s)) \in Seq(S)
        /\ Len(SubSeq(s \o t, 1, Len(s))) = IF 1 <= Len(s) THEN Len(s) - 1 + 1 ELSE 0
        /\ \A i \in 1..(Len(s) - 1 + 1) : SubSeq(s \o t, 1, Len(s))[i] = (s \o t)[1 + i - 1]
    BY <1>1, <1>2, SubSeqProperties
  <1>4. Len(SubSeq(s \o t, 1, Len(s))) = Len(s)
    BY <1>1, <1>3
  <1>5. \A i \in 1..Len(s) : SubSeq(s \o t, 1, Len(s))[i] = s[i]
    <2> SUFFICES ASSUME NEW i \in 1..Len(s)
                 PROVE  SubSeq(s \o t, 1, Len(s))[i] = s[i]
      OBVIOUS
    <2>1. i \in 1..(Len(s) - 1 + 1) /\ 1 + i - 1 = i
      BY <1>1
    <2> QED
      BY <2>1, <1>2, <1>3
  <1> QED
    BY <1>1, <1>3, <1>4, <1>5, SeqEqual

-----------------------------------------------------------------------------
(* The handlers of one connection. *)

H == Handlers(JobStates)

(***************************************************************************)
(* A write is outstanding exactly while the flag says so, of a message     *)
(* that is still in the queue; on a good connection none waits without     *)
(* one; and only a connection that has failed is freed.                    *)
(***************************************************************************)
Sound(h) ==
    /\ h.writes = IF h.writing THEN 1 ELSE 0
    /\ h.writing => h.pending # << >>
    /\ h.phase = "open" /\ ~h.cut => (h.pending # << >> => h.writing)
    /\ h.phase = "accepting" => /\ h.posted = << >> /\ h.pending = << >>
                                /\ ~h.writing
    /\ h.phase \in {"freed", "crashed"} => h.cut

LEMMA HandlerFields ==
    ASSUME NEW h \in H
    PROVE  /\ h.phase \in Phases /\ h.posted \in Ev /\ h.pending \in Ev
           /\ h.writing \in BOOLEAN /\ h.writes \in Nat /\ h.cut \in BOOLEAN
           /\ Transit(h) \in Ev
  BY ConcatProperties DEF H, Handlers, Ev, Transit

(* A handler is its fields. *)
LEMMA HandlerShape ==
    ASSUME NEW h \in H
    PROVE  h = [phase |-> h.phase, posted |-> h.posted, pending |-> h.pending,
                writing |-> h.writing, writes |-> h.writes, cut |-> h.cut]
  BY DEF H, Handlers

(* A handler from its fields. *)
LEMMA HandlerOf ==
    ASSUME NEW ph \in Phases, NEW po \in Ev, NEW pe \in Ev, NEW wr \in BOOLEAN,
           NEW n \in Nat, NEW cu \in BOOLEAN
    PROVE  [phase |-> ph, posted |-> po, pending |-> pe, writing |-> wr,
            writes |-> n, cut |-> cu] \in H
  BY DEF H, Handlers, Ev

LEMMA NewHandlerSound == NewHandler \in H /\ Sound(NewHandler)
  <1>1. << >> \in Ev
    BY EmptySeq DEF Ev
  <1>2. NewHandler \in H
    BY <1>1, HandlerOf DEF NewHandler, Phases
  <1> QED
    BY <1>2 DEF NewHandler, Sound

LEMMA SendEventsEffect ==
    ASSUME NEW h \in H, Sound(h), NEW ev \in Ev, h.phase = "accepting" => ev = << >>
    PROVE  /\ SendEvents(h, ev) \in H /\ Sound(SendEvents(h, ev))
           /\ SendEvents(h, ev).phase = h.phase /\ SendEvents(h, ev).cut = h.cut
           /\ Transit(SendEvents(h, ev)) = Transit(h) \o ev
  <1> DEFINE po == h.posted \o ev
             g == [h EXCEPT !.posted = po]
  <1>1. po \in Ev
    BY HandlerFields, ConcatProperties DEF Ev
  <1>0. SendEvents(h, ev) = g
    BY DEF SendEvents
  <1> HIDE DEF po
  <1>2. g = [phase |-> h.phase, posted |-> po, pending |-> h.pending,
             writing |-> h.writing, writes |-> h.writes, cut |-> h.cut]
    <2>1. h = [phase |-> h.phase, posted |-> h.posted, pending |-> h.pending,
               writing |-> h.writing, writes |-> h.writes, cut |-> h.cut]
      BY HandlerShape
    <2> QED
      BY <2>1
  <1> HIDE DEF g
  <1>3. g \in H
    BY <1>1, <1>2, HandlerFields, HandlerOf
  <1>4. h.phase = "accepting" => po = << >>
    BY EmptySeq, ConcatEmptySeq DEF Sound, Ev, po
  <1>5. Sound(g)
    BY <1>2, <1>4 DEF Sound
  <1>6. Transit(g) = Transit(h) \o ev
    <2>1. h.pending \o po = (h.pending \o h.posted) \o ev
      <3> DEFINE p == h.pending
                 q == h.posted
      <3>1. p \in Seq(JobStates) /\ q \in Seq(JobStates) /\ ev \in Seq(JobStates)
        BY HandlerFields DEF Ev
      <3> HIDE DEF p, q
      <3>2. p \o (q \o ev) = (p \o q) \o ev
        BY <3>1, ConcatAssociative
      <3> QED
        BY <3>2 DEF po, p, q
    <2> QED
      BY <2>1, <1>2 DEF Transit
  <1> QED
    BY <1>0, <1>2, <1>3, <1>5, <1>6

(* doWrite: of a handler that is sound but for a queue that just grew or shrank. *)
LEMMA DoWriteEffect ==
    ASSUME NEW h \in H, h.phase = "open", h.writes = IF h.writing THEN 1 ELSE 0,
           h.writing => h.pending # << >>
    PROVE  /\ DoWrite(h) \in H /\ Sound(DoWrite(h))
           /\ DoWrite(h).phase = "open" /\ DoWrite(h).cut = h.cut
           /\ DoWrite(h).pending = h.pending /\ DoWrite(h).posted = h.posted
           /\ Transit(DoWrite(h)) = Transit(h)
  <1>1. CASE h.writing \/ h.pending = << >>
    <2>1. DoWrite(h) = h
      BY <1>1 DEF DoWrite
    <2> QED
      BY <2>1, <1>1 DEF Sound, Phases
  <1>2. CASE ~h.writing /\ h.pending # << >>
    <2> DEFINE g == DoWrite(h)
    <2>1. g = [phase |-> h.phase, posted |-> h.posted, pending |-> h.pending,
               writing |-> TRUE, writes |-> h.writes + 1, cut |-> h.cut]
      BY <1>2 DEF DoWrite, StartWrite, H, Handlers
    <2>2. h.writes + 1 \in Nat
      BY HandlerFields
    <2> HIDE DEF g
    <2>6. g \in H
      BY <2>1, <2>2, HandlerFields, HandlerOf
    <2>3. h.writes = 0
      BY <1>2
    <2>4. Sound(g)
      BY <2>1, <2>3, <1>2 DEF Sound
    <2>5. Transit(g) = Transit(h)
      BY <2>1 DEF Transit
    <2> QED
      BY <2>1, <2>6, <2>4, <2>5 DEF g
  <1>3. h.writing \in BOOLEAN
    BY HandlerFields
  <1> QED
    BY <1>1, <1>2, <1>3

LEMMA AcceptedEffect ==
    ASSUME NEW h \in H, Sound(h), h.phase = "accepting"
    PROVE  /\ Accepted(h) \in H /\ Sound(Accepted(h))
           /\ Accepted(h).phase \in {"open", "freed"} /\ Accepted(h).cut = h.cut
           /\ Transit(Accepted(h)) = Transit(h)
  <1>1. CASE h.cut
    <2> DEFINE g == [h EXCEPT !.phase = "freed"]
    <2>1. g = [phase |-> "freed", posted |-> h.posted, pending |-> h.pending,
               writing |-> h.writing, writes |-> h.writes, cut |-> h.cut]
      BY DEF H, Handlers
    <2> HIDE DEF g
    <2>2. g \in H
      BY <2>1, HandlerFields, HandlerOf DEF Phases
    <2>3. Accepted(h) = g
      BY <1>1 DEF Accepted, g
    <2>4. Sound(g) /\ Transit(g) = Transit(h)
      BY <2>1, <1>1 DEF Sound, Transit
    <2> QED
      BY <2>1, <2>2, <2>3, <2>4
  <1>2. CASE ~h.cut
    <2> DEFINE g == [h EXCEPT !.phase = "open"]
    <2>1. g = [phase |-> "open", posted |-> h.posted, pending |-> h.pending,
               writing |-> h.writing, writes |-> h.writes, cut |-> h.cut]
      BY DEF H, Handlers
    <2> HIDE DEF g
    <2>2. g \in H
      BY <2>1, HandlerFields, HandlerOf DEF Phases
    <2>3. Accepted(h) = DoWrite(g)
      BY <1>2 DEF Accepted, g
    <2>4. g.writes = (IF g.writing THEN 1 ELSE 0) /\ (g.writing => g.pending # << >>)
      BY <2>1 DEF Sound
    <2>5. Transit(g) = Transit(h)
      BY <2>1 DEF Transit
    <2> QED
      BY <2>1, <2>2, <2>3, <2>4, <2>5, DoWriteEffect
  <1>3. h.cut \in BOOLEAN
    BY HandlerFields
  <1> QED
    BY <1>1, <1>2, <1>3

(* The handler of a post, or of a write, of an object that was freed. *)
LEMMA CrashEffect ==
    ASSUME NEW h \in H, Sound(h), h.phase = "freed"
    PROVE  /\ [h EXCEPT !.phase = "crashed"] \in H
           /\ Sound([h EXCEPT !.phase = "crashed"])
           /\ [h EXCEPT !.phase = "crashed"].phase = "crashed"
           /\ [h EXCEPT !.phase = "crashed"].cut = h.cut
  <1> DEFINE g == [h EXCEPT !.phase = "crashed"]
  <1>1. g = [phase |-> "crashed", posted |-> h.posted, pending |-> h.pending,
             writing |-> h.writing, writes |-> h.writes, cut |-> h.cut]
    <2>1. h = [phase |-> h.phase, posted |-> h.posted, pending |-> h.pending,
               writing |-> h.writing, writes |-> h.writes, cut |-> h.cut]
      BY HandlerShape
    <2> QED
      BY <2>1
  <1> HIDE DEF g
  <1>2. g \in H
    BY <1>1, HandlerFields, HandlerOf DEF Phases
  <1>3. Sound(g)
    BY <1>1 DEF Sound
  <1> QED
    BY <1>1, <1>2, <1>3 DEF g

LEMMA ReadFailsEffect ==
    ASSUME NEW h \in H, Sound(h), h.cut
    PROVE  ReadFails(h) \in H /\ Sound(ReadFails(h))
  <1> DEFINE g == ReadFails(h)
  <1>1. /\ g.phase = "freed" /\ g.posted = h.posted /\ g.pending = h.pending
        /\ g.writing = h.writing /\ g.writes = h.writes /\ g.cut = h.cut
        /\ g \in H
    BY DEF ReadFails, H, Handlers, Phases
  <1> HIDE DEF g
  <1>2. Sound(g)
    BY <1>1 DEF Sound
  <1> QED
    BY <1>1, <1>2 DEF g

LEMMA CutEffect ==
    ASSUME NEW h \in H, Sound(h)
    PROVE  /\ [h EXCEPT !.cut = TRUE] \in H /\ Sound([h EXCEPT !.cut = TRUE])
           /\ [h EXCEPT !.cut = TRUE].phase = h.phase
           /\ [h EXCEPT !.cut = TRUE].cut
  <1> DEFINE g == [h EXCEPT !.cut = TRUE]
  <1>1. /\ g.phase = h.phase /\ g.posted = h.posted /\ g.pending = h.pending
        /\ g.writing = h.writing /\ g.writes = h.writes /\ g.cut = TRUE
        /\ g \in H
    BY DEF H, Handlers
  <1> HIDE DEF g
  <1>2. Sound(g)
    BY <1>1 DEF Sound
  <1> QED
    BY <1>1, <1>2 DEF g

LEMMA RunPostedEffect ==
    ASSUME NEW h \in H, Sound(h), h.phase = "open", h.posted # << >>
    PROVE  /\ RunPosted(h) \in H /\ Sound(RunPosted(h))
           /\ RunPosted(h).phase = "open" /\ RunPosted(h).cut = h.cut
           /\ Transit(RunPosted(h)) = Transit(h)
  <1> DEFINE pe == Append(h.pending, Head(h.posted))
             po == Tail(h.posted)
             g == [h EXCEPT !.posted = po, !.pending = pe]
  <1>1. /\ Head(h.posted) \in JobStates /\ Tail(h.posted) \in Ev
        /\ h.pending \in Ev /\ h.posted \in Ev
    BY HandlerFields, HeadTailProperties DEF Ev
  <1>2. pe \in Ev /\ pe # << >>
    BY <1>1 DEF Ev
  <1>5. RunPosted(h) = DoWrite(g)
    <2>1. [h EXCEPT !.posted = Tail(@), !.pending = Append(@, Head(h.posted))] = g
      BY DEF H, Handlers
    <2> QED
      BY <2>1 DEF RunPosted
  <1>8. po \in Ev
    BY <1>1
  <1>9. Transit(h) = pe \o po
    BY <1>1, MoveHead DEF Ev, Transit
  <1> HIDE DEF pe, po
  <1>3. g = [phase |-> h.phase, posted |-> po, pending |-> pe,
             writing |-> h.writing, writes |-> h.writes, cut |-> h.cut]
    <2> DEFINE k == [h EXCEPT !.posted = po]
    <2>1. k = [phase |-> h.phase, posted |-> po, pending |-> h.pending,
               writing |-> h.writing, writes |-> h.writes, cut |-> h.cut]
      BY DEF H, Handlers
    <2>2. g = [k EXCEPT !.pending = pe]
      BY DEF H, Handlers
    <2> HIDE DEF k
    <2> QED
      BY <2>1, <2>2
  <1> HIDE DEF g
  <1>4. g \in H
    BY <1>2, <1>3, <1>8, HandlerFields, HandlerOf
  <1>6. Transit(g) = Transit(h)
    BY <1>3, <1>9 DEF Transit
  <1>7. /\ g.phase = "open" /\ g.cut = h.cut
        /\ g.writes = (IF g.writing THEN 1 ELSE 0)
        /\ g.pending # << >>
    BY <1>2, <1>3 DEF Sound
  <1> QED
    BY <1>4, <1>5, <1>6, <1>7, DoWriteEffect

LEMMA WriteDoneEffect ==
    ASSUME NEW h \in H, Sound(h), h.writes > 0, h.phase = "open"
    PROVE  /\ h.pending # << >>
           /\ WriteDone(h) \in H /\ Sound(WriteDone(h))
           /\ WriteDone(h).phase = "open" /\ WriteDone(h).cut = h.cut
           /\ Transit(h) # << >> /\ Head(Transit(h)) = Head(h.pending)
           /\ Transit(WriteDone(h)) = Tail(Transit(h))
  <1> DEFINE pe == Tail(h.pending)
             g == [h EXCEPT !.pending = pe, !.writing = FALSE, !.writes = 0]
  <1>1. h.writing /\ h.pending # << >> /\ h.writes = 1
    BY HandlerFields DEF Sound
  <1>2. h.pending \in Ev /\ h.posted \in Ev /\ Tail(h.pending) \in Ev
    BY <1>1, HandlerFields, HeadTailProperties DEF Ev
  <1>4. h.writes - 1 = 0
    BY <1>1
  <1>6. /\ Transit(h) # << >> /\ Head(Transit(h)) = Head(h.pending)
        /\ Tail(Transit(h)) = pe \o h.posted
    <2> DEFINE p == h.pending
               q == h.posted
    <2>1. p \in Seq(JobStates) /\ q \in Seq(JobStates) /\ p # << >>
      BY <1>1, <1>2 DEF Ev
    <2> HIDE DEF p, q
    <2>2. p \o q # << >> /\ Head(p \o q) = Head(p) /\ Tail(p \o q) = Tail(p) \o q
      BY <2>1, HeadTailConcat
    <2> QED
      BY <2>2 DEF Transit, p, q
  <1>7. WriteDone(h) = IF h.cut THEN g ELSE DoWrite(g)
    <2>1. [h EXCEPT !.pending = Tail(@), !.writing = FALSE, !.writes = @ - 1] = g
      BY <1>4 DEF H, Handlers
    <2> QED
      BY <2>1 DEF WriteDone
  <1> HIDE DEF pe
  <1>3. /\ g.phase = h.phase /\ g.posted = h.posted /\ g.pending = pe
        /\ g.writing = FALSE /\ g.writes = 0 /\ g.cut = h.cut
    BY DEF H, Handlers
  <1>5. g \in H
    <2>1. pe \in Seq(JobStates)
      BY <1>2 DEF pe, Ev
    <2> QED
      BY <2>1 DEF H, Handlers
  <1> HIDE DEF g
  <1>8. /\ g.phase = "open" /\ g.cut = h.cut /\ g.writes = 0 /\ ~g.writing
        /\ Transit(g) = Tail(Transit(h))
    BY <1>3, <1>6 DEF Transit
  <1>9. CASE h.cut
    BY <1>1, <1>5, <1>6, <1>7, <1>8, <1>9 DEF Sound
  <1>10. CASE ~h.cut
    BY <1>1, <1>5, <1>6, <1>7, <1>8, <1>10, DoWriteEffect
  <1> QED
    BY <1>9, <1>10
-----------------------------------------------------------------------------
(* What is raised, and the inductive invariant. *)

LEMMA LastOfConcat ==
    ASSUME NEW s \in Ev, NEW n \in Nat, NEW x \in JobStates, n > 0
    PROVE  LET t == s \o Repeat(n, x) IN t \in Ev /\ t[Len(t)] = x
  <1> DEFINE r == Repeat(n, x)
  <1>1. r \in Ev /\ Len(r) = n /\ \A i \in 1..n : r[i] = x
    BY RepeatProperties
  <1> HIDE DEF r
  <1>2. /\ s \o r \in Seq(JobStates) /\ Len(s \o r) = Len(s) + n /\ Len(s) \in Nat
        /\ \A i \in 1..(Len(s) + n) :
             (s \o r)[i] = IF i <= Len(s) THEN s[i] ELSE r[i - Len(s)]
    BY <1>1, ConcatProperties, LenProperties DEF Ev
  <1>3. /\ Len(s) + n \in 1..(Len(s) + n) /\ ~(Len(s) + n <= Len(s))
        /\ (Len(s) + n) - Len(s) = n /\ n \in 1..n
    BY <1>2
  <1>4. (s \o r)[Len(s) + n] = x
    BY <1>1, <1>2, <1>3
  <1> QED
    BY <1>2, <1>4 DEF Ev, r

LEMMA EventsAssociate ==
    ASSUME NEW x \in Ev, NEW y \in Ev, NEW z \in Ev
    PROVE  x \o (y \o z) = (x \o y) \o z
  BY ConcatAssociative DEF Ev

(* The events of a change of state end with the last of its states. *)
ChangeOf(n, first, last) ==
    Repeat(n, first) \o Repeat(IF last = first THEN 0 ELSE n, last)

LEMMA ChangeEvents ==
    ASSUME NEW n \in Nat, NEW first \in JobStates, NEW last \in JobStates
    PROVE  /\ ChangeOf(n, first, last) \in Ev
           /\ n = 0 => ChangeOf(n, first, last) = << >>
           /\ n > 0 => \A s \in Ev :
                (s \o ChangeOf(n, first, last))[Len(s \o ChangeOf(n, first, last))] = last
  <1> DEFINE m == IF last = first THEN 0 ELSE n
             a == Repeat(n, first)
             b == Repeat(m, last)
  <1> SUFFICES ASSUME NEW s \in Ev
               PROVE  /\ a \o b \in Ev
                      /\ n = 0 => a \o b = << >>
                      /\ n > 0 => (s \o (a \o b))[Len(s \o (a \o b))] = last
    <2>1. << >> \in Ev
      BY EmptySeq DEF Ev
    <2> QED
      BY <2>1, Zenon DEF ChangeOf
  <1>0. m \in Nat /\ (m = 0 \/ m = n) /\ (m = 0 => n = 0 \/ last = first)
    OBVIOUS
  <1>8. m > 0 => (s \o a \in Ev => ((s \o a) \o b)[Len((s \o a) \o b)] = last)
    <2> HIDE DEF m, a
    <2> QED
      BY <1>0, LastOfConcat
  <1>9. n > 0 => (s \o a)[Len(s \o a)] = first
    BY LastOfConcat
  <1>10. a \in Ev /\ Len(a) = n
    BY RepeatProperties
  <1>11. b \in Ev /\ Len(b) = m
    <2> HIDE DEF m
    <2> QED
      BY <1>0, RepeatProperties
  <1> HIDE DEF a, b, m
  <1>1. a \in Ev /\ b \in Ev /\ Len(a) = n /\ Len(b) = m
    BY <1>10, <1>11
  <1>2. (m = 0 => b = << >>) /\ (n = 0 => a = << >>)
    BY <1>1, EmptySeq DEF Ev
  <1>3. a \o b \in Ev /\ s \o a \in Ev
    BY <1>1, ConcatProperties DEF Ev
  <1>4. s \o (a \o b) = (s \o a) \o b
    BY <1>1, EventsAssociate
  <1>5. CASE m > 0
    <2>1. ((s \o a) \o b)[Len((s \o a) \o b)] = last
      BY <1>3, <1>5, <1>8
    <2>2. n # 0
      BY <1>0, <1>5
    <2> QED
      BY <1>3, <1>4, <2>1, <2>2
  <1>6. CASE m = 0
    <2>1. a \o b = a
      BY <1>1, <1>2, <1>6, ConcatEmptySeq DEF Ev
    <2>2. n > 0 => last = first
      BY <1>0, <1>6
    <2> QED
      BY <1>1, <1>2, <1>9, <2>1, <2>2
  <1>7. m > 0 \/ m = 0
    BY <1>0
  <1> QED
    BY <1>5, <1>6, <1>7, Zenon

(***************************************************************************)
(* The slots of a client go when its connection does, and a slot's event   *)
(* is the last that was raised: both rest on every connection being sound. *)
(***************************************************************************)
IInv ==
    /\ TypeOK
    /\ OncePerSubscription
    /\ LastEventIsCurrent
    /\ \A c \in Clients : /\ Sound(handler[c])
                          /\ handler[c].phase # "open" => subs[c] = 0

LEMMA RaisedIs ==
    ASSUME TypeOK, NEW c \in Clients
    PROVE  /\ handler[c] \in H /\ received[c] \in Ev /\ Transit(handler[c]) \in Ev
           /\ Raised(c) = received[c] \o Transit(handler[c])
           /\ Raised(c) \in Ev
  <1> DEFINE r == received[c]
             p == handler[c].pending
             q == handler[c].posted
  <1>1. handler[c] \in H /\ r \in Ev
    BY DEF TypeOK, H, Ev
  <1>2. p \in Ev /\ q \in Ev /\ Transit(handler[c]) \in Ev
    BY <1>1, HandlerFields
  <1> HIDE DEF r, p, q
  <1>3. (r \o p) \o q = r \o (p \o q) /\ r \o (p \o q) \in Ev
    BY <1>1, <1>2, ConcatAssociative, ConcatProperties DEF Ev
  <1> QED
    BY <1>1, <1>2, <1>3 DEF Raised, Transit, r, p, q

(* The same after a step. *)
LEMMA RaisedNext ==
    ASSUME NEW c \in Clients, handler'[c] \in H, received'[c] \in Ev
    PROVE  Raised(c)' = received'[c] \o Transit(handler'[c])
  <1> DEFINE r == received'[c]
             p == handler'[c].pending
             q == handler'[c].posted
  <1>1. r \in Ev /\ p \in Ev /\ q \in Ev
    BY HandlerFields
  <1> HIDE DEF r, p, q
  <1>2. (r \o p) \o q = r \o (p \o q)
    BY <1>1, ConcatAssociative DEF Ev
  <1> QED
    BY <1>2 DEF Raised, Transit, r, p, q

LEMMA InitHolds == Init => IInv
  <1> SUFFICES ASSUME Init PROVE IInv
    OBVIOUS
  <1>1. TypeOK
    BY NewHandlerSound, EmptySeq DEF Init, TypeOK, JobStates, None, H
  <1>2. \A c \in Clients : Sound(handler[c]) /\ subs[c] = 0
    BY NewHandlerSound DEF Init
  <1> QED
    BY <1>1, <1>2 DEF Init, IInv, OncePerSubscription, LastEventIsCurrent

(* A step of one connection that leaves the other clients alone. *)
LEMMA OneConnection ==
    ASSUME IInv, Alive, NEW c \in Clients, NEW h \in H, SetHandler(c, h),
           Sound(h), h.phase # "open" => subs'[c] = 0,
           TypeOK', job' = job,
           slots'[c] = IF job = None THEN 0 ELSE subs'[c],
           \A d \in Clients \ {c} :
             /\ subs'[d] = subs[d] /\ slots'[d] = slots[d]
             /\ since'[d] = since[d] /\ received'[d] = received[d],
           ~h.cut /\ subs'[c] > 0 /\ Len(Raised(c)') > since'[c]
             => Raised(c)'[Len(Raised(c)')] = job
    PROVE  IInv'
  <1>1. /\ handler'[c] = h
        /\ \A d \in Clients \ {c} : handler'[d] = handler[d]
    BY DEF SetHandler, IInv, TypeOK
  <1>2. \A d \in Clients : /\ Sound(handler'[d])
                           /\ handler'[d].phase # "open" => subs'[d] = 0
    BY <1>1 DEF IInv
  <1>3. OncePerSubscription'
    BY DEF IInv, OncePerSubscription
  <1>4. LastEventIsCurrent'
    <2> SUFFICES ASSUME NEW d \in Clients, Up(d)', subs'[d] > 0,
                        Len(Raised(d)') > since'[d]
                 PROVE  Raised(d)'[Len(Raised(d)')] = job'
      BY DEF LastEventIsCurrent
    <2>1. CASE d = c
      BY <2>1, <1>1 DEF Up
    <2>2. CASE d # c
      <3>1. Raised(d)' = Raised(d) /\ Up(d)
        BY <2>2, <1>1 DEF Raised, Up
      <3> QED
        BY <2>2, <3>1 DEF IInv, LastEventIsCurrent
    <2> QED
      BY <2>1, <2>2
  <1> QED
    BY <1>2, <1>3, <1>4 DEF IInv

(* The type of what a step of a connection leaves. *)
LEMMA OneConnectionType ==
    ASSUME TypeOK, NEW c \in Clients, NEW h \in H, SetHandler(c, h)
    PROVE  handler' \in [Clients -> H]
  BY DEF TypeOK, SetHandler, H

(* Every event of the job goes to the client's slots. *)
LEMMA EveryConnection ==
    ASSUME IInv, NEW e \in [Clients -> Ev],
           \A c \in Clients : subs[c] = 0 => e[c] = << >>,
           handler' = [c \in Clients |-> SendEvents(handler[c], e[c])]
    PROVE  /\ handler' \in [Clients -> H]
           /\ \A c \in Clients :
                /\ handler'[c] = SendEvents(handler[c], e[c])
                /\ Sound(handler'[c])
                /\ handler'[c].phase = handler[c].phase
                /\ handler'[c].cut = handler[c].cut
                /\ Transit(handler'[c]) = Transit(handler[c]) \o e[c]
                /\ Transit(handler[c]) \in Ev
  <1> SUFFICES ASSUME NEW c \in Clients
               PROVE  /\ SendEvents(handler[c], e[c]) \in H
                      /\ Sound(SendEvents(handler[c], e[c]))
                      /\ SendEvents(handler[c], e[c]).phase = handler[c].phase
                      /\ SendEvents(handler[c], e[c]).cut = handler[c].cut
                      /\ Transit(SendEvents(handler[c], e[c])) = Transit(handler[c]) \o e[c]
                      /\ Transit(handler[c]) \in Ev
    OBVIOUS
  <1>1. handler[c] \in H /\ Sound(handler[c]) /\ e[c] \in Ev
    BY DEF IInv, TypeOK, H
  <1>2. handler[c].phase = "accepting" => e[c] = << >>
    BY DEF IInv
  <1> QED
    BY <1>1, <1>2, SendEventsEffect, HandlerFields

LEMMA EveryConnectionKeeps ==
    ASSUME IInv, NEW e \in [Clients -> Ev],
           \A c \in Clients : subs[c] = 0 => e[c] = << >>,
           handler' = [c \in Clients |-> SendEvents(handler[c], e[c])],
           \A c \in Clients : subs[c] > 0 =>
             \A s \in Ev : (s \o e[c])[Len(s \o e[c])] = job',
           job' \in JobStates, slots' = subs, changes' \in Nat,
           UNCHANGED << subs, received, since, requests >>
    PROVE  IInv'
  <1>1. /\ handler' \in [Clients -> H]
        /\ \A c \in Clients :
             /\ Sound(handler'[c])
             /\ handler'[c].phase = handler[c].phase
             /\ Transit(handler'[c]) = Transit(handler[c]) \o e[c]
             /\ Transit(handler[c]) \in Ev
    BY EveryConnection
  <1>2. TypeOK'
    BY <1>1 DEF IInv, TypeOK, H
  <1>3. OncePerSubscription'
    BY DEF OncePerSubscription, None, JobStates
  <1>4. LastEventIsCurrent'
    <2> SUFFICES ASSUME NEW c \in Clients, subs[c] > 0
                 PROVE  Raised(c)'[Len(Raised(c)')] = job'
      BY DEF LastEventIsCurrent
    <2> DEFINE r == received[c]
               t == Transit(handler[c])
    <2>1. r \in Ev /\ t \in Ev /\ e[c] \in Ev
      BY RaisedIs DEF IInv
    <2>2. Raised(c)' = received'[c] \o Transit(handler'[c])
      BY <1>1, <2>1, RaisedNext
    <2>3. Raised(c)' = r \o (t \o e[c])
      BY <1>1, <2>2
    <2> HIDE DEF r, t
    <2>4. r \o (t \o e[c]) = (r \o t) \o e[c] /\ r \o t \in Ev
      BY <2>1, ConcatAssociative, ConcatProperties DEF Ev
    <2> QED
      BY <2>3, <2>4
  <1>5. \A c \in Clients : /\ Sound(handler'[c])
                           /\ handler'[c].phase # "open" => subs'[c] = 0
    BY <1>1 DEF IInv
  <1> QED
    BY <1>2, <1>3, <1>4, <1>5 DEF IInv

LEMMA SetStatesKeeps ==
    ASSUME IInv, NEW first \in JobStates, NEW last \in JobStates, job # None,
           SetStates(first, last)
    PROVE  IInv'
  <1> DEFINE e == [c \in Clients |-> Repeat(slots[c], first)
                         \o Repeat(IF last = first THEN 0 ELSE slots[c], last)]
  <1>1. \A c \in Clients : slots[c] \in Nat /\ slots[c] = subs[c]
    BY DEF IInv, TypeOK, OncePerSubscription
  <1>2. ASSUME NEW c \in Clients
        PROVE  /\ e[c] \in Ev
               /\ subs[c] = 0 => e[c] = << >>
               /\ subs[c] > 0 =>
                    \A s \in Ev : (s \o e[c])[Len(s \o e[c])] = last
    <2>1. e[c] = ChangeOf(slots[c], first, last)
      BY DEF ChangeOf
    <2> HIDE DEF e
    <2>2. ASSUME NEW n \in Nat, NEW d, d = ChangeOf(n, first, last)
          PROVE  /\ d \in Ev
                 /\ n = 0 => d = << >>
                 /\ n > 0 => \A s \in Ev : (s \o d)[Len(s \o d)] = last
      BY <2>2, ChangeEvents
    <2> QED
      BY <1>1, <2>1, <2>2, Zenon
  <1>3. e \in [Clients -> Ev]
    BY <1>2
  <1>4. handler' = [c \in Clients |-> SendEvents(handler[c], e[c])]
    BY DEF SetStates
  <1>5. job' = last /\ slots' = subs /\ changes' \in Nat
        /\ UNCHANGED << subs, received, since, requests >>
    BY <1>1 DEF SetStates, IInv, TypeOK
  <1> HIDE DEF e
  <1> QED
    BY <1>2, <1>3, <1>4, <1>5, EveryConnectionKeeps

LEMMA NewJobKeeps ==
    ASSUME IInv, NewJob
    PROVE  IInv'
  <1> DEFINE e == [c \in Clients |-> Repeat(subs[c], "Stopped")]
  <1>1. \A c \in Clients : subs[c] \in Nat
    BY DEF IInv, TypeOK
  <1>2. ASSUME NEW c \in Clients
        PROVE  /\ e[c] \in Ev
               /\ subs[c] = 0 => e[c] = << >>
               /\ subs[c] > 0 =>
                    \A s \in Ev : (s \o e[c])[Len(s \o e[c])] = "Stopped"
    <2> DEFINE n == subs[c]
    <2>1. e[c] = Repeat(n, "Stopped") /\ n \in Nat /\ "Stopped" \in JobStates
      BY <1>1 DEF JobStates
    <2> HIDE DEF e, n
    <2>2. e[c] \in Ev /\ Len(e[c]) = n
      BY <2>1, RepeatProperties
    <2>3. n = 0 => e[c] = << >>
      BY <2>2, EmptySeq DEF Ev
    <2>4. ASSUME NEW s \in Ev, n > 0
          PROVE  (s \o e[c])[Len(s \o e[c])] = "Stopped"
      <3>1. (s \o Repeat(n, "Stopped"))[Len(s \o Repeat(n, "Stopped"))] = "Stopped"
        BY <2>1, <2>4, LastOfConcat
      <3> QED
        BY <3>1, <2>1
    <2> QED
      BY <2>2, <2>3, <2>4 DEF n
  <1>3. e \in [Clients -> Ev]
    BY <1>2
  <1>4. handler' = [c \in Clients |-> SendEvents(handler[c], e[c])]
    BY DEF NewJob
  <1>5. job' = "Stopped" /\ slots' = subs /\ changes' \in Nat
        /\ UNCHANGED << subs, received, since, requests >>
    BY DEF NewJob, IInv, TypeOK
  <1> HIDE DEF e
  <1>6. "Stopped" \in JobStates
    BY DEF JobStates
  <1> QED
    BY <1>2, <1>3, <1>4, <1>5, <1>6, EveryConnectionKeeps

-----------------------------------------------------------------------------
(* The steps of one connection. *)

LEMMA AcceptDoneKeeps ==
    ASSUME IInv, Alive, NEW c \in Clients, AcceptDone(c)
    PROVE  IInv'
  <1> DEFINE h == Accepted(handler[c])
  <1>1. handler[c] \in H /\ Sound(handler[c]) /\ handler[c].phase = "accepting"
        /\ subs[c] = 0
    BY DEF IInv, TypeOK, H, AcceptDone
  <1>2. h \in H /\ Sound(h)
    BY <1>1, AcceptedEffect
  <1>3. SetHandler(c, h)
    BY DEF AcceptDone
  <1> HIDE DEF h
  <1>4. TypeOK'
    BY <1>2, <1>3, OneConnectionType DEF IInv, TypeOK, AcceptDone, H
  <1> QED
    BY <1>1, <1>2, <1>3, <1>4, OneConnection
    DEF AcceptDone, IInv, OncePerSubscription

LEMMA SubscribeKeeps ==
    ASSUME IInv, Alive, NEW c \in Clients, Subscribe(c)
    PROVE  IInv'
  <1>1. handler' = handler /\ received' = received /\ job' = job
        /\ handler[c].phase = "open"
    BY DEF Subscribe, Reads
  <1>2. Raised(c) \in Ev /\ Len(Raised(c)) \in Nat
    BY RaisedIs, LenProperties DEF IInv, Ev
  <1>3. TypeOK'
    BY <1>1, <1>2 DEF IInv, TypeOK, Subscribe, Reads
  <1>4. OncePerSubscription'
    BY DEF IInv, TypeOK, OncePerSubscription, Subscribe, Reads
  <1>5. LastEventIsCurrent'
    <2> SUFFICES ASSUME NEW d \in Clients, Up(d)', subs'[d] > 0,
                        Len(Raised(d)') > since'[d]
                 PROVE  Raised(d)'[Len(Raised(d)')] = job'
      BY DEF LastEventIsCurrent
    <2>1. Raised(d)' = Raised(d) /\ Up(d)
      BY <1>1 DEF Raised, Up, Alive
    <2>2. CASE d = c /\ subs[c] = 0
      BY <1>2, <2>1, <2>2 DEF Subscribe, IInv, TypeOK
    <2>3. CASE ~(d = c /\ subs[c] = 0)
      <3>1. subs[d] > 0 /\ since'[d] = since[d]
        BY <2>3 DEF Subscribe, IInv, TypeOK
      <3> QED
        BY <1>1, <2>1, <3>1 DEF IInv, LastEventIsCurrent
    <2> QED
      BY <2>2, <2>3
  <1>6. \A d \in Clients : /\ Sound(handler'[d])
                           /\ handler'[d].phase # "open" => subs'[d] = 0
    BY <1>1 DEF IInv, TypeOK, Subscribe
  <1> QED
    BY <1>3, <1>4, <1>5, <1>6 DEF IInv

(* Unsubscribe and ReadError: the client has no subscription any more. *)
LEMMA UnsubscribedKeeps ==
    ASSUME IInv, Alive, NEW c \in Clients, NEW h \in H, SetHandler(c, h), Sound(h),
           subs' = [subs EXCEPT ![c] = 0], slots' = [slots EXCEPT ![c] = 0],
           UNCHANGED << job, received, since, changes >>,
           requests' \in [Clients -> Nat]
    PROVE  IInv'
  <1>1. TypeOK'
    BY OneConnectionType DEF IInv, TypeOK, H
  <1>2. subs'[c] = 0 /\ slots'[c] = 0
    BY DEF IInv, TypeOK
  <1>3. \A d \in Clients \ {c} : subs'[d] = subs[d] /\ slots'[d] = slots[d]
    BY DEF IInv, TypeOK
  <1> QED
    BY <1>1, <1>2, <1>3, OneConnection

LEMMA UnsubscribeKeeps ==
    ASSUME IInv, Alive, NEW c \in Clients, Unsubscribe(c)
    PROVE  IInv'
  <1> DEFINE h == handler[c]
  <1>1. h \in H /\ Sound(h) /\ SetHandler(c, h)
    BY DEF IInv, TypeOK, H, Unsubscribe, Reads, SetHandler
  <1>2. requests' \in [Clients -> Nat]
    BY DEF IInv, TypeOK, Unsubscribe, Reads
  <1> HIDE DEF h
  <1> QED
    BY <1>1, <1>2, UnsubscribedKeeps DEF Unsubscribe, Reads

LEMMA ReadErrorKeeps ==
    ASSUME IInv, Alive, NEW c \in Clients, ReadError(c)
    PROVE  IInv'
  <1> DEFINE h == ReadFails(handler[c])
  <1>1. handler[c] \in H /\ Sound(handler[c]) /\ handler[c].cut
    BY DEF IInv, TypeOK, H, ReadError
  <1>2. h \in H /\ Sound(h)
    BY <1>1, ReadFailsEffect
  <1>3. SetHandler(c, h)
    BY DEF ReadError
  <1> HIDE DEF h
  <1>6. requests' \in [Clients -> Nat]
    BY DEF IInv, TypeOK, ReadError
  <1> QED
    BY <1>2, <1>3, <1>6, UnsubscribedKeeps DEF ReadError

LEMMA RunSendEffect ==
    ASSUME IInv, Alive, NEW c \in Clients, RunSend(c)
    PROVE  LET h == RunPosted(handler[c])
           IN  /\ h \in H /\ Sound(h) /\ h.cut = handler[c].cut
               /\ h.phase # "open" => handler[c].phase # "open" /\ h.phase = "crashed"
                                      /\ handler[c].cut
               /\ h.phase # "crashed" => Transit(h) = Transit(handler[c])
  <1>1. handler[c] \in H /\ Sound(handler[c]) /\ handler[c].posted # << >>
        /\ handler[c].phase # "crashed"
    BY DEF IInv, TypeOK, H, RunSend, Alive
  <1>2. CASE handler[c].phase = "open"
    <2> DEFINE h == RunPosted(handler[c])
    <2>1. /\ h \in H /\ Sound(h) /\ h.cut = handler[c].cut /\ h.phase = "open"
          /\ Transit(h) = Transit(handler[c])
      BY <1>1, <1>2, RunPostedEffect
    <2> HIDE DEF h
    <2> QED
      BY <2>1 DEF h
  <1>3. CASE handler[c].phase = "freed"
    <2> DEFINE h == [handler[c] EXCEPT !.phase = "crashed"]
    <2>1. h \in H /\ Sound(h) /\ h.phase = "crashed" /\ h.cut = handler[c].cut
      BY <1>1, <1>3, CrashEffect
    <2>2. RunPosted(handler[c]) = h /\ handler[c].cut
      BY <1>1, <1>3 DEF RunPosted, Sound
    <2> HIDE DEF h
    <2> QED
      BY <1>3, <2>1, <2>2
  <1> QED
    BY <1>1, <1>2, <1>3, HandlerFields DEF Phases, Sound

LEMMA RunSendKeeps ==
    ASSUME IInv, Alive, NEW c \in Clients, RunSend(c)
    PROVE  IInv'
  <1> DEFINE h == RunPosted(handler[c])
  <1>1. /\ h \in H /\ Sound(h) /\ h.cut = handler[c].cut
        /\ h.phase # "open" => handler[c].phase # "open" /\ h.phase = "crashed"
                               /\ handler[c].cut
        /\ h.phase # "crashed" => Transit(h) = Transit(handler[c])
    BY RunSendEffect
  <1>2. SetHandler(c, h)
    BY DEF RunSend
  <1> HIDE DEF h
  <1>3. TypeOK'
    BY <1>1, <1>2, OneConnectionType DEF IInv, TypeOK, RunSend, H
  <1>4. h.phase # "open" => subs'[c] = 0
    BY <1>1 DEF IInv, RunSend
  <1>5. slots'[c] = IF job = None THEN 0 ELSE subs'[c]
    BY DEF IInv, OncePerSubscription, RunSend
  <1>6. ASSUME ~h.cut, subs'[c] > 0, Len(Raised(c)') > since'[c]
        PROVE  Raised(c)'[Len(Raised(c)')] = job
    <2>1. h.phase # "crashed" /\ Transit(h) = Transit(handler[c])
      BY <1>1, <1>6
    <2>2. handler'[c] = h /\ handler[c] \in H /\ received[c] \in Ev
          /\ received'[c] = received[c]
      BY <1>2 DEF SetHandler, IInv, TypeOK, RunSend, H, Ev
    <2>3. Raised(c)' = Raised(c)
      <3>1. Raised(c)' = received'[c] \o Transit(handler'[c])
        BY <1>1, <2>2, RaisedNext
      <3>2. Raised(c) = received[c] \o Transit(handler[c])
        BY RaisedIs DEF IInv
      <3> QED
        BY <2>1, <2>2, <3>1, <3>2
    <2>4. Up(c) /\ subs[c] > 0 /\ since'[c] = since[c]
      BY <1>1, <1>6 DEF Up, RunSend
    <2> QED
      BY <1>6, <2>3, <2>4 DEF IInv, LastEventIsCurrent
  <1>7. \A d \in Clients \ {c} :
          /\ subs'[d] = subs[d] /\ slots'[d] = slots[d]
          /\ since'[d] = since[d] /\ received'[d] = received[d]
    BY DEF RunSend
  <1>8. job' = job
    BY DEF RunSend
  <1> QED
    BY <1>1, <1>2, <1>3, <1>4, <1>5, <1>6, <1>7, <1>8, OneConnection

LEMMA WrittenEffect ==
    ASSUME IInv, Alive, NEW c \in Clients, Written(c)
    PROVE  LET h == WriteDone(handler[c])
           IN  /\ h \in H /\ Sound(h) /\ h.cut = handler[c].cut
               /\ h.phase # "open" => handler[c].phase # "open" /\ h.phase = "crashed"
                                      /\ handler[c].cut
               /\ h.phase # "crashed" =>
                    /\ Transit(handler[c]) # << >>
                    /\ Head(handler[c].pending) = Head(Transit(handler[c]))
                    /\ Transit(h) = Tail(Transit(handler[c]))
  <1>1. handler[c] \in H /\ Sound(handler[c]) /\ handler[c].writes > 0
        /\ handler[c].phase # "crashed"
    BY DEF IInv, TypeOK, H, Written, Alive
  <1>2. CASE handler[c].phase = "open"
    <2> DEFINE h == WriteDone(handler[c])
    <2>1. /\ h \in H /\ Sound(h) /\ h.cut = handler[c].cut /\ h.phase = "open"
          /\ Transit(handler[c]) # << >>
          /\ Head(Transit(handler[c])) = Head(handler[c].pending)
          /\ Transit(h) = Tail(Transit(handler[c]))
      BY <1>1, <1>2, WriteDoneEffect
    <2> HIDE DEF h
    <2> QED
      BY <2>1 DEF h
  <1>3. CASE handler[c].phase = "freed"
    <2> DEFINE h == [handler[c] EXCEPT !.phase = "crashed"]
    <2>1. h \in H /\ Sound(h) /\ h.phase = "crashed" /\ h.cut = handler[c].cut
      BY <1>1, <1>3, CrashEffect
    <2>2. WriteDone(handler[c]) = h /\ handler[c].cut
      BY <1>1, <1>3 DEF WriteDone, Sound
    <2> HIDE DEF h
    <2> QED
      BY <1>3, <2>1, <2>2
  <1> QED
    BY <1>1, <1>2, <1>3, HandlerFields DEF Phases, Sound

LEMMA WrittenKeeps ==
    ASSUME IInv, Alive, NEW c \in Clients, Written(c)
    PROVE  IInv'
  <1> DEFINE h == WriteDone(handler[c])
             t == Transit(handler[c])
             r == received[c]
  <1>1. /\ h \in H /\ Sound(h) /\ h.cut = handler[c].cut
        /\ h.phase # "open" => handler[c].phase # "open" /\ h.phase = "crashed"
                               /\ handler[c].cut
        /\ h.phase # "crashed" => /\ t # << >> /\ Head(handler[c].pending) = Head(t)
                                  /\ Transit(h) = Tail(t)
    BY WrittenEffect
  <1>2. SetHandler(c, h)
    BY DEF Written
  <1>3. t \in Ev /\ r \in Ev /\ Raised(c) = r \o t
    BY RaisedIs DEF IInv
  <1> HIDE DEF h, t
  <1>9. ~handler[c].cut => received'[c] = Append(r, Head(t)) /\ received'[c] \in Ev
    <2> SUFFICES ASSUME ~handler[c].cut
                 PROVE  received'[c] = Append(r, Head(t)) /\ received'[c] \in Ev
      OBVIOUS
    <2>1. received'[c] = Append(r, Head(t))
      BY <1>1 DEF Written, IInv, TypeOK
    <2>2. Head(t) \in JobStates
      BY <1>1, <1>3, HeadTailProperties DEF Ev
    <2> HIDE DEF r
    <2> QED
      BY <1>3, <2>1, <2>2 DEF Ev
  <1>10. received' \in [Clients -> Ev]
    <2>1. CASE handler[c].cut
      BY <2>1 DEF Written, IInv, TypeOK, Ev
    <2>2. CASE ~handler[c].cut
      <3>1. received' = [received EXCEPT ![c] = Append(@, Head(handler[c].pending))]
        BY <2>2 DEF Written
      <3>2. received'[c] = Append(received[c], Head(handler[c].pending))
        BY <3>1 DEF IInv, TypeOK
      <3>3. received' = [received EXCEPT ![c] = received'[c]]
        BY <3>1, <3>2
      <3> QED
        BY <1>9, <2>2, <3>3 DEF IInv, TypeOK, Ev
    <2> QED
      BY <2>1, <2>2
  <1>4. TypeOK'
    BY <1>1, <1>2, <1>10, OneConnectionType DEF IInv, TypeOK, Written, H, Ev
  <1>5. h.phase # "open" => subs'[c] = 0
    BY <1>1 DEF IInv, Written
  <1>6. ASSUME ~h.cut, subs'[c] > 0, Len(Raised(c)') > since'[c]
        PROVE  Raised(c)'[Len(Raised(c)')] = job
    <2>1. /\ h.phase # "crashed" /\ ~handler[c].cut
          /\ t # << >> /\ Transit(h) = Tail(t)
      BY <1>1, <1>6
    <2>2. handler'[c] = h
      BY <1>2 DEF SetHandler, IInv, TypeOK
    <2>3. Raised(c)' = r \o t
      <3>1. Raised(c)' = received'[c] \o Transit(handler'[c])
        BY <1>1, <1>9, <2>1, <2>2, RaisedNext
      <3> HIDE DEF r
      <3>2. Append(r, Head(t)) \o Tail(t) = r \o t
        BY <1>3, <2>1, MoveHead DEF Ev
      <3> QED
        BY <1>9, <2>1, <2>2, <3>1, <3>2
    <2>4. Up(c) /\ subs[c] > 0 /\ since'[c] = since[c]
      BY <1>1, <1>6 DEF Up, Written
    <2> QED
      BY <1>3, <1>6, <2>3, <2>4 DEF IInv, LastEventIsCurrent
  <1>7. \A d \in Clients \ {c} :
          /\ subs'[d] = subs[d] /\ slots'[d] = slots[d]
          /\ since'[d] = since[d] /\ received'[d] = received[d]
    BY DEF Written, IInv, TypeOK
  <1>8. job' = job /\ slots'[c] = IF job = None THEN 0 ELSE subs'[c]
    BY DEF Written, IInv, OncePerSubscription
  <1> QED
    BY <1>1, <1>2, <1>4, <1>5, <1>6, <1>7, <1>8, OneConnection

LEMMA CutKeeps ==
    ASSUME IInv, Alive, NEW c \in Clients, Cut(c)
    PROVE  IInv'
  <1> DEFINE h == [handler[c] EXCEPT !.cut = TRUE]
  <1>1. h \in H /\ Sound(h) /\ h.phase = handler[c].phase /\ h.cut
    BY CutEffect DEF IInv, TypeOK, H
  <1>2. SetHandler(c, h)
    BY DEF Cut
  <1> HIDE DEF h
  <1>3. TypeOK'
    BY <1>1, <1>2, OneConnectionType DEF IInv, TypeOK, Cut, H
  <1> QED
    BY <1>1, <1>2, <1>3, OneConnection DEF Cut, IInv, OncePerSubscription

LEMMA StepKeeps == IInv /\ [Next]_vars => IInv'
  <1> SUFFICES ASSUME IInv, [Next]_vars PROVE IInv'
    OBVIOUS
  <1>1. CASE UNCHANGED vars
    <2>1. /\ UNCHANGED << job, subs, slots, handler, received, since, requests, changes >>
      BY <1>1 DEF vars
    <2>2. TypeOK' /\ OncePerSubscription'
      BY <2>1 DEF IInv, TypeOK, OncePerSubscription
    <2>3. LastEventIsCurrent'
      BY <2>1 DEF IInv, LastEventIsCurrent, Raised, Up, Alive
    <2> QED
      BY <2>1, <2>2, <2>3 DEF IInv
  <1>2. CASE Next
    <2>1. Alive
      BY <1>2 DEF Next
    <2>2. CASE StartJob
      BY <2>2, SetStatesKeeps DEF StartJob, JobStates, None
    <2>3. CASE PauseJob
      BY <2>3, SetStatesKeeps DEF PauseJob, JobStates, None
    <2>4. CASE StopJob
      BY <2>4, SetStatesKeeps DEF StopJob, JobStates, None
    <2>5. CASE FinishJob
      BY <2>5, SetStatesKeeps DEF FinishJob, JobStates, None
    <2>6. CASE FailJob
      BY <2>6, SetStatesKeeps DEF FailJob, JobStates, None
    <2>7. CASE NewJob
      BY <2>7, NewJobKeeps
    <2>8. ASSUME NEW c \in Clients,
                 \/ AcceptDone(c) \/ Subscribe(c) \/ Unsubscribe(c)
                 \/ ReadError(c) \/ RunSend(c) \/ Written(c) \/ Cut(c)
          PROVE  IInv'
      BY <2>1, <2>8, AcceptDoneKeeps, SubscribeKeeps, UnsubscribeKeeps,
         ReadErrorKeeps, RunSendKeeps, WrittenKeeps, CutKeeps
    <2> QED
      BY <1>2, <2>2, <2>3, <2>4, <2>5, <2>6, <2>7, <2>8 DEF Next
  <1> QED
    BY <1>1, <1>2

(***************************************************************************)
(* The invariant that the others follow from, for any number of clients,   *)
(* messages and changes: among it TypeOK, OncePerSubscription and          *)
(* LastEventIsCurrent.                                                     *)
(***************************************************************************)
THEOREM EventsInductive == Spec => []IInv
  BY InitHolds, StepKeeps, PTL DEF Spec

(* Every variable keeps its type; no count of slots or of subscriptions    *)
(* goes below zero, whatever is unsubscribed or closed.                    *)
THEOREM EventsTypes == Spec => []TypeOK
  <1>1. IInv => TypeOK
    BY DEF IInv
  <1> QED
    BY <1>1, EventsInductive, PTL

(* A client's subscriptions follow the printer from job to job. *)
THEOREM SubscriptionsFollow == Spec => []OncePerSubscription
  <1>1. IInv => OncePerSubscription
    BY DEF IInv
  <1> QED
    BY <1>1, EventsInductive, PTL

(* The last event that was raised for a subscriber tells the job's state. *)
THEOREM NoOldState == Spec => []LastEventIsCurrent
  <1>1. IInv => LastEventIsCurrent
    BY DEF IInv
  <1> QED
    BY <1>1, EventsInductive, PTL

(* A connection has one write at a time, and while it is good, no message  *)
(* waits without one.                                                      *)
THEOREM WritesOneByOne == Spec => []OneWrite
  <1>1. IInv => OneWrite
    <2> SUFFICES ASSUME IInv, NEW c \in Clients
                 PROVE  /\ handler[c].writes = IF handler[c].writing THEN 1 ELSE 0
                        /\ handler[c].phase = "open" /\ ~handler[c].cut
                             => (handler[c].writing <=> handler[c].pending # << >>)
      BY DEF OneWrite
    <2>1. Sound(handler[c])
      BY DEF IInv
    <2> QED
      BY <2>1 DEF Sound
  <1> QED
    BY <1>1, EventsInductive, PTL

(* Only a connection that has failed is used after it was freed. *)
THEOREM FreedAfterFailure == Spec => []OnlyCutCrashes
  <1>1. IInv => OnlyCutCrashes
    BY DEF IInv, Sound, OnlyCutCrashes
  <1> QED
    BY <1>1, EventsInductive, PTL

-----------------------------------------------------------------------------
(* The safety of EventChannel. *)

Transits ==
    [c \in Clients |-> IF Up(c) THEN handler[c].pending \o handler[c].posted
                       ELSE << >>]
Ups == [c \in Clients |-> Up(c)]

LEMMA TransitsAre ==
    ASSUME NEW c \in Clients
    PROVE  /\ Transits[c] = IF Up(c) THEN Transit(handler[c]) ELSE << >>
           /\ Ups[c] <=> Up(c)
  BY DEF Transits, Ups, Transit

LEMMA ChannelInit == Init => Channel!Init
  <1> SUFFICES ASSUME Init PROVE Channel!Init
    OBVIOUS
  <1>1. ASSUME NEW c \in Clients
        PROVE  Up(c) /\ handler[c].pending \o handler[c].posted = << >>
    <2>1. handler[c] = NewHandler /\ Alive
      BY DEF Init, Alive, NewHandler
    <2>2. << >> \o << >> = << >>
      BY EmptySeq, ConcatEmptySeq
    <2> QED
      BY <2>1, <2>2 DEF NewHandler, Up
  <1>2. received = [c \in Clients |-> << >>]
    BY DEF Init
  <1> QED
    BY <1>1, <1>2 DEF Channel!Init

(* What a connection's step does to the connections that are up. *)
LEMMA ConnectionStep ==
    ASSUME IInv, Alive, NEW c \in Clients, NEW h, SetHandler(c, h)
    PROVE  /\ handler'[c] = h
           /\ Up(c)' <=> h.phase # "crashed" /\ ~h.cut
           /\ \A d \in Clients \ {c} :
                /\ handler'[d] = handler[d]
                /\ Up(d)' <=> h.phase # "crashed" /\ Up(d)
  <1>1. handler'[c] = h /\ \A d \in Clients \ {c} : handler'[d] = handler[d]
    BY DEF SetHandler, IInv, TypeOK
  <1>2. Alive' <=> h.phase # "crashed"
    BY <1>1 DEF Alive
  <1> QED
    BY <1>1, <1>2 DEF Up

LEMMA UpsSame ==
    ASSUME \A c \in Clients : Up(c)' <=> Up(c)
    PROVE  Ups' = Ups
  <1>1. ASSUME NEW c \in Clients
        PROVE  Up(c)' = Up(c)
    <2>1. Up(c)' \in BOOLEAN /\ Up(c) \in BOOLEAN
      BY DEF Up
    <2>2. Up(c)' <=> Up(c)
      OBVIOUS
    <2> QED
      BY <2>1, <2>2
  <1> QED
    BY <1>1, Zenon DEF Ups

LEMMA StutterMaps ==
    ASSUME received' = received,
           \A c \in Clients :
             /\ Up(c)' <=> Up(c)
             /\ Up(c) => Transit(handler'[c]) = Transit(handler[c])
    PROVE  UNCHANGED Channel!vars
  <1>1. Transits' = Transits
    BY DEF Transits, Transit
  <1>2. Ups' = Ups
    BY UpsSame
  <1> QED
    BY <1>1, <1>2 DEF Transits, Ups, Channel!vars

LEMMA BreakMaps ==
    ASSUME received' = received, NEW gone \in SUBSET Clients,
           \A c \in Clients :
             /\ Up(c)' <=> Up(c) /\ c \notin gone
             /\ Up(c)' => Transit(handler'[c]) = Transit(handler[c])
    PROVE  Channel!Break
  <1>1. Transits' = [c \in Clients |-> IF c \in gone THEN << >> ELSE Transits[c]]
    <2>1. ASSUME NEW c \in Clients
          PROVE  Transits'[c] = IF c \in gone THEN << >> ELSE Transits[c]
      <3>1. Transits'[c] = IF Up(c)' THEN Transit(handler'[c]) ELSE << >>
        BY DEF Transits, Transit
      <3> QED
        BY <3>1, TransitsAre
    <2>2. Transits' = [c \in Clients |-> Transits'[c]]
      BY DEF Transits
    <2> QED
      BY <2>1, <2>2, Zenon
  <1>2. Ups' = [c \in Clients |-> Ups[c] /\ c \notin gone]
    <2>1. ASSUME NEW c \in Clients
          PROVE  Up(c)' = (Ups[c] /\ c \notin gone)
      <3>1. Ups[c] = Up(c)
        BY DEF Ups
      <3>2. Up(c)' \in BOOLEAN /\ (Up(c) /\ c \notin gone) \in BOOLEAN
        BY DEF Up
      <3>3. Up(c)' <=> (Up(c) /\ c \notin gone)
        OBVIOUS
      <3> QED
        BY <3>1, <3>2, <3>3, Zenon
    <2> QED
      BY <2>1, Zenon DEF Ups
  <1> QED
    BY <1>1, <1>2, Zenon DEF Transits, Ups, Channel!Break

LEMMA RaiseMaps ==
    ASSUME IInv, NEW e \in [Clients -> Ev],
           \A c \in Clients : subs[c] = 0 => e[c] = << >>,
           handler' = [c \in Clients |-> SendEvents(handler[c], e[c])],
           received' = received
    PROVE  Channel!Raise
  <1>1. ASSUME NEW c \in Clients
        PROVE  /\ Up(c)' <=> Up(c)
               /\ Transit(handler'[c]) = Transit(handler[c]) \o e[c]
               /\ Transit(handler[c]) \in Ev
    BY EveryConnection DEF Up, Alive
  <1>2. ASSUME NEW c \in Clients
        PROVE  /\ Len(Transits'[c]) >= Len(Transits[c])
               /\ SubSeq(Transits'[c], 1, Len(Transits[c])) = Transits[c]
               /\ ~Ups[c] => Transits'[c] = Transits[c]
    <2>1. /\ Transits[c] = IF Up(c) THEN Transit(handler[c]) ELSE << >>
          /\ Ups[c] <=> Up(c)
          /\ Transits'[c] = IF Up(c)' THEN Transit(handler'[c]) ELSE << >>
      BY TransitsAre DEF Transits, Transit
    <2>2. CASE Up(c)
      <3> DEFINE t == Transit(handler[c])
      <3>1. Transits[c] = t /\ Transits'[c] = t \o e[c] /\ Ups[c]
        BY <1>1, <2>1, <2>2
      <3>2. t \in Seq(JobStates) /\ e[c] \in Seq(JobStates)
        BY <1>1 DEF Ev
      <3> HIDE DEF t
      <3>3. Len(t \o e[c]) >= Len(t) /\ SubSeq(t \o e[c], 1, Len(t)) = t
        BY <3>2, PrefixOfConcat
      <3> QED
        BY <3>1, <3>3
    <2>3. CASE ~Up(c)
      <3>1. Transits[c] = << >> /\ Transits'[c] = << >>
        BY <1>1, <2>1, <2>3
      <3> QED
        BY <3>1
    <2> QED
      BY <2>2, <2>3
  <1>3. DOMAIN Transits' = Clients
    BY DEF Transits
  <1>4. Ups' = Ups
    BY <1>1, UpsSame
  <1> QED
    BY <1>2, <1>3, <1>4 DEF Transits, Ups, Channel!Raise

LEMMA SetStatesMaps ==
    ASSUME IInv, NEW first \in JobStates, NEW last \in JobStates,
           job # None, SetStates(first, last)
    PROVE  Channel!Raise
  <1> DEFINE e == [c \in Clients |-> ChangeOf(slots[c], first, last)]
  <1>1. \A c \in Clients : slots[c] \in Nat /\ slots[c] = subs[c]
    BY DEF IInv, TypeOK, OncePerSubscription
  <1>2. \A c \in Clients : e[c] \in Ev /\ (subs[c] = 0 => e[c] = << >>)
    <2> SUFFICES ASSUME NEW c \in Clients
                 PROVE  /\ ChangeOf(slots[c], first, last) \in Ev
                        /\ subs[c] = 0 => ChangeOf(slots[c], first, last) = << >>
      OBVIOUS
    <2> QED
      BY <1>1, ChangeEvents
  <1>3. handler' = [c \in Clients |-> SendEvents(handler[c], e[c])]
    BY DEF SetStates, ChangeOf
  <1>4. e \in [Clients -> Ev]
    BY <1>2
  <1>5. received' = received
    BY DEF SetStates
  <1> HIDE DEF e
  <1> QED
    BY <1>2, <1>3, <1>4, <1>5, RaiseMaps

LEMMA NewJobMaps ==
    ASSUME IInv, NewJob
    PROVE  Channel!Raise
  <1> DEFINE e == [c \in Clients |-> Repeat(subs[c], "Stopped")]
  <1>1. \A c \in Clients : e[c] \in Ev /\ (subs[c] = 0 => e[c] = << >>)
    <2> SUFFICES ASSUME NEW c \in Clients, NEW n, n = subs[c]
                 PROVE  /\ Repeat(n, "Stopped") \in Ev
                        /\ n = 0 => Repeat(n, "Stopped") = << >>
      OBVIOUS
    <2>1. n \in Nat /\ "Stopped" \in JobStates
      BY DEF IInv, TypeOK, JobStates
    <2>2. Repeat(n, "Stopped") \in Ev /\ Len(Repeat(n, "Stopped")) = n
      BY <2>1, RepeatProperties
    <2> QED
      BY <2>2, EmptySeq DEF Ev
  <1>2. handler' = [c \in Clients |-> SendEvents(handler[c], e[c])]
    BY DEF NewJob
  <1>3. e \in [Clients -> Ev] /\ received' = received
    BY <1>1 DEF NewJob
  <1> HIDE DEF e
  <1> QED
    BY <1>1, <1>2, <1>3, RaiseMaps

(* A step that leaves what is on its way in every good connection. *)
LEMMA QuietStepMaps ==
    ASSUME IInv, Alive, NEW c \in Clients, NEW h, SetHandler(c, h),
           h.phase # "crashed", h.cut = handler[c].cut,
           ~h.cut => Transit(h) = Transit(handler[c]),
           received' = received
    PROVE  UNCHANGED Channel!vars
  <1>1. ASSUME NEW d \in Clients
        PROVE  /\ Up(d)' <=> Up(d)
               /\ Up(d) => Transit(handler'[d]) = Transit(handler[d])
    <2>1. CASE d = c
      BY <2>1, ConnectionStep DEF Up
    <2>2. CASE d # c
      BY <2>2, ConnectionStep
    <2> QED
      BY <2>1, <2>2
  <1> QED
    BY <1>1, StutterMaps

(* The program's end ends all connections. *)
LEMMA CrashMaps ==
    ASSUME IInv, Alive, NEW c \in Clients, NEW h, SetHandler(c, h),
           h.phase = "crashed", received' = received
    PROVE  Channel!Break
  <1>1. \A d \in Clients : ~Up(d)'
    BY ConnectionStep
  <1>2. Clients \in SUBSET Clients
    OBVIOUS
  <1> QED
    BY <1>1, <1>2, BreakMaps

LEMMA AcceptDoneMaps ==
    ASSUME IInv, Alive, NEW c \in Clients, AcceptDone(c)
    PROVE  UNCHANGED Channel!vars
  <1> DEFINE h == Accepted(handler[c])
  <1>1. /\ h.phase \in {"open", "freed"} /\ h.cut = handler[c].cut
        /\ Transit(h) = Transit(handler[c])
    BY AcceptedEffect DEF IInv, TypeOK, H, AcceptDone
  <1>2. SetHandler(c, h) /\ received' = received
    BY DEF AcceptDone
  <1> HIDE DEF h
  <1> QED
    BY <1>1, <1>2, QuietStepMaps

LEMMA ReadErrorMaps ==
    ASSUME IInv, Alive, NEW c \in Clients, ReadError(c)
    PROVE  UNCHANGED Channel!vars
  <1> DEFINE h == ReadFails(handler[c])
  <1>1. handler[c] \in H /\ handler[c].cut
    BY DEF IInv, TypeOK, H, ReadError
  <1>2. h.phase = "freed" /\ h.cut = handler[c].cut
    BY <1>1 DEF ReadFails, H, Handlers
  <1>3. SetHandler(c, h) /\ received' = received
    BY DEF ReadError
  <1> HIDE DEF h
  <1> QED
    BY <1>1, <1>2, <1>3, QuietStepMaps

(* A message that is read changes nothing of what is on its way. *)
LEMMA ReadsMaps ==
    ASSUME NEW c \in Clients, Reads(c)
    PROVE  UNCHANGED Channel!vars
  <1>1. handler' = handler /\ received' = received
    BY DEF Reads
  <1>2. \A d \in Clients : Up(d)' <=> Up(d)
    BY <1>1 DEF Up, Alive
  <1> QED
    BY <1>1, <1>2, StutterMaps

LEMMA RunSendMaps ==
    ASSUME IInv, Alive, NEW c \in Clients, RunSend(c)
    PROVE  UNCHANGED Channel!vars \/ Channel!Break
  <1> DEFINE h == RunPosted(handler[c])
  <1>1. /\ h.cut = handler[c].cut
        /\ h.phase # "crashed" => Transit(h) = Transit(handler[c])
    BY RunSendEffect
  <1>2. SetHandler(c, h) /\ received' = received
    BY DEF RunSend
  <1> HIDE DEF h
  <1>3. CASE h.phase = "crashed"
    BY <1>2, <1>3, CrashMaps
  <1>4. CASE h.phase # "crashed"
    BY <1>1, <1>2, <1>4, QuietStepMaps
  <1> QED
    BY <1>3, <1>4

LEMMA WrittenMaps ==
    ASSUME IInv, Alive, NEW c \in Clients, Written(c)
    PROVE  UNCHANGED Channel!vars \/ Channel!Break \/ Channel!Deliver(c)
  <1> DEFINE h == WriteDone(handler[c])
             t == Transit(handler[c])
  <1>1. /\ h \in H /\ h.cut = handler[c].cut
        /\ h.phase = "crashed" => handler[c].cut
        /\ h.phase # "crashed" =>
             /\ t # << >> /\ Head(handler[c].pending) = Head(t)
             /\ Transit(h) = Tail(t)
    <2>1. "crashed" # "open"
      OBVIOUS
    <2> HIDE DEF h, t
    <2> QED
      BY <2>1, WrittenEffect DEF h, t
  <1>2. SetHandler(c, h)
    BY DEF Written
  <1> HIDE DEF h, t
  <1>3. CASE handler[c].cut
    <2>1. received' = received
      BY <1>3 DEF Written
    <2>2. CASE h.phase = "crashed"
      BY <1>2, <2>1, <2>2, CrashMaps
    <2>3. CASE h.phase # "crashed"
      BY <1>1, <1>2, <1>3, <2>1, <2>3, QuietStepMaps
    <2> QED
      BY <2>2, <2>3
  <1>4. CASE ~handler[c].cut
    <2>1. /\ h.phase # "crashed" /\ ~h.cut /\ t # << >> /\ Transit(h) = Tail(t)
          /\ received' = [received EXCEPT ![c] = Append(@, Head(t))]
      BY <1>1, <1>4 DEF Written
    <2>2. Up(c) /\ \A d \in Clients : Up(d)' <=> Up(d)
      BY <1>2, <1>4, <2>1, ConnectionStep DEF Up
    <2>3. Transits[c] = t /\ Ups[c] /\ Ups' = Ups
      BY <2>2, TransitsAre, UpsSame DEF t
    <2>4. Transits' = [Transits EXCEPT ![c] = Tail(t)]
      <3>1. ASSUME NEW d \in Clients
            PROVE  Transits'[d] = IF d = c THEN Tail(t) ELSE Transits[d]
        <4>1. Transits'[d] = IF Up(d)' THEN Transit(handler'[d]) ELSE << >>
          BY DEF Transits, Transit
        <4>2. d # c => handler'[d] = handler[d]
          BY <1>2, ConnectionStep
        <4>3. d = c => handler'[d] = h
          BY <1>2, ConnectionStep
        <4> QED
          BY <2>1, <2>2, <4>1, <4>2, <4>3, TransitsAre
      <3>2. Transits' = [d \in Clients |-> Transits'[d]]
        BY DEF Transits
      <3>3. Transits = [d \in Clients |-> Transits[d]]
        BY DEF Transits
      <3> HIDE DEF Transits
      <3> QED
        BY <3>1, <3>2, <3>3
    <2>5. Channel!Deliver(c)
      BY <2>1, <2>3, <2>4 DEF Transits, Ups, Channel!Deliver
    <2> QED
      BY <2>5
  <1>5. handler[c].cut \in BOOLEAN
    BY HandlerFields DEF IInv, TypeOK, H
  <1> QED
    BY <1>3, <1>4, <1>5

LEMMA CutMaps ==
    ASSUME IInv, Alive, NEW c \in Clients, Cut(c)
    PROVE  Channel!Break
  <1> DEFINE h == [handler[c] EXCEPT !.cut = TRUE]
  <1>1. h.phase = handler[c].phase /\ h.cut
    BY CutEffect DEF IInv, TypeOK, H
  <1>2. SetHandler(c, h) /\ received' = received
    BY DEF Cut
  <1>3. h.phase # "crashed"
    BY <1>1 DEF Alive
  <1> HIDE DEF h
  <1>4. ASSUME NEW d \in Clients
        PROVE  /\ Up(d)' <=> Up(d) /\ d \notin {c}
               /\ Up(d)' => Transit(handler'[d]) = Transit(handler[d])
    BY <1>1, <1>2, <1>3, ConnectionStep
  <1> QED
    BY <1>2, <1>4, BreakMaps

LEMMA StepMaps == IInv /\ [Next]_vars => [Channel!Next]_(Channel!vars)
  <1> SUFFICES ASSUME IInv, [Next]_vars
               PROVE  [Channel!Next]_(Channel!vars)
    OBVIOUS
  <1>1. CASE UNCHANGED vars
    <2>1. handler' = handler /\ received' = received
      BY <1>1 DEF vars
    <2>2. \A d \in Clients : Up(d)' <=> Up(d)
      BY <2>1 DEF Up, Alive
    <2> QED
      BY <2>1, <2>2, StutterMaps
  <1>2. CASE Next
    <2>1. Alive
      BY <1>2 DEF Next
    <2>2. CASE StartJob \/ PauseJob \/ StopJob \/ FinishJob \/ FailJob
      <3>1. PICK first \in JobStates, last \in JobStates :
              job # None /\ SetStates(first, last)
        BY <2>2 DEF StartJob, PauseJob, StopJob, FinishJob, FailJob, JobStates, None
      <3> QED
        BY <3>1, SetStatesMaps DEF Channel!Next
    <2>3. CASE NewJob
      BY <2>3, NewJobMaps DEF Channel!Next
    <2>4. ASSUME NEW c \in Clients,
                 \/ AcceptDone(c) \/ Subscribe(c) \/ Unsubscribe(c)
                 \/ ReadError(c) \/ RunSend(c) \/ Written(c) \/ Cut(c)
          PROVE  [Channel!Next]_(Channel!vars)
      <3>1. CASE AcceptDone(c) \/ Subscribe(c) \/ Unsubscribe(c) \/ ReadError(c)
        BY <2>1, <3>1, AcceptDoneMaps, ReadErrorMaps, ReadsMaps DEF Subscribe, Unsubscribe
      <3>2. CASE RunSend(c)
        BY <2>1, <3>2, RunSendMaps DEF Channel!Next
      <3>3. CASE Written(c)
        BY <2>1, <3>3, WrittenMaps DEF Channel!Next
      <3>4. CASE Cut(c)
        BY <2>1, <3>4, CutMaps DEF Channel!Next
      <3> QED
        BY <2>4, <3>1, <3>2, <3>3, <3>4
    <2> QED
      BY <1>2, <2>2, <2>3, <2>4 DEF Next
  <1> QED
    BY <1>1, <1>2

(***************************************************************************)
(* The WebSocket keeps the safety part of its promise: what is raised for  *)
(* a client reaches it once and in order, or is lost with its connection.  *)
(***************************************************************************)
THEOREM ChannelKept == Spec => Channel!Spec
  BY ChannelInit, EventsInductive, StepMaps, PTL DEF Spec, Channel!Spec
=============================================================================
