---------------------------- MODULE CameraProofs ----------------------------
(***************************************************************************)
(* Proofs about CameraStreaming, for any number of streams, any ring and   *)
(* any number of buffers: who keeps the camera running, and what a reader  *)
(* of the ring is given.                                                   *)
(***************************************************************************)
EXTENDS CameraStreaming, TLAPS, FiniteSetTheorems

-----------------------------------------------------------------------------
(* How many buffers there are from slot i to the one to be written next. *)
Gap(e, i) ==
    IF i <= e.nextBuffer THEN e.nextBuffer - i ELSE e.nextBuffer - i + RingSize

(* The same, for a slot that is in use: the ring is full, not empty. *)
Back(e, i) == IF Gap(e, i) = 0 THEN RingSize ELSE Gap(e, i)

(* The ring holds the last RingSize buffers, each in its place. *)
Ring(e) ==
    \A i \in Slots :
      e.buffers[i].seq =
          IF Back(e, i) <= e.written THEN e.written + 1 - Back(e, i) ELSE 0

(***************************************************************************)
(* What a reader knows of the ring: its place, but for whole rounds; that  *)
(* a buffer it is in the middle of is still there, unless it was lapped;   *)
(* and that what comes next is newer than what it has had.                 *)
(***************************************************************************)
Placed(e, s) ==
    \E k \in Nat : e.written + 1 = s.pos + Gap(e, s.next) + k * RingSize

Partial(e, s) ==
    s.offset > 0 => /\ s.pos <= e.written
                    /\ ~Lapped(e, s) => s.offset < e.buffers[s.next].size
                    /\ s.last > 0
                    /\ s.last + Back(e, s.next) <= e.written + 1

Newer(e, s) == s.offset = 0 => s.last + Gap(e, s.next) <= e.written

Reader(e, s) == Placed(e, s) /\ Partial(e, s) /\ Newer(e, s)

-----------------------------------------------------------------------------
(* The arithmetic of the ring. *)
LEMMA GapRange ==
    ASSUME NEW e \in Encoders, NEW i \in Slots
    PROVE  Gap(e, i) \in 0..(RingSize - 1) /\ Back(e, i) \in 1..RingSize
  BY RingAssumption DEF Encoders, Slots, Gap, Back

LEMMA AfterSlot ==
    ASSUME NEW i \in Slots
    PROVE  After(i) \in Slots
  BY RingAssumption DEF Slots, After

(* A reader that goes on by one slot is one closer to the writer. *)
LEMMA GapAfter ==
    ASSUME NEW e \in Encoders, NEW i \in Slots
    PROVE  Gap(e, After(i)) = Back(e, i) - 1
  BY RingAssumption DEF Encoders, Slots, Gap, Back, After

(* A writer that goes on by one slot is one further from every reader. *)
LEMMA GapStore ==
    ASSUME NEW e \in Encoders, NEW i \in Slots, NEW f,
           f.nextBuffer = After(e.nextBuffer)
    PROVE  /\ Gap(f, i) = IF Gap(e, i) = RingSize - 1 THEN 0 ELSE Gap(e, i) + 1
           /\ Back(f, i) = IF Gap(e, i) = 0 THEN 1 ELSE Gap(e, i) + 1
           /\ Gap(e, i) = 0 <=> i = e.nextBuffer
  BY RingAssumption DEF Encoders, Slots, Gap, Back, After

LEMMA StoreType ==
    ASSUME NEW e \in Encoders, NEW size \in 0..MaxSize, NEW more \in BOOLEAN
    PROVE  /\ StoreBuffer(e, size, more) \in Encoders
           /\ StoreBuffer(e, size, more).nextBuffer = After(e.nextBuffer)
           /\ StoreBuffer(e, size, more).written = e.written + 1
           /\ StoreBuffer(e, size, more).running = e.running
           /\ \A i \in Slots :
                StoreBuffer(e, size, more).buffers[i] =
                  IF i = e.nextBuffer THEN [seq |-> e.written + 1, size |-> size]
                  ELSE e.buffers[i]
  <1>1. After(e.nextBuffer) \in Slots
    BY AfterSlot DEF Encoders
  <1>2. [seq |-> e.written + 1, size |-> size] \in Buffers
    BY DEF Encoders, Buffers
  <1> DEFINE b == [seq |-> e.written + 1, size |-> size]
             c == [e.buffers EXCEPT ![e.nextBuffer] = b]
  <1>3. /\ c \in [Slots -> Buffers]
        /\ \A i \in Slots : c[i] = IF i = e.nextBuffer THEN b ELSE e.buffers[i]
    <2> HIDE DEF b
    <2> QED
      BY <1>2 DEF Encoders, b
  <1>4. StoreBuffer(e, size, more) =
          [e EXCEPT !.buffers = c, !.nextBuffer = After(e.nextBuffer),
                    !.written = e.written + 1, !.mid = more]
    BY DEF StoreBuffer, Encoders
  <1> HIDE DEF b, c
  <1>5. StoreBuffer(e, size, more) \in Encoders
    <2>1. StoreBuffer(e, size, more) =
            [running |-> e.running, sps |-> e.sps, pps |-> e.pps, mid |-> more,
             nextBuffer |-> After(e.nextBuffer), buffers |-> c,
             written |-> e.written + 1]
      BY <1>4 DEF Encoders
    <2>2. /\ e.running \in BOOLEAN /\ e.sps \in BOOLEAN /\ e.pps \in BOOLEAN
          /\ e.written + 1 \in Nat
      BY DEF Encoders
    <2> QED
      BY <2>1, <2>2, <1>1, <1>3 DEF Encoders
  <1>6. /\ StoreBuffer(e, size, more).nextBuffer = After(e.nextBuffer)
        /\ StoreBuffer(e, size, more).written = e.written + 1
        /\ StoreBuffer(e, size, more).running = e.running
        /\ StoreBuffer(e, size, more).buffers = c
    BY <1>4 DEF Encoders
  <1> QED
    BY <1>3, <1>5, <1>6 DEF b

(* A reader that was not lapped is where its gap says. *)
LEMMA PlacedGap ==
    ASSUME NEW e \in Encoders, NEW s \in Sources, Placed(e, s)
    PROVE  /\ s.pos + Gap(e, s.next) <= e.written + 1
           /\ ~Lapped(e, s) => e.written + 1 - s.pos = Gap(e, s.next)
  <1>1. PICK k \in Nat : e.written + 1 = s.pos + Gap(e, s.next) + k * RingSize
    BY DEF Placed
  <1>2. k * RingSize \in Nat /\ (k > 0 => k * RingSize >= RingSize)
    BY RingAssumption
  <1>3. /\ e.written \in Nat /\ s.pos \in Nat /\ RingSize \in Nat
        /\ Gap(e, s.next) \in Nat
    BY GapRange, RingAssumption DEF Encoders, Sources
  <1>4. k = 0 => k * RingSize = 0
    BY RingAssumption
  <1> QED
    BY <1>1, <1>2, <1>3, <1>4 DEF Lapped

(* processNAL keeps the ring, and what every reader knows of it. *)
LEMMA StoreKeepsRing ==
    ASSUME NEW e \in Encoders, NEW size \in 0..MaxSize, NEW more \in BOOLEAN,
           Ring(e)
    PROVE  Ring(StoreBuffer(e, size, more))
  <1> DEFINE f == StoreBuffer(e, size, more)
  <1>1. SUFFICES ASSUME NEW i \in Slots
                 PROVE  f.buffers[i].seq = IF Back(f, i) <= f.written
                                             THEN f.written + 1 - Back(f, i) ELSE 0
    BY DEF Ring
  <1>2. /\ f.nextBuffer = After(e.nextBuffer) /\ f.written = e.written + 1
        /\ f.buffers[i] = IF i = e.nextBuffer
                            THEN [seq |-> e.written + 1, size |-> size]
                          ELSE e.buffers[i]
    BY StoreType
  <1>3. /\ Back(f, i) = IF Gap(e, i) = 0 THEN 1 ELSE Gap(e, i) + 1
        /\ Gap(e, i) = 0 <=> i = e.nextBuffer
    BY <1>2, GapStore
  <1>4. e.buffers[i].seq = IF Back(e, i) <= e.written
                             THEN e.written + 1 - Back(e, i) ELSE 0
    BY DEF Ring
  <1>5. e.written \in Nat
    BY DEF Encoders
  <1> HIDE DEF f
  <1>6. CASE i = e.nextBuffer
    BY <1>2, <1>3, <1>5, <1>6
  <1>7. CASE i # e.nextBuffer
    <2>1. Back(e, i) = Gap(e, i) /\ Back(f, i) = Gap(e, i) + 1
      BY <1>3, <1>7 DEF Back
    <2>2. f.buffers[i].seq = e.buffers[i].seq
      BY <1>2, <1>7
    <2> QED
      BY <2>1, <2>2, <1>2, <1>4, <1>5, GapRange
  <1> QED
    BY <1>6, <1>7

LEMMA StoreKeepsReader ==
    ASSUME NEW e \in Encoders, NEW size \in 0..MaxSize, NEW more \in BOOLEAN,
           NEW s \in Sources, Reader(e, s)
    PROVE  Reader(StoreBuffer(e, size, more), s)
  <1> DEFINE f == StoreBuffer(e, size, more)
  <1>1. s.next \in Slots /\ s.pos \in Nat /\ s.offset \in Nat /\ s.last \in Nat
    BY RingAssumption DEF Sources
  <1>2. /\ f.nextBuffer = After(e.nextBuffer) /\ f.written = e.written + 1
        /\ s.next # e.nextBuffer => f.buffers[s.next] = e.buffers[s.next]
    <2>1. f.buffers[s.next] = IF s.next = e.nextBuffer
                                THEN [seq |-> e.written + 1, size |-> size]
                              ELSE e.buffers[s.next]
      BY <1>1, StoreType
    <2>2. f.nextBuffer = After(e.nextBuffer) /\ f.written = e.written + 1
      BY StoreType
    <2> HIDE DEF f
    <2> QED
      BY <2>1, <2>2
  <1>3. /\ Gap(f, s.next) = IF Gap(e, s.next) = RingSize - 1 THEN 0
                            ELSE Gap(e, s.next) + 1
        /\ Back(f, s.next) = IF Gap(e, s.next) = 0 THEN 1 ELSE Gap(e, s.next) + 1
        /\ Gap(e, s.next) = 0 <=> s.next = e.nextBuffer
    BY <1>1, <1>2, GapStore
  <1>4. e.written \in Nat /\ RingSize \in Nat /\ RingSize > 1
        /\ Gap(e, s.next) \in 0..(RingSize - 1)
    BY <1>1, GapRange, RingAssumption DEF Encoders
  <1>5. /\ s.pos <= e.written + 1
        /\ ~Lapped(e, s) => e.written + 1 - s.pos = Gap(e, s.next)
    BY <1>1, <1>4, PlacedGap DEF Reader
  <1> HIDE DEF f
  <1>6. Placed(f, s)
    <2>1. PICK k \in Nat : e.written + 1 = s.pos + Gap(e, s.next) + k * RingSize
      BY DEF Reader, Placed
    <2>2. CASE Gap(e, s.next) = RingSize - 1
      <3>1. (k + 1) * RingSize = k * RingSize + RingSize /\ k * RingSize \in Nat
        BY <1>4
      <3>2. f.written + 1 = s.pos + Gap(f, s.next) + (k + 1) * RingSize
        BY <2>1, <2>2, <3>1, <1>1, <1>2, <1>3, <1>4
      <3> QED
        BY <3>2 DEF Placed
    <2>3. CASE Gap(e, s.next) # RingSize - 1
      <3>1. k * RingSize \in Nat
        BY <1>4
      <3>2. f.written + 1 = s.pos + Gap(f, s.next) + k * RingSize
        BY <2>1, <2>3, <3>1, <1>1, <1>2, <1>3, <1>4
      <3> QED
        BY <3>2 DEF Placed
    <2> QED
      BY <2>2, <2>3
  <1>7. Partial(f, s)
    <2>1. SUFFICES ASSUME s.offset > 0
                   PROVE  /\ s.pos <= f.written
                          /\ ~Lapped(f, s) => s.offset < f.buffers[s.next].size
                          /\ s.last > 0
                          /\ s.last + Back(f, s.next) <= f.written + 1
      BY DEF Partial
    <2>2. /\ s.pos <= e.written /\ s.last > 0
          /\ ~Lapped(e, s) => s.offset < e.buffers[s.next].size
          /\ s.last + Back(e, s.next) <= e.written + 1
      BY <2>1 DEF Reader, Partial
    <2>3. ASSUME ~Lapped(f, s)
          PROVE  s.offset < f.buffers[s.next].size
      <3>1. ~Lapped(e, s) /\ Gap(e, s.next) > 0
        BY <2>2, <2>3, <1>1, <1>2, <1>4, <1>5 DEF Lapped
      <3> QED
        BY <3>1, <2>2, <1>2, <1>3, <1>4
    <2>4. s.last + Back(f, s.next) <= f.written + 1
      BY <2>2, <1>1, <1>2, <1>3, <1>4 DEF Back
    <2> QED
      BY <2>2, <2>3, <2>4, <1>1, <1>2, <1>4
  <1>8. Newer(f, s)
    BY <1>1, <1>2, <1>3, <1>4 DEF Reader, Newer
  <1> QED
    BY <1>6, <1>7, <1>8 DEF Reader, f
(* A new reader waits for the buffer to come. *)
LEMMA CreateKeepsReader ==
    ASSUME NEW e \in Encoders
    PROVE  CreateSource(e) \in Sources /\ Reader(e, CreateSource(e))
  <1> DEFINE s == CreateSource(e)
  <1>1. /\ s.next = e.nextBuffer /\ s.offset = 0
        /\ s.pos = e.written + 1 /\ s.last = e.written
    BY DEF CreateSource
  <1>2. e.nextBuffer \in Slots /\ e.written \in Nat /\ e.nextBuffer \in Int
    BY RingAssumption DEF Encoders, Slots
  <1>3. Gap(e, s.next) = 0
    BY <1>1, <1>2 DEF Gap
  <1>4. s \in Sources
    BY <1>2, RingAssumption DEF Sources, CreateSource
  <1>5. 0 * RingSize = 0
    BY RingAssumption
  <1> HIDE DEF s
  <1>6. e.written + 1 = s.pos + Gap(e, s.next) + 0 * RingSize
    BY <1>1, <1>2, <1>3, <1>5
  <1>7. Placed(e, s)
    BY <1>6 DEF Placed
  <1>8. Partial(e, s) /\ Newer(e, s)
    BY <1>1, <1>2, <1>3 DEF Partial, Newer
  <1> QED
    BY <1>4, <1>7, <1>8 DEF Reader, s

(* read() of the SPS or the PPS leaves the place in the ring alone. *)
LEMMA ParametersKeepReader ==
    ASSUME NEW e \in Encoders, NEW s \in Sources, Reader(e, s)
    PROVE  ReadParameters(s) \in Sources /\ Reader(e, ReadParameters(s))
  <1> DEFINE r == ReadParameters(s)
  <1>1. /\ r \in Sources /\ r.next = s.next /\ r.offset = s.offset
        /\ r.pos = s.pos /\ r.last = s.last
    BY DEF ReadParameters, Sources
  <1> HIDE DEF r
  <1>2. Reader(e, r)
    BY <1>1 DEF Reader, Placed, Partial, Newer, Lapped
  <1> QED
    BY <1>1, <1>2 DEF r

(***************************************************************************)
(* read() of a buffer keeps what the reader knows, and gives it something  *)
(* newer: the next buffer, if it was not lapped.                           *)
(***************************************************************************)
LEMMA ReadKeepsReader ==
    ASSUME NEW e \in Encoders, NEW s \in Sources, NEW ask \in 1..MaxSize,
           Ring(e), Reader(e, s), ~CaughtUp(e, s),
           s.offset <= e.buffers[s.next].size
    PROVE  /\ ReadBuffer(e, s, ask) \in Sources
           /\ Reader(e, ReadBuffer(e, s, ask))
           /\ ReadBuffer(e, s, ask).last >= s.last
           /\ s.offset = 0 => ReadBuffer(e, s, ask).last > s.last
           /\ ~Lapped(e, s) => ReadBuffer(e, s, ask).last = s.pos
  <1> DEFINE r == ReadBuffer(e, s, ask)
             seen == e.buffers[s.next].seq
             g == Gap(e, s.next)
             b == Back(e, s.next)
  <1>1. /\ s.next \in Slots /\ s.pos \in Nat /\ s.offset \in Nat
        /\ s.last \in Nat /\ s.offset <= MaxSize
        /\ e.written \in Nat /\ e.buffers[s.next].size \in 0..MaxSize
        /\ seen \in Nat /\ e.nextBuffer \in Slots
    BY RingAssumption DEF Sources, Encoders, Buffers
  <1>2. /\ RingSize \in Nat /\ RingSize > 1 /\ MaxSize \in Nat
        /\ g \in 0..(RingSize - 1) /\ b \in 1..RingSize
        /\ b = IF g = 0 THEN RingSize ELSE g
        /\ ask \in Nat /\ ask > 0
    BY <1>1, GapRange, RingAssumption DEF Back
  <1>3. /\ s.pos + g <= e.written + 1
        /\ ~Lapped(e, s) => e.written + 1 - s.pos = g
    BY PlacedGap DEF Reader
  <1>4. g = 0 => s.offset > 0
    <2>1. g = 0 => s.next = e.nextBuffer
      BY <1>1, <1>2, RingAssumption DEF Gap, Slots
    <2> QED
      BY <2>1, <1>1 DEF CaughtUp
  <1>5. /\ s.offset > 0 => /\ s.pos <= e.written
                           /\ s.last > 0 /\ s.last + b <= e.written + 1
        /\ s.offset = 0 => s.last + g <= e.written
    BY DEF Reader, Partial, Newer
  <1>6. b <= e.written /\ s.pos <= e.written
    <2> HIDE DEF g, b
    <2> QED
      BY <1>1, <1>2, <1>3, <1>4, <1>5
  <1>7. seen = e.written + 1 - b
    BY <1>1, <1>6 DEF Ring
  <1>8. ~Lapped(e, s) => b = e.written + 1 - s.pos
    <2>1. e.written + 1 - s.pos = g => b = g
      <3> HIDE DEF g, b
      <3> QED
        BY <1>1, <1>2, <1>6
    <2> QED
      BY <2>1, <1>3
  <1>9. /\ seen >= s.last
        /\ s.offset = 0 => seen > s.last
        /\ ~Lapped(e, s) => seen = s.pos
    <2> HIDE DEF g, b, seen
    <2> QED
      BY <1>1, <1>2, <1>4, <1>5, <1>7, <1>8
  <1>10. r.last = seen
    BY DEF ReadBuffer, Sources
  <1>11. CASE ReadsToEnd(e, s, ask)
    <2>1. r = [s EXCEPT !.last = seen, !.next = After(s.next), !.offset = 0,
                        !.pos = s.pos + 1]
      BY <1>11 DEF ReadBuffer, Sources
    <2>2. /\ r \in Sources /\ r.next = After(s.next) /\ r.offset = 0
          /\ r.pos = s.pos + 1
      <3>1. After(s.next) \in Slots
        BY <1>1, AfterSlot
      <3>2. s.sps \in BOOLEAN /\ s.pps \in BOOLEAN
        BY DEF Sources
      <3> HIDE DEF seen, r
      <3>3. r = [sps |-> s.sps, pps |-> s.pps, next |-> After(s.next),
                 offset |-> 0, pos |-> s.pos + 1, last |-> seen]
        BY <2>1 DEF Sources
      <3> QED
        BY <3>1, <3>2, <3>3, <1>1, <1>2 DEF Sources
    <2>3. Gap(e, r.next) = b - 1
      BY <2>2, <1>1, GapAfter
    <2>4. Newer(e, r)
      <3> HIDE DEF r, b, seen
      <3> QED
        BY <2>3, <1>1, <1>2, <1>7, <1>10 DEF Newer
    <2>5. Partial(e, r)
      <3> HIDE DEF r
      <3> QED
        BY <2>2 DEF Partial
    <2>6. Placed(e, r)
      <3>1. PICK k \in Nat : e.written + 1 = s.pos + g + k * RingSize
        BY DEF Reader, Placed
      <3>2. k * RingSize \in Nat
        BY <1>2
      <3>3. CASE g > 0
        <4>1. e.written + 1 = r.pos + Gap(e, r.next) + k * RingSize
          <5> HIDE DEF r, g, b
          <5> QED
            BY <3>1, <3>2, <3>3, <2>2, <2>3, <1>1, <1>2
        <4> QED
          BY <4>1 DEF Placed
      <3>4. CASE g = 0
        <4>1. k > 0
          <5>1. k = 0 => k * RingSize = 0
            BY <1>2
          <5> HIDE DEF g, b
          <5> QED
            BY <5>1, <3>1, <3>4, <1>1, <1>6
        <4>2. k - 1 \in Nat /\ (k - 1) * RingSize = k * RingSize - RingSize
          BY <4>1, <1>2
        <4>3. e.written + 1 = r.pos + Gap(e, r.next) + (k - 1) * RingSize
          <5> HIDE DEF r, g, b
          <5> QED
            BY <3>1, <3>2, <3>4, <4>2, <2>2, <2>3, <1>1, <1>2
        <4> QED
          BY <4>2, <4>3 DEF Placed
      <3> QED
        BY <3>3, <3>4, <1>2
    <2> QED
      BY <2>2, <2>4, <2>5, <2>6, <1>9, <1>10 DEF Reader
  <1>12. CASE ~ReadsToEnd(e, s, ask)
    <2>1. r = [s EXCEPT !.last = seen, !.offset = s.offset + ask]
      BY <1>12 DEF ReadBuffer, Sources
    <2>2. s.offset + ask < e.buffers[s.next].size
      BY <1>12, <1>1, <1>2 DEF ReadsToEnd
    <2>3. /\ r \in Sources /\ r.next = s.next /\ r.offset = s.offset + ask
          /\ r.pos = s.pos
      <3>1. s.sps \in BOOLEAN /\ s.pps \in BOOLEAN
        BY DEF Sources
      <3> HIDE DEF seen, r
      <3>2. r = [sps |-> s.sps, pps |-> s.pps, next |-> s.next,
                 offset |-> s.offset + ask, pos |-> s.pos, last |-> seen]
        BY <2>1 DEF Sources
      <3>3. s.offset + ask \in 0..MaxSize
        BY <2>2, <1>1, <1>2
      <3> QED
        BY <3>1, <3>2, <3>3, <1>1 DEF Sources
    <2>4. Placed(e, r)
      <3> HIDE DEF r
      <3> QED
        BY <2>3 DEF Reader, Placed
    <2>5. Partial(e, r)
      <3>1. r.last > 0 /\ r.last + Back(e, r.next) <= e.written + 1
        <4>1. Back(e, r.next) = b
          BY <2>3
        <4> HIDE DEF r, b, seen
        <4> QED
          BY <4>1, <1>1, <1>2, <1>6, <1>7, <1>10
      <3> HIDE DEF r
      <3> QED
        BY <3>1, <2>2, <2>3, <1>6 DEF Partial
    <2>6. Newer(e, r)
      <3> HIDE DEF r
      <3> QED
        BY <2>3, <1>1, <1>2 DEF Newer
    <2> QED
      BY <2>3, <2>4, <2>5, <2>6, <1>9, <1>10 DEF Reader
  <1> QED
    BY <1>11, <1>12

-----------------------------------------------------------------------------
(* The inductive invariant. *)

(* The references are those of the streams, and a camera that has none is off. *)
Counted ==
    /\ ReferencesAreStreams
    /\ ~on => leaked = 0
    /\ encoder.running = on

Readable ==
    /\ Ring(encoder)
    /\ \A s \in Holders : Reader(encoder, source[s])

IInv == TypeOK /\ Counted /\ Readable /\ OnlyLappedCrashes

-----------------------------------------------------------------------------
(* A stream becomes a holder, stops being one, or neither. *)
LEMMA GoHolders ==
    ASSUME TypeOK, NEW s \in Streams, NEW x, Go(s, x)
    PROVE  /\ Holders' = IF x \in {"idle", "released"} THEN Holders \ {s}
                         ELSE Holders \cup {s}
           /\ x \in StreamStates => st' \in [Streams -> StreamStates]
           /\ \A r \in Streams : st'[r] = IF r = s THEN x ELSE st[r]
  BY DEF TypeOK, Go, Holders

LEMMA HoldersFinite ==
    /\ IsFiniteSet(Holders)
    /\ Cardinality(Holders) \in Nat
    /\ Cardinality(Holders) = 0 <=> Holders = {}
    /\ \A s \in Streams :
         /\ s \in Holders => Cardinality(Holders \ {s}) = Cardinality(Holders) - 1
         /\ s \notin Holders => Cardinality(Holders \cup {s}) = Cardinality(Holders) + 1
  <1>1. IsFiniteSet(Holders)
    BY StreamAssumption, FS_Subset DEF Holders
  <1>2. Cardinality(Holders) \in Nat
    BY <1>1, FS_CardinalityType
  <1>3. Cardinality(Holders) = 0 <=> Holders = {}
    BY <1>1, FS_EmptySet
  <1>4. ASSUME NEW s \in Streams, s \in Holders
        PROVE  Cardinality(Holders \ {s}) = Cardinality(Holders) - 1
    BY <1>1, <1>4, FS_RemoveElement
  <1>5. ASSUME NEW s \in Streams, s \notin Holders
        PROVE  Cardinality(Holders \cup {s}) = Cardinality(Holders) + 1
    BY <1>1, <1>5, FS_AddElement
  <1> QED
    BY <1>1, <1>2, <1>3, <1>4, <1>5

(* A new encoder's ring is empty. *)
LEMMA NewEncoderRing == NewEncoder \in Encoders /\ Ring(NewEncoder)
  <1>1. NewEncoder \in Encoders
    <2>1. [seq |-> 0, size |-> 0] \in Buffers
      BY RingAssumption DEF Buffers
    <2>2. [i \in Slots |-> [seq |-> 0, size |-> 0]] \in [Slots -> Buffers]
      BY <2>1
    <2>3. 0 \in Slots
      BY RingAssumption DEF Slots
    <2> QED
      BY <2>2, <2>3 DEF NewEncoder, Encoders
  <1>2. ASSUME NEW i \in Slots
        PROVE  NewEncoder.buffers[i].seq = 0 /\ Back(NewEncoder, i) > 0
    BY <1>1, GapRange, RingAssumption DEF NewEncoder
  <1>3. NewEncoder.written = 0
    BY DEF NewEncoder
  <1>4. \A i \in Slots : Back(NewEncoder, i) \in 1..RingSize
    BY <1>1, GapRange
  <1> QED
    BY <1>1, <1>2, <1>3, <1>4, RingAssumption DEF Ring

(* createStreamer leaves a running camera, with one reference more. *)
LEMMA ShareEffect ==
    ASSUME TypeOK, Counted, Readable, ShareOrStart
    PROVE  /\ on' = TRUE /\ encoder' \in Encoders /\ encoder'.running = TRUE
           /\ refCount' = Cardinality(Holders) + leaked + 1
           /\ Ring(encoder')
           /\ Holders # {} => encoder' = encoder
  <1>1. CASE on
    BY <1>1 DEF TypeOK, Counted, Readable, ShareOrStart, ReferencesAreStreams
  <1>2. CASE ~on
    <2>1. Cardinality(Holders) = 0 /\ leaked = 0
      BY <1>2, HoldersFinite DEF Counted, ReferencesAreStreams
    <2> QED
      BY <1>2, <2>1, HoldersFinite, NewEncoderRing
      DEF ShareOrStart, NewEncoder, TypeOK
  <1> QED
    BY <1>1, <1>2 DEF TypeOK

(***************************************************************************)
(* releaseStreamer of a stream that holds a reference keeps the camera     *)
(* running exactly as long as somebody does.                               *)
(***************************************************************************)
LEMMA ReleaseEffect ==
    ASSUME TypeOK, Counted, Readable, ReleaseStreamer, UNCHANGED leaked,
           NEW s \in Holders, Holders' = Holders \ {s}
    PROVE  /\ on' \in BOOLEAN /\ refCount' \in Nat /\ encoder' \in Encoders
           /\ Counted' /\ Ring(encoder')
           /\ \A r \in Sources : Reader(encoder, r) => Reader(encoder', r)
           /\ \A r \in Sources : Lapped(encoder, r) => Lapped(encoder', r)
  <1>1. on /\ refCount > 0 /\ refCount = Cardinality(Holders) + leaked
    BY DEF Counted, ReferencesAreStreams
  <1>2. /\ refCount' = refCount - 1 /\ on' = (refCount # 1)
        /\ encoder' = [encoder EXCEPT !.running = (refCount # 1)]
    BY <1>1 DEF ReleaseStreamer
  <1>3. /\ encoder' \in Encoders /\ encoder'.running = (refCount # 1)
        /\ encoder'.buffers = encoder.buffers
        /\ encoder'.nextBuffer = encoder.nextBuffer
        /\ encoder'.written = encoder.written
    BY <1>2 DEF TypeOK, Encoders
  <1>4. /\ Cardinality(Holders') = Cardinality(Holders) - 1
        /\ Cardinality(Holders') = 0 => Holders' = {}
        /\ Cardinality(Holders') \in Nat /\ Cardinality(Holders) \in Nat
    <2>1. s \in Streams
      BY DEF Holders
    <2>2. IsFiniteSet(Holders')
      BY HoldersFinite, FS_RemoveElement
    <2> QED
      BY <2>1, <2>2, HoldersFinite, FS_EmptySet, FS_CardinalityType
  <1>5. leaked \in Nat /\ refCount \in Nat
    BY DEF TypeOK
  <1>6. refCount' \in Nat /\ on' \in BOOLEAN
    BY <1>1, <1>2, <1>5
  <1>7. Counted'
    <2>1. refCount' = Cardinality(Holders') + leaked'
      BY <1>1, <1>2, <1>4, <1>5
    <2>a. on' <=> refCount # 1
      BY <1>2, Zenon
    <2>2. on' => refCount' > 0
      BY <2>a, <1>1, <1>2, <1>5
    <2>3. ~on' => Holders' = {} /\ leaked' = 0
      BY <2>a, <1>1, <1>4, <1>5
    <2> QED
      BY <2>1, <2>2, <2>3, <1>2, <1>3 DEF Counted, ReferencesAreStreams
  <1>8. \A i : Gap(encoder', i) = Gap(encoder, i) /\ Back(encoder', i) = Back(encoder, i)
    BY <1>3 DEF Gap, Back
  <1>9. Ring(encoder')
    BY <1>3, <1>8 DEF Readable, Ring
  <1>10. \A r \in Sources : Lapped(encoder, r) <=> Lapped(encoder', r)
    BY <1>3 DEF Lapped
  <1>11. ASSUME NEW r \in Sources, Reader(encoder, r)
         PROVE  Reader(encoder', r)
    <2>1. Placed(encoder', r)
      BY <1>3, <1>8, <1>11 DEF Reader, Placed
    <2>2. Partial(encoder', r)
      BY <1>3, <1>8, <1>10, <1>11 DEF Reader, Partial
    <2>3. Newer(encoder', r)
      BY <1>3, <1>8, <1>11 DEF Reader, Newer
    <2> QED
      BY <2>1, <2>2, <2>3 DEF Reader
  <1> QED
    BY <1>3, <1>6, <1>7, <1>9, <1>10, <1>11

-----------------------------------------------------------------------------
(* Initially there is no stream and no camera. *)
LEMMA InitIInv == Init => IInv
  <1> SUFFICES ASSUME Init PROVE IInv
    OBVIOUS
  <1> DEFINE e == [NewEncoder EXCEPT !.running = FALSE]
  <1>1. /\ e \in Encoders /\ e.running = FALSE /\ e.written = NewEncoder.written
        /\ e.nextBuffer = NewEncoder.nextBuffer /\ e.buffers = NewEncoder.buffers
    BY NewEncoderRing DEF Encoders
  <1>2. encoder = e
    BY DEF Init
  <1> HIDE DEF e
  <1>3. Ring(encoder)
    <2>1. \A i : Back(e, i) = Back(NewEncoder, i)
      BY <1>1 DEF Gap, Back
    <2> QED
      BY <2>1, <1>1, <1>2, NewEncoderRing DEF Ring
  <1>4. CreateSource(NewEncoder) \in Sources
    BY NewEncoderRing, CreateKeepsReader
  <1>5. TypeOK
    BY <1>1, <1>2, <1>4 DEF Init, TypeOK, StreamStates
  <1>6. Holders = {}
    BY DEF Init, Holders
  <1>7. Counted
    BY <1>1, <1>2, <1>6 DEF Init, Counted, ReferencesAreStreams
  <1>8. Readable /\ OnlyLappedCrashes
    BY <1>3, <1>6 DEF Readable, OnlyLappedCrashes, Init
  <1> QED
    BY <1>5, <1>7, <1>8 DEF IInv

-----------------------------------------------------------------------------
(* Every step preserves the invariant. *)

(* A step of a stream that leaves the camera alone and stays a holder. *)
LEMMA HolderKeepsIInv ==
    ASSUME IInv, Next, NEW s \in Holders, NEW x \in StreamStates \ {"idle", "released"},
           Go(s, x), x = "crashed" => Lapped(encoder, source[s]),
           UNCHANGED << on, refCount, encoder, leaked, requests >>,
           gone' \in [Streams -> BOOLEAN], source' \in [Streams -> Sources],
           \A r \in Holders : Reader(encoder, source'[r]),
           x = "crashed" => source' = source
    PROVE  IInv'
  <1>1. s \in Streams /\ TypeOK /\ Holders \cup {s} = Holders
    BY DEF Holders, IInv
  <1>2. Holders' = Holders
    <2>1. Holders' = IF x \in {"idle", "released"} THEN Holders \ {s}
                     ELSE Holders \cup {s}
      BY <1>1, GoHolders
    <2> QED
      BY <1>1, <2>1
  <1>3. TypeOK'
    BY <1>1, GoHolders DEF TypeOK
  <1>4. Counted'
    BY <1>2 DEF IInv, Counted, ReferencesAreStreams
  <1>5. Readable'
    BY <1>2 DEF IInv, Readable
  <1>6. OnlyLappedCrashes'
    BY <1>1, GoHolders DEF OnlyLappedCrashes, Next
  <1> QED
    BY <1>3, <1>4, <1>5, <1>6 DEF IInv

(* A step of a stream that gives its reference back. *)
LEMMA ReleaseKeepsIInv ==
    ASSUME IInv, Next, NEW s \in Holders, NEW x \in {"idle", "released"},
           Go(s, x), ReleaseStreamer, UNCHANGED << source, leaked, requests >>,
           gone' \in [Streams -> BOOLEAN]
    PROVE  IInv'
  <1>1. s \in Streams /\ TypeOK /\ Counted /\ Readable
    BY DEF Holders, IInv
  <1>2. Holders' = Holders \ {s}
    BY <1>1, GoHolders
  <1>3. /\ on' \in BOOLEAN /\ refCount' \in Nat /\ encoder' \in Encoders
        /\ Counted' /\ Ring(encoder')
        /\ \A r \in Sources : Reader(encoder, r) => Reader(encoder', r)
        /\ \A r \in Sources : Lapped(encoder, r) => Lapped(encoder', r)
    BY <1>1, <1>2, ReleaseEffect
  <1>4. x \in StreamStates /\ x # "crashed"
    BY DEF StreamStates
  <1>5. TypeOK'
    BY <1>1, <1>3, <1>4, GoHolders DEF TypeOK
  <1>6. Readable'
    <2>1. \A r \in Holders : Reader(encoder, source[r]) /\ source[r] \in Sources
      BY <1>1 DEF Readable, TypeOK, Holders
    <2> QED
      BY <2>1, <1>2, <1>3 DEF Readable
  <1>7. OnlyLappedCrashes'
    BY <1>1, <1>4, GoHolders DEF OnlyLappedCrashes, Next
  <1> QED
    BY <1>3, <1>5, <1>6, <1>7 DEF IInv

(* A step of the encoder that keeps its ring and its readers. *)
LEMMA EncoderKeepsIInv ==
    ASSUME IInv, Next, NEW e \in Encoders, EncoderStep(e), e.running = encoder.running,
           Ring(e), \A r \in Sources : Reader(encoder, r) => Reader(e, r)
    PROVE  IInv'
  <1>1. Holders' = Holders
    BY DEF EncoderStep, Holders
  <1>2. TypeOK'
    BY DEF IInv, TypeOK, EncoderStep
  <1>3. Counted'
    BY <1>1 DEF IInv, Counted, ReferencesAreStreams, EncoderStep
  <1>4. Readable'
    <2>1. \A r \in Holders : Reader(encoder, source[r]) /\ source[r] \in Sources
      BY DEF IInv, Readable, TypeOK, Holders
    <2> QED
      BY <2>1, <1>1 DEF Readable, EncoderStep
  <1>5. OnlyLappedCrashes'
    BY DEF OnlyLappedCrashes, Next, EncoderStep
  <1> QED
    BY <1>2, <1>3, <1>4, <1>5 DEF IInv

(* The parameter sets are not in the ring. *)
LEMMA ParametersKeepRing ==
    ASSUME NEW e \in Encoders, NEW f \in Encoders, Ring(e),
           f.buffers = e.buffers, f.nextBuffer = e.nextBuffer,
           f.written = e.written
    PROVE  Ring(f) /\ \A r \in Sources : Reader(e, r) => Reader(f, r)
  <1>1. \A i : Gap(f, i) = Gap(e, i) /\ Back(f, i) = Back(e, i)
    BY DEF Gap, Back
  <1>2. Ring(f)
    BY <1>1 DEF Ring
  <1>3. ASSUME NEW r \in Sources, Reader(e, r)
        PROVE  Reader(f, r)
    <2>1. Lapped(e, r) <=> Lapped(f, r)
      BY DEF Lapped
    <2>2. Placed(f, r)
      BY <1>1, <1>3 DEF Reader, Placed
    <2>3. Partial(f, r)
      BY <1>1, <1>3, <2>1 DEF Reader, Partial
    <2>4. Newer(f, r)
      BY <1>1, <1>3 DEF Reader, Newer
    <2> QED
      BY <2>2, <2>3, <2>4 DEF Reader
  <1> QED
    BY <1>2, <1>3

(* What read() does to the source, whatever becomes of the stream. *)
LEMMA ReadSourceEffect ==
    ASSUME IInv, NEW s \in Streams, ReadSource(s)
    PROVE  /\ s \in Holders
           /\ \/ UNCHANGED source
              \/ /\ TakesParameters(source[s])
                 /\ source' = [source EXCEPT ![s] = ReadParameters(@)]
              \/ /\ ~TakesParameters(source[s]) /\ ~CaughtUp(encoder, source[s])
                 /\ source[s].offset <= encoder.buffers[source[s].next].size
                 /\ \E ask \in 1..MaxSize :
                      source' = [source EXCEPT ![s] = ReadBuffer(encoder, @, ask)]
           /\ \E x \in {"ended", "reading", "writing", "crashed"} :
                /\ Go(s, x)
                /\ x = "crashed" => /\ UNCHANGED source
                                    /\ Underflows(encoder, source[s])
  <1>1. s \in Holders
    BY DEF ReadSource, Holders
  <1>2. source[s].offset \in Nat /\ encoder.buffers[source[s].next].size \in Nat
    BY RingAssumption DEF IInv, TypeOK, Sources, Encoders, Buffers
  <1>3. CASE ~encoder.running
    BY <1>1, <1>3 DEF ReadSource
  <1>4. CASE encoder.running /\ TakesParameters(source[s])
    BY <1>1, <1>4 DEF ReadSource
  <1>5. CASE /\ encoder.running /\ ~TakesParameters(source[s])
             /\ Underflows(encoder, source[s])
    BY <1>1, <1>5 DEF ReadSource
  <1>6. CASE /\ encoder.running /\ ~TakesParameters(source[s])
             /\ ~Underflows(encoder, source[s])
    <2>1. ~CaughtUp(encoder, source[s])
      BY <1>6 DEF ReadSource, Available, TakesParameters
    <2>2. source[s].offset <= encoder.buffers[source[s].next].size
      BY <1>2, <1>6 DEF Underflows
    <2>3. PICK ask \in 1..MaxSize :
            /\ source' = [source EXCEPT ![s] = ReadBuffer(encoder, @, ask)]
            /\ Go(s, IF source[s].offset = encoder.buffers[source[s].next].size
                       THEN "ended"
                     ELSE IF ReadsToEnd(encoder, source[s], ask) THEN "writing"
                     ELSE "reading")
      BY <1>6 DEF ReadSource
    <2>4. \E x \in {"ended", "reading", "writing"} : Go(s, x)
      BY <2>3
    <2> QED
      BY <1>1, <1>6, <2>1, <2>2, <2>3, <2>4
  <1> QED
    BY <1>3, <1>4, <1>5, <1>6

(* read() leaves every source well placed. *)
LEMMA ReadSourceKeeps ==
    ASSUME IInv, NEW s \in Streams, ReadSource(s)
    PROVE  /\ source' \in [Streams -> Sources]
           /\ \A r \in Holders : Reader(encoder, source'[r])
  <1>1. /\ source \in [Streams -> Sources] /\ encoder \in Encoders
        /\ Ring(encoder) /\ s \in Holders
        /\ \A r \in Holders : r \in Streams /\ Reader(encoder, source[r])
    BY ReadSourceEffect DEF IInv, TypeOK, Readable, Holders
  <1>2. ASSUME NEW y \in Sources, Reader(encoder, y),
               source' = [source EXCEPT ![s] = y]
        PROVE  /\ source' \in [Streams -> Sources]
               /\ \A r \in Holders : Reader(encoder, source'[r])
    BY <1>1, <1>2
  <1>3. CASE UNCHANGED source
    BY <1>1, <1>3
  <1>4. CASE source' = [source EXCEPT ![s] = ReadParameters(@)]
    <2>1. source[s] \in Sources /\ Reader(encoder, source[s])
      BY <1>1
    <2>2. ReadParameters(source[s]) \in Sources /\ Reader(encoder, ReadParameters(source[s]))
      BY <1>1, <2>1, ParametersKeepReader
    <2> QED
      BY <1>2, <1>4, <2>2
  <1>5. CASE /\ ~CaughtUp(encoder, source[s])
             /\ source[s].offset <= encoder.buffers[source[s].next].size
             /\ \E ask \in 1..MaxSize :
                  source' = [source EXCEPT ![s] = ReadBuffer(encoder, @, ask)]
    <2>1. source[s] \in Sources /\ Reader(encoder, source[s])
      BY <1>1
    <2>2. PICK ask \in 1..MaxSize :
            source' = [source EXCEPT ![s] = ReadBuffer(encoder, @, ask)]
      BY <1>5
    <2>3. /\ ReadBuffer(encoder, source[s], ask) \in Sources
          /\ Reader(encoder, ReadBuffer(encoder, source[s], ask))
      BY <1>1, <1>5, <2>1, ReadKeepsReader
    <2> QED
      BY <1>2, <2>2, <2>3
  <1> QED
    BY <1>3, <1>4, <1>5, ReadSourceEffect

LEMMA RequestStreamIInv ==
    ASSUME IInv, Next, NEW s \in Streams, RequestStream(s)
    PROVE  IInv'
  <1>1. TypeOK /\ Counted /\ Readable /\ s \notin Holders
    BY DEF IInv, RequestStream, Holders
  <1>2. /\ on' = TRUE /\ encoder' \in Encoders /\ encoder'.running = TRUE
        /\ refCount' = Cardinality(Holders) + leaked + 1
        /\ Ring(encoder')
        /\ Holders # {} => encoder' = encoder
    BY <1>1, ShareEffect DEF RequestStream
  <1>3. /\ Go(s, "created") /\ requests' = requests + 1
        /\ source' = [source EXCEPT ![s] = CreateSource(encoder')]
        /\ UNCHANGED << gone, leaked >>
    BY DEF RequestStream
  <1>4. Holders' = Holders \cup {s}
    BY <1>1, <1>3, GoHolders
  <1>5. /\ Cardinality(Holders') = Cardinality(Holders) + 1
        /\ Cardinality(Holders) \in Nat
    BY <1>1, <1>4, HoldersFinite
  <1>6. CreateSource(encoder') \in Sources /\ Reader(encoder', CreateSource(encoder'))
    BY <1>2, CreateKeepsReader
  <1>7. TypeOK'
    <2>1. st' \in [Streams -> StreamStates]
      BY <1>1, <1>3, GoHolders DEF StreamStates
    <2>2. source' \in [Streams -> Sources]
      BY <1>1, <1>3, <1>6 DEF TypeOK
    <2> QED
      BY <2>1, <2>2, <1>1, <1>2, <1>3, <1>5 DEF TypeOK
  <1>8. Counted'
    <2>1. refCount' = Cardinality(Holders') + leaked' /\ refCount' > 0
      BY <1>1, <1>2, <1>3, <1>5 DEF TypeOK
    <2> QED
      BY <2>1, <1>2 DEF Counted, ReferencesAreStreams
  <1>9. Readable'
    <2>1. ASSUME NEW r \in Holders'
          PROVE  Reader(encoder', source'[r])
      <3>1. CASE r = s
        BY <3>1, <1>1, <1>3, <1>6 DEF TypeOK
      <3>2. CASE r # s
        BY <3>2, <1>1, <1>2, <1>3, <1>4 DEF Readable, TypeOK, Holders
      <3> QED
        BY <3>1, <3>2
    <2> QED
      BY <2>1, <1>2 DEF Readable
  <1>10. OnlyLappedCrashes'
    BY <1>1, <1>3, GoHolders DEF OnlyLappedCrashes, Next
  <1> QED
    BY <1>7, <1>8, <1>9, <1>10 DEF IInv

LEMMA RequestFailsIInv ==
    ASSUME IInv, Next, NEW s \in Streams, RequestFails(s)
    PROVE  IInv'
  <1>1. TypeOK /\ Counted /\ Readable
    BY DEF IInv
  <1>2. /\ on' = TRUE /\ encoder' \in Encoders /\ encoder'.running = TRUE
        /\ refCount' = Cardinality(Holders) + leaked + 1
        /\ Ring(encoder')
        /\ Holders # {} => encoder' = encoder
    BY <1>1, ShareEffect DEF RequestFails
  <1>3. /\ requests' = requests + 1 /\ leaked' = leaked + 1
        /\ UNCHANGED << st, source, gone >>
    BY DEF RequestFails
  <1>4. Holders' = Holders /\ Cardinality(Holders) \in Nat
    BY <1>3, HoldersFinite DEF Holders
  <1>5. TypeOK'
    BY <1>1, <1>2, <1>3, <1>4 DEF TypeOK
  <1>6. Counted'
    <2>1. refCount' = Cardinality(Holders') + leaked' /\ refCount' > 0
      BY <1>1, <1>2, <1>3, <1>4 DEF TypeOK
    <2> QED
      BY <2>1, <1>2 DEF Counted, ReferencesAreStreams
  <1>7. Readable'
    BY <1>1, <1>2, <1>3, <1>4 DEF Readable
  <1>8. OnlyLappedCrashes'
    BY <1>3 DEF OnlyLappedCrashes, Next
  <1> QED
    BY <1>5, <1>6, <1>7, <1>8 DEF IInv

(* The steps of the streaming threads and of the sessions. *)
LEMMA StreamIInv ==
    ASSUME IInv, Next, NEW s \in Streams, StreamStep(s) \/ WriteFrame(s) \/ ClientGoes(s)
    PROVE  IInv'
  <1>1. /\ TypeOK /\ source \in [Streams -> Sources] /\ gone \in [Streams -> BOOLEAN]
        /\ \A r \in Holders : Reader(encoder, source[r])
    BY DEF IInv, TypeOK, Readable
  <1>2. CASE SendHeader(s)
    <2>1. s \in Holders
      BY <1>2 DEF SendHeader, Holders
    <2>2. CASE gone[s]
      <3>1. /\ Go(s, "idle") /\ ReleaseStreamer
            /\ UNCHANGED << source, leaked, requests >>
            /\ gone' \in [Streams -> BOOLEAN]
        BY <1>1, <1>2, <2>2 DEF SendHeader
      <3> QED
        BY <2>1, <3>1, ReleaseKeepsIInv
    <2>3. CASE ~gone[s]
      <3>1. /\ Go(s, "reading")
            /\ UNCHANGED << on, refCount, encoder, gone, source, leaked, requests >>
        BY <1>2, <2>3 DEF SendHeader
      <3>2. "reading" \in StreamStates \ {"idle", "released"}
        BY DEF StreamStates
      <3> QED
        BY <1>1, <2>1, <3>1, <3>2, HolderKeepsIInv
    <2> QED
      BY <2>2, <2>3
  <1>3. CASE ReadSource(s)
    <2>1. PICK x \in {"ended", "reading", "writing", "crashed"} :
            /\ Go(s, x)
            /\ x = "crashed" => /\ UNCHANGED source
                                /\ Underflows(encoder, source[s])
      BY <1>3, ReadSourceEffect
    <2>2. s \in Holders
      BY <1>3, ReadSourceEffect
    <2>3. x = "crashed" => Lapped(encoder, source[s])
      <3>1. /\ source[s].offset \in Nat
            /\ encoder.buffers[source[s].next].size \in Nat
        BY RingAssumption DEF IInv, TypeOK, Sources, Encoders, Buffers
      <3>2. Partial(encoder, source[s])
        BY <1>1, <2>2 DEF Reader
      <3> QED
        BY <2>1, <3>1, <3>2 DEF Underflows, Partial
    <2>4. /\ source' \in [Streams -> Sources]
          /\ \A r \in Holders : Reader(encoder, source'[r])
      BY <1>3, ReadSourceKeeps
    <2>5. UNCHANGED << on, refCount, encoder, gone, leaked, requests >>
      BY <1>3 DEF ReadSource
    <2>6. x \in StreamStates \ {"idle", "released"}
      BY DEF StreamStates
    <2> QED
      BY <1>1, <2>1, <2>2, <2>3, <2>4, <2>5, <2>6, HolderKeepsIInv
  <1>4. CASE WaitForData(s) \/ WaitTimesOut(s) \/ WriteFrame(s)
    <2>1. PICK x \in {"waiting", "ended", "reading"} : Go(s, x)
      BY <1>4 DEF WaitForData, WaitTimesOut, WriteFrame
    <2>2. s \in Holders
      BY <1>4 DEF WaitForData, WaitTimesOut, WriteFrame, Holders
    <2>3. UNCHANGED << on, refCount, encoder, source, gone, leaked, requests >>
      BY <1>4 DEF WaitForData, WaitTimesOut, WriteFrame
    <2>4. x \in StreamStates \ {"idle", "released"} /\ x # "crashed"
      BY DEF StreamStates
    <2> QED
      BY <1>1, <2>1, <2>2, <2>3, <2>4, HolderKeepsIInv
  <1>5. CASE EndStream(s)
    <2>1. s \in Holders
      BY <1>5 DEF EndStream, Holders
    <2>2. /\ Go(s, "released") /\ ReleaseStreamer
          /\ UNCHANGED << source, gone, leaked, requests >>
      BY <1>5 DEF EndStream
    <2> QED
      BY <1>1, <2>1, <2>2, ReleaseKeepsIInv
  <1>6. CASE SendFinalChunk(s)
    <2>1. /\ Go(s, "idle") /\ gone' = [gone EXCEPT ![s] = FALSE]
          /\ UNCHANGED << on, refCount, encoder, source, leaked, requests >>
          /\ s \notin Holders
      BY <1>6 DEF SendFinalChunk, Holders
    <2>2. Holders' = Holders /\ st' \in [Streams -> StreamStates]
      BY <1>1, <2>1, GoHolders DEF StreamStates
    <2>3. TypeOK'
      BY <1>1, <2>1, <2>2 DEF TypeOK
    <2>4. Counted' /\ Readable'
      BY <2>1, <2>2 DEF IInv, Counted, Readable, ReferencesAreStreams
    <2>5. OnlyLappedCrashes'
      BY <1>1, <2>1, GoHolders DEF OnlyLappedCrashes, Next
    <2> QED
      BY <2>3, <2>4, <2>5 DEF IInv
  <1>7. CASE ClientGoes(s)
    <2>1. /\ gone' = [gone EXCEPT ![s] = TRUE]
          /\ UNCHANGED << on, refCount, encoder, st, source, leaked, requests >>
      BY <1>7 DEF ClientGoes
    <2>2. Holders' = Holders
      BY <2>1 DEF Holders
    <2>3. TypeOK'
      BY <1>1, <2>1 DEF TypeOK
    <2>4. Counted' /\ Readable' /\ OnlyLappedCrashes'
      BY <2>1, <2>2
      DEF IInv, Counted, Readable, ReferencesAreStreams, OnlyLappedCrashes
    <2> QED
      BY <2>3, <2>4 DEF IInv
  <1> QED
    BY <1>2, <1>3, <1>4, <1>5, <1>6, <1>7 DEF StreamStep

(* The steps of the encoder's thread. *)
LEMMA EncoderIInv ==
    ASSUME IInv, Next, EncodeSPS \/ EncodePPS \/ EncodeBuffer
    PROVE  IInv'
  <1>1. encoder \in Encoders /\ Ring(encoder)
    BY DEF IInv, TypeOK, Readable
  <1>2. CASE EncodeSPS
    <2> DEFINE f == [encoder EXCEPT !.sps = TRUE]
    <2>1. /\ f \in Encoders /\ f.buffers = encoder.buffers
          /\ f.nextBuffer = encoder.nextBuffer /\ f.written = encoder.written
          /\ f.running = encoder.running
      BY <1>1 DEF Encoders
    <2>2. EncoderStep(f)
      BY <1>2 DEF EncodeSPS
    <2> HIDE DEF f
    <2> QED
      BY <1>1, <2>1, <2>2, ParametersKeepRing, EncoderKeepsIInv
  <1>3. CASE EncodePPS
    <2> DEFINE f == [encoder EXCEPT !.pps = TRUE]
    <2>1. /\ f \in Encoders /\ f.buffers = encoder.buffers
          /\ f.nextBuffer = encoder.nextBuffer /\ f.written = encoder.written
          /\ f.running = encoder.running
      BY <1>1 DEF Encoders
    <2>2. EncoderStep(f)
      BY <1>3 DEF EncodePPS
    <2> HIDE DEF f
    <2> QED
      BY <1>1, <2>1, <2>2, ParametersKeepRing, EncoderKeepsIInv
  <1>4. CASE EncodeBuffer
    <2>1. PICK size \in 1..MaxSize, more \in BOOLEAN :
            EncoderStep(StoreBuffer(encoder, size, more))
      BY <1>4 DEF EncodeBuffer
    <2> DEFINE f == StoreBuffer(encoder, size, more)
    <2>2. size \in 0..MaxSize
      BY RingAssumption
    <2>3. f \in Encoders /\ f.running = encoder.running /\ Ring(f)
      <3>1. f \in Encoders /\ f.running = encoder.running
        BY <1>1, <2>2, StoreType
      <3>2. Ring(f)
        BY <1>1, <2>2, StoreKeepsRing
      <3> QED
        BY <3>1, <3>2
    <2>4. \A r \in Sources : Reader(encoder, r) => Reader(f, r)
      BY <1>1, <2>2, StoreKeepsReader
    <2>5. EncoderStep(f)
      BY <2>1
    <2> HIDE DEF f
    <2> QED
      BY <2>3, <2>4, <2>5, EncoderKeepsIInv
  <1> QED
    BY <1>2, <1>3, <1>4

LEMMA StepIInv == IInv /\ [Next]_vars => IInv'
  <1> SUFFICES ASSUME IInv, [Next]_vars
               PROVE  IInv'
    OBVIOUS
  <1>1. CASE Next
    <2>1. CASE EncodeSPS \/ EncodePPS \/ EncodeBuffer
      BY <1>1, <2>1, EncoderIInv
    <2>2. ASSUME NEW s \in Streams,
                 \/ RequestStream(s) \/ RequestFails(s) \/ ClientGoes(s)
                 \/ StreamStep(s) \/ WriteFrame(s)
          PROVE  IInv'
      BY <1>1, <2>2, RequestStreamIInv, RequestFailsIInv, StreamIInv
    <2> QED
      BY <1>1, <2>1, <2>2 DEF Next
  <1>2. CASE UNCHANGED vars
    BY <1>2 DEF vars, IInv, TypeOK, Counted, Readable, ReferencesAreStreams,
                OnlyLappedCrashes, Holders
  <1> QED
    BY <1>1, <1>2

-----------------------------------------------------------------------------
(***************************************************************************)
(* The invariant holds: the references are the streams, the ring holds the *)
(* last buffers, and every reader's place in it is what read() takes it    *)
(* for (CameraManager.cpp, MMALEncoder.cpp).                               *)
(***************************************************************************)
THEOREM CameraInductive == Spec => []IInv
  <1> QED
    BY InitIInv, StepIInv, PTL DEF Spec

(* Every variable keeps its type: no index leaves the encoder's ring, and  *)
(* a count of references never goes below zero.                            *)
THEOREM CameraTypes == Spec => []TypeOK
  <1>1. IInv => TypeOK
    BY DEF IInv
  <1> QED
    BY <1>1, CameraInductive, PTL

(***************************************************************************)
(* createStreamer and releaseStreamer count right whatever streams come,   *)
(* fail and end in whatever order: the references of a running camera are  *)
(* its streams and those of failed requests.                               *)
(***************************************************************************)
THEOREM ReferencesCounted == Spec => []ReferencesAreStreams
  <1>1. IInv => ReferencesAreStreams
    BY DEF IInv, Counted
  <1> QED
    BY <1>1, CameraInductive, PTL

(* No stream's camera is stopped by the end of another (releaseStreamer). *)
THEOREM CameraKeptRunning == Spec => []CameraRunsForHolders
  <1>1. IInv => CameraRunsForHolders
    BY DEF IInv, TypeOK, Counted, ReferencesAreStreams, CameraRunsForHolders
  <1> QED
    BY <1>1, CameraInductive, PTL

(* Only a lapped reader meets a buffer shorter than what it has read of it. *)
THEOREM CrashesAreLaps == Spec => []OnlyLappedCrashes
  <1>1. IInv => OnlyLappedCrashes
    BY DEF IInv
  <1> QED
    BY <1>1, CameraInductive, PTL

(* The effect of a step on the source of a stream that is in read(). *)
LEMMA SourceChange ==
    ASSUME IInv, [Next]_vars, NEW s \in Streams,
           st[s] \in {"reading", "waiting"}, source'[s] # source[s]
    PROVE  /\ TakesParameters(source[s]) => /\ source'[s].pos = source[s].pos
                                            /\ source'[s].last = source[s].last
           /\ ~TakesParameters(source[s]) =>
                /\ source'[s].last >= source[s].last
                /\ source[s].offset = 0 => source'[s].last > source[s].last
                /\ ~Lapped(encoder, source[s]) => source'[s].last = source[s].pos
  <1>1. Next
    BY DEF vars
  <1>2. PICK t \in Streams : ReadSource(t) \/ RequestStream(t)
    <2>1. ~(EncodeSPS \/ EncodePPS \/ EncodeBuffer)
      BY DEF EncodeSPS, EncodePPS, EncodeBuffer, EncoderStep
    <2>2. ASSUME NEW t \in Streams
          PROVE  /\ ~RequestFails(t) /\ ~ClientGoes(t) /\ ~WriteFrame(t)
                 /\ ~SendHeader(t) /\ ~WaitForData(t) /\ ~WaitTimesOut(t)
                 /\ ~EndStream(t) /\ ~SendFinalChunk(t)
      BY DEF RequestFails, ClientGoes, WriteFrame, SendHeader, WaitForData,
             WaitTimesOut, EndStream, SendFinalChunk
    <2> QED
      BY <1>1, <2>1, <2>2 DEF Next, StreamStep
  <1>3. source \in [Streams -> Sources] /\ encoder \in Encoders /\ Ring(encoder)
    BY DEF IInv, TypeOK, Readable
  <1>4. t = s /\ ReadSource(s)
    <2>1. ~RequestStream(t)
      <3>1. RequestStream(t) => t # s
        BY DEF RequestStream
      <3>2. RequestStream(t) /\ t # s => source'[s] = source[s]
        BY <1>3 DEF RequestStream
      <3> QED
        BY <3>1, <3>2
    <2>2. ReadSource(t)
      BY <1>2, <2>1
    <2>3. t # s => source'[s] = source[s]
      BY <2>2, <1>3, ReadSourceEffect
    <2> QED
      BY <2>2, <2>3
  <1>5. CASE source' = [source EXCEPT ![s] = ReadParameters(@)] /\ TakesParameters(source[s])
    <2>1. source'[s] = ReadParameters(source[s]) /\ source[s] \in Sources
      BY <1>3, <1>5
    <2>2. /\ ReadParameters(source[s]).pos = source[s].pos
          /\ ReadParameters(source[s]).last = source[s].last
      BY <2>1 DEF ReadParameters, Sources
    <2> QED
      BY <1>5, <2>1, <2>2
  <1>6. CASE /\ ~TakesParameters(source[s]) /\ ~CaughtUp(encoder, source[s])
             /\ source[s].offset <= encoder.buffers[source[s].next].size
             /\ \E ask \in 1..MaxSize :
                  source' = [source EXCEPT ![s] = ReadBuffer(encoder, @, ask)]
    <2>1. PICK ask \in 1..MaxSize :
            source' = [source EXCEPT ![s] = ReadBuffer(encoder, @, ask)]
      BY <1>6
    <2>2. source'[s] = ReadBuffer(encoder, source[s], ask) /\ source[s] \in Sources
      BY <1>3, <2>1
    <2>3. Reader(encoder, source[s])
      BY <1>4, ReadSourceEffect DEF IInv, Readable
    <2> QED
      BY <1>3, <1>6, <2>2, <2>3, ReadKeepsReader
  <1> QED
    BY <1>4, <1>5, <1>6, ReadSourceEffect

(***************************************************************************)
(* MMALH264Source::read gives a reader that was not lapped every buffer of *)
(* the ring, once and in order.                                            *)
(***************************************************************************)
THEOREM EveryBufferInOrder == Spec => ReadsInOrder
  <1> DEFINE A == \A s \in Streams :
                source'[s].pos = source[s].pos + 1 /\ st[s] \in {"reading", "waiting"}
                  /\ ~Lapped(encoder, source[s])
                => source'[s].last = source[s].pos
  <1>1. IInv /\ [Next]_vars => A
    <2> SUFFICES ASSUME IInv, [Next]_vars, NEW s \in Streams,
                        source'[s].pos = source[s].pos + 1,
                        st[s] \in {"reading", "waiting"},
                        ~Lapped(encoder, source[s])
                 PROVE  source'[s].last = source[s].pos
      OBVIOUS
    <2>1. source[s].pos \in Nat
      BY DEF IInv, TypeOK, Sources
    <2>2. source'[s] # source[s]
      BY <2>1
    <2> QED
      BY <2>1, <2>2, SourceChange
  <1>2. IInv /\ [Next]_vars => [A]_vars
    BY <1>1
  <1> QED
    BY <1>2, CameraInductive, PTL DEF Spec, ReadsInOrder

(***************************************************************************)
(* MMALH264Source::read never gives a reader an older buffer after a newer *)
(* one, lapped or not.                                                     *)
(***************************************************************************)
THEOREM NeverAnOlderBuffer == Spec => NeverBackwards
  <1> DEFINE A == \A s \in Streams :
                st[s] \in {"reading", "waiting"} /\ source'[s] # source[s]
                  /\ ~TakesParameters(source[s])
                => IF source[s].offset = 0 THEN source'[s].last > source[s].last
                   ELSE source'[s].last >= source[s].last
  <1>1. IInv /\ [Next]_vars => A
    BY SourceChange
  <1>2. IInv /\ [Next]_vars => [A]_vars
    BY <1>1
  <1> QED
    BY <1>2, CameraInductive, PTL DEF Spec, NeverBackwards
=============================================================================
