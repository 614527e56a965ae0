----------------------------- MODULE EncoderRing -----------------------------
(***************************************************************************)
(* Class MMALEncoder and its readers MMALH264Source                        *)
(* (src/camera/MMALEncoder.cpp).  The encoder's callback stores H.264 data *)
(* in a ring of buffers and goes around it without regard to the readers;  *)
(* each reader first takes the SPS and the PPS, then one buffer after the  *)
(* other, in as many pieces as it is asked for, until it has caught up.    *)
(*                                                                         *)
(* An encoder and a reader are records; the operators map them to what     *)
(* the methods leave.  Buffers are numbered from 1 in the order they are   *)
(* stored; the numbers (seq, written, pos, last) are not in the code.      *)
(***************************************************************************)
EXTENDS Integers

CONSTANTS
    RingSize,       \* the number of buffers
    MaxSize         \* the size of the largest buffer, in units of a read

ASSUME RingAssumption ==
    /\ RingSize \in Nat /\ RingSize > 1
    /\ MaxSize \in Nat /\ MaxSize > 0

Slots == 0..(RingSize - 1)
AfterUnwrapped(i) == i + 1
After(i) == IF i + 1 = RingSize THEN 0 ELSE i + 1

Buffers == [seq : Nat, size : 0..MaxSize]

(***************************************************************************)
(* mid says that the callback is between two buffers of one NAL unit: it   *)
(* holds m_cvMutex.                                                        *)
(***************************************************************************)
Encoders ==
    [running : BOOLEAN, sps : BOOLEAN, pps : BOOLEAN, mid : BOOLEAN,
     nextBuffer : Slots, buffers : [Slots -> Buffers], written : Nat]

Sources ==
    [sps : BOOLEAN, pps : BOOLEAN, next : Slots, offset : 0..MaxSize,
     pos : Nat, last : Nat]

NewEncoder ==
    [running |-> TRUE, sps |-> FALSE, pps |-> FALSE, mid |-> FALSE,
     nextBuffer |-> 0, buffers |-> [i \in Slots |-> [seq |-> 0, size |-> 0]],
     written |-> 0]

-----------------------------------------------------------------------------
StoreAhead(e, size, more) ==
    [e EXCEPT !.buffers[After(e.nextBuffer)] =
                  [seq |-> e.written + 1, size |-> size],
              !.nextBuffer = After(@),
              !.written = @ + 1,
              !.mid = more]

(* processNAL *)
StoreBuffer(e, size, more) ==
    [e EXCEPT !.buffers[e.nextBuffer] = [seq |-> e.written + 1, size |-> size],
              !.nextBuffer = After(@),
              !.written = @ + 1,
              !.mid = more]

CreateSourceAtOldest(e) ==
    [sps |-> FALSE, pps |-> FALSE, next |-> After(e.nextBuffer), offset |-> 0,
     pos |-> e.written + 1, last |-> e.written]

(* createSource, which does not take the mutex: pos is the buffer to come. *)
CreateSource(e) ==
    [sps |-> FALSE, pps |-> FALSE, next |-> e.nextBuffer, offset |-> 0,
     pos |-> e.written + 1, last |-> e.written]

-----------------------------------------------------------------------------
(* MMALH264Source::read *)

CaughtUp(e, s) == s.next = e.nextBuffer /\ s.offset = 0

(* The conditions of its three waits. *)
Available(e, s) ==
    IF ~s.sps THEN e.sps ELSE IF ~s.pps THEN e.pps ELSE ~CaughtUp(e, s)

TakesParameters(s) == ~s.sps \/ ~s.pps

ReadParameters(s) ==
    IF ~s.sps THEN [s EXCEPT !.sps = TRUE] ELSE [s EXCEPT !.pps = TRUE]

(***************************************************************************)
(* size() - m_offset is unsigned: if the writer has put a shorter buffer   *)
(* in the place of the one the reader is in the middle of, it underflows,  *)
(* the amount to copy is negative, and memcpy runs over both buffers.      *)
(***************************************************************************)
Underflows(e, s) == ~TakesParameters(s) /\ s.offset > e.buffers[s.next].size

(* At most ask units of the buffer.  Whether it is read to its end: *)
ReadsToEnd(e, s, ask) == s.offset + ask >= e.buffers[s.next].size

ReadBufferOffsetKept(e, s, ask) ==
    LET seen == [s EXCEPT !.last = e.buffers[s.next].seq]
    IN  IF ReadsToEnd(e, s, ask)
          THEN [seen EXCEPT !.next = After(@), !.pos = @ + 1]
          ELSE [seen EXCEPT !.offset = @ + ask]
ReadBuffer(e, s, ask) ==
    LET seen == [s EXCEPT !.last = e.buffers[s.next].seq]
    IN  IF ReadsToEnd(e, s, ask)
          THEN [seen EXCEPT !.next = After(@), !.offset = 0, !.pos = @ + 1]
          ELSE [seen EXCEPT !.offset = @ + ask]

-----------------------------------------------------------------------------
(* The reader has left a whole ring unread: its place in it is lost. *)
Lapped(e, s) == e.written + 1 - s.pos >= RingSize
=============================================================================
