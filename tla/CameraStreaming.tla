--------------------------- MODULE CameraStreaming ---------------------------
(***************************************************************************)
(* A camera and the browsers that watch it: CameraManager counts           *)
(* references to the running camera (src/CameraManager.cpp), a request     *)
(* creates a streamer and starts a thread (src/api/CameraApi.cpp) that     *)
(* moves data from the encoder's ring to the client until either ends      *)
(* (src/mp4/MP4Streamer.cpp), and the encoder's own thread fills the ring. *)
(* Cameras have nothing in common but a mutex, so there is one.            *)
(***************************************************************************)
EXTENDS EncoderRing, FiniteSets

CONSTANTS
    Streams,        \* HTTP sessions that may ask for the stream
    MaxWritten,     \* how many buffers a camera stores while it runs
    MaxRequests,    \* how many requests there are
    MaxFailures     \* how many of them fail after the camera is running

ASSUME StreamAssumption ==
    /\ IsFiniteSet(Streams)
    /\ MaxWritten \in Nat /\ MaxRequests \in Nat /\ MaxFailures \in Nat

(***************************************************************************)
(* idle     no stream                    writing  has data for the client  *)
(* created  has a streamer, no thread    ended    run() is over            *)
(* reading  in run(), to read next       released to send the final chunk  *)
(* waiting  in the wait of read()        crashed  the program is           *)
(***************************************************************************)
StreamStates == {"idle", "created", "reading", "waiting", "writing",
                 "ended", "released", "crashed"}

VARIABLES
    on,         \* whether the camera is in m_runningCameras
    refCount,   \* its reference count
    encoder,    \* the MMALEncoder
    st,         \* the state of each stream
    source,     \* its MMALH264Source
    gone,       \* whether its client has closed the connection
    leaked,     \* references whose streamer was never created
    requests    \* how many requests there have been

vars == << on, refCount, encoder, st, source, gone, leaked, requests >>

Init ==
    /\ on = FALSE /\ refCount = 0
    /\ encoder = [NewEncoder EXCEPT !.running = FALSE]
    /\ st = [s \in Streams |-> "idle"]
    /\ source = [s \in Streams |-> CreateSource(NewEncoder)]
    /\ gone = [s \in Streams |-> FALSE]
    /\ leaked = 0 /\ requests = 0

Go(s, state) == st' = [st EXCEPT ![s] = state]

-----------------------------------------------------------------------------
ShareUncounted ==
    /\ on' = TRUE
    /\ refCount' = 1
    /\ encoder' = IF on THEN encoder ELSE NewEncoder

(***************************************************************************)
(* createStreamer, under the manager's mutex: takes a reference, or        *)
(* detects, creates and starts the camera.                                 *)
(***************************************************************************)
ShareOrStart ==
    /\ on' = TRUE
    /\ refCount' = IF on THEN refCount + 1 ELSE 1
    /\ encoder' = IF on THEN encoder ELSE NewEncoder

RequestStream(s) ==
    /\ st[s] = "idle"
    /\ requests < MaxRequests
    /\ requests' = requests + 1
    /\ ShareOrStart
    /\ source' = [source EXCEPT ![s] = CreateSource(encoder')]
    /\ Go(s, "created")
    /\ UNCHANGED << gone, leaked >>

(* createSource or the MP4Streamer throws: the reference is not given back. *)
RequestFails(s) ==
    /\ st[s] = "idle"
    /\ requests < MaxRequests /\ leaked < MaxFailures
    /\ requests' = requests + 1
    /\ ShareOrStart
    /\ leaked' = leaked + 1
    /\ UNCHANGED << st, source, gone >>

(***************************************************************************)
(* releaseStreamer, under the manager's mutex.  The last reference stops   *)
(* the camera, which first waits for the encoder's callback to return.     *)
(***************************************************************************)
ReleaseStreamer ==
    IF ~on THEN UNCHANGED << on, refCount, encoder >>
    ELSE /\ refCount' = refCount - 1
         /\ refCount = 1 => ~encoder.mid
         /\ on' = (refCount # 1)
         /\ encoder' = [encoder EXCEPT !.running = (refCount # 1)]

(* restStreamCamera goes on: the header, then the thread. *)
SendHeader(s) ==
    /\ st[s] = "created"
    /\ IF gone[s] THEN /\ ReleaseStreamer
                       /\ Go(s, "idle")
                       /\ gone' = [gone EXCEPT ![s] = FALSE]
       ELSE /\ Go(s, "reading")
            /\ UNCHANGED << on, refCount, encoder, gone >>
    /\ UNCHANGED << source, leaked, requests >>

ClientGoes(s) ==
    /\ st[s] # "idle" /\ ~gone[s]
    /\ gone' = [gone EXCEPT ![s] = TRUE]
    /\ UNCHANGED << on, refCount, encoder, st, source, leaked, requests >>

-----------------------------------------------------------------------------
(* The streaming thread: MP4Streamer::run. *)

(***************************************************************************)
(* read() has something, or finds the camera stopped, at once or when it   *)
(* wakes up.  A frame is ready for the client when a buffer is complete; a *)
(* read of nothing is the end of the stream.                               *)
(***************************************************************************)
ReadSource(s) ==
    LET src == source[s]
    IN  /\ st[s] \in {"reading", "waiting"}
        /\ ~encoder.mid
        /\ Available(encoder, src) \/ ~encoder.running
        /\ IF ~encoder.running
             THEN Go(s, "ended") /\ UNCHANGED source
           ELSE IF TakesParameters(src)
             THEN /\ source' = [source EXCEPT ![s] = ReadParameters(@)]
                  /\ Go(s, "reading")
           ELSE IF Underflows(encoder, src)
             THEN Go(s, "crashed") /\ UNCHANGED source
           ELSE \E ask \in 1..MaxSize :
                  /\ source' = [source EXCEPT ![s] = ReadBuffer(encoder, @, ask)]
                  /\ Go(s, IF src.offset = encoder.buffers[src.next].size
                             THEN "ended"
                           ELSE IF ReadsToEnd(encoder, src, ask) THEN "writing"
                           ELSE "reading")
    /\ UNCHANGED << on, refCount, encoder, gone, leaked, requests >>

WaitForData(s) ==
    /\ st[s] = "reading"
    /\ ~encoder.mid
    /\ encoder.running /\ ~Available(encoder, source[s])
    /\ Go(s, "waiting")
    /\ UNCHANGED << on, refCount, encoder, source, gone, leaked, requests >>

WaitStartsOver(s) ==
    /\ st[s] = "waiting"
    /\ ~encoder.mid
    /\ encoder.running /\ ~Available(encoder, source[s])
    /\ Go(s, "reading")
    /\ UNCHANGED << on, refCount, encoder, source, gone, leaked, requests >>

(* Ten seconds without data: read() returns 0, which ends run(). *)
WaitTimesOut(s) ==
    /\ st[s] = "waiting"
    /\ ~encoder.mid
    /\ encoder.running /\ ~Available(encoder, source[s])
    /\ Go(s, "ended")
    /\ UNCHANGED << on, refCount, encoder, source, gone, leaked, requests >>

(* RestMP4Sink::write stops the streamer when it cannot send. *)
WriteFrame(s) ==
    /\ st[s] = "writing"
    /\ Go(s, IF gone[s] THEN "ended" ELSE "reading")
    /\ UNCHANGED << on, refCount, encoder, source, gone, leaked, requests >>

EndStream(s) ==
    /\ st[s] = "ended"
    /\ ReleaseStreamer
    /\ Go(s, "released")
    /\ UNCHANGED << source, gone, leaked, requests >>

(* sendFinalChunk: the session is free for another request, or closed. *)
SendFinalChunk(s) ==
    /\ st[s] = "released"
    /\ Go(s, "idle")
    /\ gone' = [gone EXCEPT ![s] = FALSE]
    /\ UNCHANGED << on, refCount, encoder, source, leaked, requests >>

-----------------------------------------------------------------------------
(* The encoder's thread: processNAL, while its port is enabled. *)

EncoderStep(e) ==
    /\ on
    /\ encoder' = e
    /\ UNCHANGED << on, refCount, st, source, gone, leaked, requests >>

(* A stream of H.264 starts with its SPS, then its PPS. *)
EncodeSPS ==
    /\ ~encoder.sps
    /\ EncoderStep([encoder EXCEPT !.sps = TRUE])

EncodePPS ==
    /\ encoder.sps /\ ~encoder.pps
    /\ EncoderStep([encoder EXCEPT !.pps = TRUE])

(* A NAL unit is cut in buffers of the largest size and a last one. *)
EncodeBuffer ==
    /\ encoder.pps
    /\ encoder.written < MaxWritten
    /\ \E size \in 1..MaxSize, more \in BOOLEAN :
         /\ more => size = MaxSize /\ encoder.written + 1 < MaxWritten
         /\ EncoderStep(StoreBuffer(encoder, size, more))

-----------------------------------------------------------------------------
StreamStep(s) ==
    \/ SendHeader(s) \/ ReadSource(s) \/ WaitForData(s) \/ WaitTimesOut(s)
    \/ EndStream(s) \/ SendFinalChunk(s)

Next ==
    /\ \A s \in Streams : st[s] # "crashed"
    /\ \/ EncodeSPS \/ EncodePPS \/ EncodeBuffer
       \/ \E s \in Streams :
            \/ RequestStream(s) \/ RequestFails(s) \/ ClientGoes(s)
            \/ StreamStep(s) \/ WriteFrame(s)

Spec == Init /\ [][Next]_vars

(***************************************************************************)
(* Threads get on, the wait of read() ends after ten seconds, and a write  *)
(* to a closed connection fails.  A client need not take what it is sent,  *)
(* and the camera need not deliver anything.                               *)
(***************************************************************************)
Alive == \A s \in Streams : st[s] # "crashed"

FairSpec ==
    /\ Spec
    /\ \A s \in Streams :
         /\ WF_vars(Alive /\ StreamStep(s))
         /\ WF_vars(Alive /\ gone[s] /\ WriteFrame(s))
    /\ WF_vars(Alive /\ encoder.mid /\ EncodeBuffer)

-----------------------------------------------------------------------------
(* Every variable keeps its type. *)
TypeOK ==
    /\ on \in BOOLEAN /\ refCount \in Nat
    /\ encoder \in Encoders
    /\ st \in [Streams -> StreamStates]
    /\ source \in [Streams -> Sources]
    /\ gone \in [Streams -> BOOLEAN]
    /\ leaked \in Nat /\ requests \in Nat

(* The streams that have a streamer and will release it. *)
Holders == {s \in Streams : st[s] \notin {"idle", "released"}}

(***************************************************************************)
(* The camera runs for every stream that has a streamer, whatever threads  *)
(* end in whatever order: nobody stops it under a reader, who would find   *)
(* its encoder stopped or gone.                                            *)
(***************************************************************************)
CameraRunsForHolders == Holders # {} => on /\ encoder.running

(***************************************************************************)
(* The camera runs only for its streams: the references are the streams,   *)
(* and those that a failed request has left behind.                        *)
(***************************************************************************)
ReferencesAreStreams ==
    IF on THEN refCount > 0 /\ refCount = Cardinality(Holders) + leaked
    ELSE Holders = {}

(***************************************************************************)
(* A reader that stays less than the ring behind the encoder gets every    *)
(* buffer, once and in order.                                              *)
(***************************************************************************)
ReadsInOrder ==
    [][\A s \in Streams :
         source'[s].pos = source[s].pos + 1 /\ st[s] \in {"reading", "waiting"}
           /\ ~Lapped(encoder, source[s])
         => source'[s].last = source[s].pos]_vars

(***************************************************************************)
(* A reader that falls further behind loses buffers, but is never given    *)
(* an old one after a newer one, whatever it finds in its place.           *)
(***************************************************************************)
NeverBackwards ==
    [][\A s \in Streams :
         st[s] \in {"reading", "waiting"} /\ source'[s] # source[s]
           /\ ~TakesParameters(source[s])
         => IF source[s].offset = 0 THEN source'[s].last > source[s].last
            ELSE source'[s].last >= source[s].last]_vars

(* Only such a reader can be in the middle of a buffer that is replaced. *)
OnlyLappedCrashes ==
    \A s \in Streams : st[s] = "crashed" => Lapped(encoder, source[s])

(***************************************************************************)
(* A stream whose client has gone ends and gives the camera back, even if  *)
(* the camera has stopped delivering: no thread waits for ever.            *)
(***************************************************************************)
AbandonedEnds ==
    \A s \in Streams : gone[s] ~> st[s] = "idle" \/ ~Alive
=============================================================================
