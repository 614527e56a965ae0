------------------------------ MODULE JobEvents ------------------------------
(***************************************************************************)
(* The events about a printer's job that its subscribers are sent          *)
(* (src/api/WebSockets.cpp): a subscription connects a slot to the         *)
(* printer's hasJob signal and one to the signals of the job it has; a new *)
(* job is subscribed to from the hasJob slot.  What the slots raise goes   *)
(* to the client through its WebSocketHandler.                             *)
(*                                                                         *)
(* Everything runs on the event loop's one thread, a handler at a time.    *)
(* An event is the job's state it tells of; those about the progress and   *)
(* those of the other signals are left out: they take the same way.        *)
(***************************************************************************)
EXTENDS WebSocketHandler, FiniteSets

CONSTANTS
    Clients,        \* browsers with a WebSocket
    MaxRequests,    \* how many messages each client sends
    MaxChanges      \* how many times the job changes

ASSUME EventsAssumption == MaxRequests \in [Clients -> Nat] /\ MaxChanges \in Nat

JobStates == {"Stopped", "Running", "Paused", "Done", "Error"}
None == "None"

VARIABLES
    job,        \* the state of the printer's job, or None
    subs,       \* how many of a client's slots are on the printer's hasJob
    slots,      \* how many are on the job
    handler,    \* its WebSocketHandler
    received,   \* what it has received
    since,      \* how many events had been raised for it when it subscribed
    requests,   \* how many messages it has sent
    changes     \* how many times the job has changed

vars == << job, subs, slots, handler, received, since, requests, changes >>

(* The printer may be printing before the first browser connects. *)
Init ==
    /\ job \in {None, "Running"}
    /\ subs = [c \in Clients |-> 0]
    /\ slots = [c \in Clients |-> 0]
    /\ handler = [c \in Clients |-> NewHandler]
    /\ received = [c \in Clients |-> << >>]
    /\ since = [c \in Clients |-> 0]
    /\ requests = [c \in Clients |-> 0]
    /\ changes = 0

(* All events that were raised for a client, in order. *)
Raised(c) == received[c] \o handler[c].pending \o handler[c].posted

-----------------------------------------------------------------------------
(* The job's and the printer's signals. *)

(* The same event from each of n slots. *)
Repeat(n, state) == [i \in 1..n |-> state]

(***************************************************************************)
(* The job's state becomes first and, in the same handler, last: every     *)
(* change is an event for every slot.                                      *)
(***************************************************************************)
SetStates(first, last) ==
    /\ changes < MaxChanges
    /\ changes' = changes + 1
    /\ job' = last
    /\ handler' = [c \in Clients |->
                     SendEvents(handler[c],
                       Repeat(slots[c], first)
                         \o Repeat(IF last = first THEN 0 ELSE slots[c], last))]
    /\ UNCHANGED << subs, slots, received, since, requests >>

(* start: the first line may find no printer, or the end of the file. *)
StartJob ==
    /\ job \in JobStates \ {"Running"}
    /\ \E last \in {"Running", "Error", "Done"} : SetStates("Running", last)

PauseJob == job = "Running" /\ SetStates("Paused", "Paused")
StopJob == job \in {"Running", "Paused"} /\ SetStates("Stopped", "Stopped")
FinishJob == job = "Running" /\ SetStates("Done", "Done")
FailJob == job \in JobStates \ {"Error"} /\ SetStates("Error", "Error")

(* Without the hasJob slot's own subscription. *)
NewJobUnseen ==
    /\ job \notin {"Running", "Paused"}
    /\ changes < MaxChanges
    /\ changes' = changes + 1
    /\ job' = "Stopped"
    /\ slots' = [c \in Clients |-> 0]
    /\ handler' = [c \in Clients |->
                     SendEvents(handler[c], Repeat(subs[c], "Stopped"))]
    /\ UNCHANGED << subs, received, since, requests >>

(***************************************************************************)
(* setPrintJob: the slots on the old job go with it; every hasJob slot     *)
(* subscribes to the new one and raises an event with its state.           *)
(***************************************************************************)
NewJob ==
    /\ job \notin {"Running", "Paused"}
    /\ changes < MaxChanges
    /\ changes' = changes + 1
    /\ job' = "Stopped"
    /\ slots' = subs
    /\ handler' = [c \in Clients |->
                     SendEvents(handler[c], Repeat(subs[c], "Stopped"))]
    /\ UNCHANGED << subs, received, since, requests >>

-----------------------------------------------------------------------------
(* The loop's handlers of a client's connection. *)

SetHandler(c, h) == handler' = [handler EXCEPT ![c] = h]

AcceptDone(c) ==
    /\ handler[c].phase = "accepting"
    /\ SetHandler(c, Accepted(handler[c]))
    /\ UNCHANGED << job, subs, slots, received, since, requests, changes >>

ReadsOnce(c) ==
    /\ handler[c].phase = "open" /\ ~handler[c].cut
    /\ requests[c] < MaxRequests[c]
    /\ requests' = [requests EXCEPT ![c] = @ + 1]
    /\ SetHandler(c, ReadFails(handler[c]))
    /\ UNCHANGED << job, received, changes >>

(* The next read is started when the message has been handled. *)
Reads(c) ==
    /\ handler[c].phase = "open" /\ ~handler[c].cut
    /\ requests[c] < MaxRequests[c]
    /\ requests' = [requests EXCEPT ![c] = @ + 1]
    /\ UNCHANGED << job, handler, received, changes >>

(* handleSubscribeRequest of Printer.<name>.job: nothing keeps it from     *)
(* being repeated, and the client is told nothing yet.                     *)
Subscribe(c) ==
    /\ Reads(c)
    /\ subs' = [subs EXCEPT ![c] = @ + 1]
    /\ slots' = [slots EXCEPT ![c] = @ + (IF job = None THEN 0 ELSE 1)]
    /\ since' = IF subs[c] = 0 THEN [since EXCEPT ![c] = Len(Raised(c))] ELSE since

(* Erasing the first that is found would leave the others connected. *)
UnsubscribeFirst(c) ==
    /\ Reads(c)
    /\ subs[c] > 0
    /\ subs' = [subs EXCEPT ![c] = @ - 1]
    /\ UNCHANGED << slots, since >>

(* handleUnsubscribeRequest: disconnects all that have the name. *)
Unsubscribe(c) ==
    /\ Reads(c)
    /\ subs[c] > 0
    /\ subs' = [subs EXCEPT ![c] = 0]
    /\ slots' = [slots EXCEPT ![c] = 0]
    /\ UNCHANGED since

(* The last reference goes, and with it the slots, which track it. *)
ReadError(c) ==
    /\ handler[c].phase = "open" /\ handler[c].cut
    /\ SetHandler(c, ReadFails(handler[c]))
    /\ subs' = [subs EXCEPT ![c] = 0]
    /\ slots' = [slots EXCEPT ![c] = 0]
    /\ UNCHANGED << job, received, since, requests, changes >>

RunSend(c) ==
    /\ handler[c].posted # << >>
    /\ SetHandler(c, RunPosted(handler[c]))
    /\ UNCHANGED << job, subs, slots, received, since, requests, changes >>

Written(c) ==
    /\ handler[c].writes > 0
    /\ SetHandler(c, WriteDone(handler[c]))
    /\ received' = IF handler[c].cut THEN received
                   ELSE [received EXCEPT ![c] = Append(@, Head(handler[c].pending))]
    /\ UNCHANGED << job, subs, slots, since, requests, changes >>

(* The network, or the client, ends the connection. *)
Cut(c) ==
    /\ ~handler[c].cut
    /\ SetHandler(c, [handler[c] EXCEPT !.cut = TRUE])
    /\ UNCHANGED << job, subs, slots, received, since, requests, changes >>

-----------------------------------------------------------------------------
Alive == \A c \in Clients : handler[c].phase # "crashed"

Next ==
    /\ Alive
    /\ \/ StartJob \/ PauseJob \/ StopJob \/ FinishJob \/ FailJob \/ NewJob
       \/ \E c \in Clients :
            \/ AcceptDone(c) \/ Subscribe(c) \/ Unsubscribe(c)
            \/ ReadError(c) \/ RunSend(c) \/ Written(c) \/ Cut(c)

Spec == Init /\ [][Next]_vars

(***************************************************************************)
(* The loop runs every handler that is ready, and a write ends: the client *)
(* takes what it is sent, or the connection fails.                         *)
(***************************************************************************)
FairSpec ==
    /\ Spec
    /\ \A c \in Clients : /\ WF_vars(Alive /\ RunSend(c))
                          /\ WF_vars(Alive /\ Written(c))

-----------------------------------------------------------------------------
(* Every variable keeps its type. *)
TypeOK ==
    /\ job \in JobStates \cup {None}
    /\ subs \in [Clients -> Nat] /\ slots \in [Clients -> Nat]
    /\ handler \in [Clients -> Handlers(JobStates)]
    /\ received \in [Clients -> Seq(JobStates)]
    /\ since \in [Clients -> Nat] /\ requests \in [Clients -> Nat]
    /\ changes \in Nat

Up(c) == Alive /\ ~handler[c].cut

(***************************************************************************)
(* The promise of EventChannel: no event is lost, repeated or overtaken on *)
(* its way through the strand, the queue and the writes, and each arrives, *)
(* as long as the connection is up and the program runs.                   *)
(***************************************************************************)
Channel == INSTANCE EventChannel WITH
    transit <- [c \in Clients |->
                  IF Up(c) THEN handler[c].pending \o handler[c].posted
                  ELSE << >>],
    up <- [c \in Clients |-> Up(c)]

ImplementsChannel == Channel!FairSpec

(***************************************************************************)
(* A client has as many slots on the current job as it has subscriptions:  *)
(* it misses no event of a job that came later, and has none when it has   *)
(* unsubscribed, or has gone.                                              *)
(***************************************************************************)
OncePerSubscription ==
    \A c \in Clients : slots[c] = IF job = None THEN 0 ELSE subs[c]

(***************************************************************************)
(* The last event raised for a client that is subscribed, if there was one *)
(* since it subscribed, tells the state the job is in now: when all of it  *)
(* has arrived the browser does not show an old state.                     *)
(***************************************************************************)
LastEventIsCurrent ==
    \A c \in Clients :
      Up(c) /\ subs[c] > 0 /\ Len(Raised(c)) > since[c]
        => Raised(c)[Len(Raised(c))] = job

(***************************************************************************)
(* An object is used after it was freed only if its connection had failed: *)
(* until then the chain of reads keeps it.                                 *)
(***************************************************************************)
OnlyCutCrashes ==
    \A c \in Clients : handler[c].phase = "crashed" => handler[c].cut

(***************************************************************************)
(* Never two writes at once, which the stream does not allow; and no       *)
(* message waits while none is outstanding.                                *)
(***************************************************************************)
OneWrite ==
    \A c \in Clients :
      /\ handler[c].writes = IF handler[c].writing THEN 1 ELSE 0
      /\ handler[c].phase = "open" /\ ~handler[c].cut
           => (handler[c].writing <=> handler[c].pending # << >>)
=============================================================================
