---------------------------- MODULE EventChannel ----------------------------
(***************************************************************************)
(* What a browser is promised of the WebSocket (src/web/WebSocketHandler.h *)
(* and src/api/WebSockets.h): it receives the events that are raised for   *)
(* it, each once and in the order they were raised, and if its connection  *)
(* stays up it receives all of them.                                       *)
(***************************************************************************)
EXTENDS Naturals, Sequences

CONSTANT Clients

VARIABLES
    transit,        \* the events raised for a client that it has not had
    received,       \* those it has had
    up              \* whether its connection is up

vars == << transit, received, up >>

Init ==
    /\ transit = [c \in Clients |-> << >>]
    /\ received = [c \in Clients |-> << >>]
    /\ up = [c \in Clients |-> TRUE]

(* Any number of events, for any of the clients at once. *)
Raise ==
    /\ DOMAIN transit' = Clients
    /\ \A c \in Clients :
         /\ Len(transit'[c]) >= Len(transit[c])
         /\ SubSeq(transit'[c], 1, Len(transit[c])) = transit[c]
         /\ ~up[c] => transit'[c] = transit[c]
    /\ UNCHANGED << received, up >>

Deliver(c) ==
    /\ up[c] /\ transit[c] # << >>
    /\ received' = [received EXCEPT ![c] = Append(@, Head(transit[c]))]
    /\ transit' = [transit EXCEPT ![c] = Tail(@)]
    /\ UNCHANGED up

(* Connections break, and lose what was on its way. *)
Break ==
    /\ \E gone \in SUBSET Clients :
         /\ transit' = [c \in Clients |-> IF c \in gone THEN << >> ELSE transit[c]]
         /\ up' = [c \in Clients |-> up[c] /\ c \notin gone]
    /\ UNCHANGED received

Next == Raise \/ Break \/ \E c \in Clients : Deliver(c)

Spec == Init /\ [][Next]_vars
FairSpec == Spec /\ \A c \in Clients : WF_vars(Deliver(c))
=============================================================================
