--------------------------- MODULE MCPrintServer ---------------------------
(***************************************************************************)
(* Instances of PrintServer for TLC.  A budget bounds the events that      *)
(* could go on for ever; "all" bounds their sum, so that a run goes        *)
(* through every combination of that many of them.                         *)
(***************************************************************************)
EXTENDS PrintServer

(* The commands of files, and one that only users type in. *)
MCUserTexts == {"L1", "L2", "L3", "user"}

(* A user who changes the mode. *)
ModeUserTexts == {"L1", "L2", "L3", "M83"}

OneLine == << "L1" >>
TwoLines == << "L1", "L2" >>
ThreeLines == << "L1", "L2", "L3" >>
ModeLines == << "M83", "L2" >>

PluggedOrNot == {"present", "absent"}
AnyDevice == {"present", "absent", "refusing"}

(* n events in all, of each kind as many as limit says. *)
Only(n, limit) ==
    [k \in Kinds \cup {"all"} |->
       IF k = "all" THEN n ELSE IF k \in DOMAIN limit THEN limit[k] ELSE 0]

(* The connection: the port, the timers and what they interrupt. *)
ConnectionBudget ==
    Only(4, [start |-> 2, stop |-> 1, plug |-> 2, settings |-> 1])

(* Jobs that are interrupted and replaced, on a link that damages frames. *)
ResendBudget ==
    Only(7, [start |-> 1, submit |-> 2, corrupt |-> 3, poll |-> 1,
             gcode |-> 1, pause |-> 1, resume |-> 2, cancel |-> 1])

(* Next, with jobs that do not overlap. *)
JobsNext ==
    \/ RunIo \/ Timers \/ Link \/ FirmwareStep
    \/ StartPrinter \/ StopPrinter \/ ChangeSettings \/ ChangePath
    \/ SubmitGcode \/ SetTemperature \/ PauseJob \/ CancelJob \/ ResetRequest
    \/ SubmitJob /\ JobsApart
    \/ ResumeJob /\ JobsApart

JobsSpec == Init /\ [][JobsNext]_vars

(* A job, and one or two other things that happen to it. *)
TroubleBudget ==
    Only(4, [start |-> 1, submit |-> 1, doubleOk |-> 1, fail |-> 1,
             reboot |-> 1, pause |-> 1, resume |-> 1, cancel |-> 1,
             reset |-> 1, settings |-> 1])

(* A job or a request, and one thing that keeps it from being answered. *)
ProgressBudget ==
    Only(3, [start |-> 1, submit |-> 1, temps |-> 2, lose |-> 1, fail |-> 1,
             reset |-> 1, reboot |-> 1, plug |-> 2, stall |-> 1])

(* A printer that is reached over TCP, goes, or moves to a serial device. *)
SocketBudget ==
    Only(2, [start |-> 1, plug |-> 1, path |-> 1])

(* A device that rejects its settings until it is plugged in again. *)
StuckBudget == Only(3, [start |-> 1, plug |-> 2])

StartStopBudget == Only(2, [start |-> 1, stop |-> 1])
DamageBudget == Only(2, [start |-> 1, corrupt |-> 1])
=============================================================================
