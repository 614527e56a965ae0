---------------------------- MODULE PrintService ----------------------------
(***************************************************************************)
(* What a user is promised of a print job (src/PrintJob.h and the requests *)
(* of src/api/PrintApi.cpp), without the printer's connection, protocol,   *)
(* queue or event loop: the lines of its file are printed in order, each   *)
(* given to the printer when the one before is printed and only while the  *)
(* job runs; it may fail at any time, and is Done only when all of it is   *)
(* printed.                                                                *)
(***************************************************************************)
EXTENDS Naturals, Sequences

CONSTANT File           \* the lines of the job's file

VARIABLES
    st,         \* PrintJob::State, or None before the first job
    given,      \* how many of the lines the job has given to the printer
    printed     \* what the printer has executed of the job

vars == << st, given, printed >>

InProgress == st \in {"Running", "Paused"}

Init == st = "None" /\ given = 0 /\ printed = << >>

(* Not while a job is in progress.  It may be started at once, and fail. *)
Submit ==
    /\ ~InProgress
    /\ st' \in {"Stopped", "Running", "Error"}
    /\ given' = IF st' = "Stopped" THEN 0 ELSE 1
    /\ printed' = << >>

GiveLine ==
    /\ st = "Running"
    /\ given = Len(printed) /\ given < Len(File)
    /\ given' = given + 1
    /\ UNCHANGED << st, printed >>

(* A line that was given is printed even if the job no longer runs. *)
PrintLine ==
    /\ Len(printed) < given /\ given <= Len(File)
    /\ printed' = Append(printed, File[Len(printed) + 1])
    /\ UNCHANGED << st, given >>

Finish ==
    /\ st = "Running" /\ printed = File
    /\ st' = "Done"
    /\ UNCHANGED << given, printed >>

(* A failure of the printer marks its last job, be it over or not. *)
Fail ==
    /\ st # "None"
    /\ st' = "Error"
    /\ given' \in {given, given + 1}
    /\ UNCHANGED printed

Pause ==
    /\ st = "Running"
    /\ st' = "Paused"
    /\ UNCHANGED << given, printed >>

(* With the next line.  A job that was paused in its last line is over. *)
Resume ==
    /\ st = "Paused"
    /\ \/ /\ given = Len(printed) /\ given < Len(File)
          /\ st' \in {"Running", "Error"}
          /\ given' = given + 1
       \/ /\ printed = File
          /\ st' = "Done"
          /\ UNCHANGED given
    /\ UNCHANGED printed

Cancel ==
    /\ InProgress
    /\ st' = "Stopped"
    /\ UNCHANGED << given, printed >>

Next ==
    \/ Submit \/ GiveLine \/ PrintLine \/ Finish \/ Fail \/ Pause \/ Resume
    \/ Cancel

Spec == Init /\ [][Next]_vars
=============================================================================
