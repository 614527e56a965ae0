------------------------------ MODULE PrintJob ------------------------------
(***************************************************************************)
(* Class PrintJob (src/PrintJob.cpp): the job reads a .gcode file line by  *)
(* line and keeps one line in flight, sending the next from the callback   *)
(* of the one before.  Every operator maps the Printer record to the       *)
(* record the method leaves; the job is its field job.                     *)
(***************************************************************************)
EXTENDS PrinterState

JobSetError(p) == [p EXCEPT !.job = [@ EXCEPT !.st = "Error"]]

(* nextLine: n more lines are more than the file still has. *)
ExhaustedEarly(p, n) == n >= Len(JobFile) - p.job.pos
Exhausted(p, n) == n > Len(JobFile) - p.job.pos

(* lineProcessed goes on with the next line only while the job runs. *)
ContinuesPaused(p) == p.job.st \in {"Running", "Paused"}
Continues(p) == p.job.st = "Running"

(***************************************************************************)
(* n calls of lineProcessed in a row, each of which calls printLine while  *)
(* the job is Running.  printLine takes the next line first, then fails    *)
(* the job if the printer is not Connected; at the end of the file the job *)
(* is Done and the calls that are left do nothing.  The reply is never     *)
(* looked at.                                                              *)
(***************************************************************************)
LinesProcessed(p, n) ==
    LET rest == Len(JobFile) - p.job.pos
        k == IF n <= rest THEN n ELSE rest
    IN  IF ~Continues(p) \/ n = 0 THEN p
        ELSE IF p.state # "Connected"
          THEN [p EXCEPT !.job =
                  [@ EXCEPT !.st = "Error",
                            !.pos = p.job.pos + (IF rest > 0 THEN 1 ELSE 0),
                            !.ended = p.job.ended \/ rest <= 0]]
        ELSE [p EXCEPT !.job =
                  [@ EXCEPT !.st = IF Exhausted(p, n) THEN "Done"
                                   ELSE "Running",
                            !.pos = p.job.pos + k,
                            !.ended = p.job.ended \/ Exhausted(p, n)],
                       !.io = @ \o [i \in 1..k |->
                                      Sending(JobFile[p.job.pos + i], "job")]]

PrintLine(p) == LinesProcessed(p, 1)

(* A resume that brings back the axes' mode only. *)
ResumeAxesOnly(saved) ==
    << "G0" >> \o (IF ~saved.rel THEN << "G90" >> ELSE << >>) \o << "M117" >>

(* The commands that undo the pause sequence, from the mode it saved. *)
ResumeSequence(saved) ==
    << "G0" >> \o
    (IF ~saved.rel
       THEN << "G90" >> \o (IF saved.erel THEN << "M83" >> ELSE << >>)
       ELSE IF ~saved.erel THEN << "M82" >> ELSE << >>)
    \o << "M117" >>

(* A start that does not rewind the file. *)
JobStartHere(p) ==
    IF p.job.st = "Paused"
      THEN PrintLine([SendCommands(p, ResumeSequence(p.job.saved))
                        EXCEPT !.job = [@ EXCEPT !.st = "Running"]])
    ELSE PrintLine([p EXCEPT !.job = [@ EXCEPT !.st = "Running"]])

(***************************************************************************)
(* Resumes a paused job, and starts any other from the beginning of its    *)
(* file.  Rewinding clears the stream's end-of-file flag but not its       *)
(* failure: if the file has been read past its end, nextLine finds neither *)
(* a line nor the end and loops.                                           *)
(***************************************************************************)
JobStart(p) ==
    IF p.job.st = "Paused"
      THEN PrintLine([SendCommands(p, ResumeSequence(p.job.saved))
                        EXCEPT !.job = [@ EXCEPT !.st = "Running"]])
    ELSE IF p.job.ended
      THEN [p EXCEPT !.job = [@ EXCEPT !.st = "Running"], !.halted = TRUE]
    ELSE PrintLine([p EXCEPT !.job = [@ EXCEPT !.st = "Running", !.pos = 0]])

JobStop(p) ==
    SendCommands([p EXCEPT !.job = [@ EXCEPT !.st = "Stopped"]],
                 << "M18", "M107", "M104", "M140", "G91", "G0" >>)

JobPause(p) ==
    SendCommands([p EXCEPT !.job = [@ EXCEPT !.st = "Paused",
                                             !.saved = p.mode]],
                 (IF ~p.mode.rel THEN << "G91" >> ELSE << >>)
                   \o << "G0", "M117" >>)
=============================================================================
