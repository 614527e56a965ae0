----------------------------- MODULE FileServer -----------------------------
(***************************************************************************)
(* Uploads, downloads and prints of files: the sessions of the web server  *)
(* (src/web/WebServer.cpp, src/web/WebSession.cpp), the handlers that save,*)
(* send, delete and print files (src/api) and the directory they share.    *)
(*                                                                         *)
(* Handlers run on the event loop's thread, one at a time, up to the write *)
(* of their answer, which waits for the client.  The program may die in    *)
(* between two steps of one, and a file may fail to be written.            *)
(***************************************************************************)
EXTENDS FileManager, FiniteSets

CONSTANTS
    Clients,
    FdLimit,        \* descriptors the program may have
    MaxRequests,    \* requests the clients make
    MaxFaults       \* deaths and failed writes

ASSUME FileServerAssumption ==
    /\ Clients # {} /\ IsFiniteSet(Clients)
    /\ FdLimit \in Nat
    /\ MaxRequests \in Nat /\ MaxFaults \in Nat

VARIABLES
    up,             \* whether the program runs
    accepting,      \* whether async_accept is pending: "no" before the start,
                    \* "failed" after an accept that found no descriptor
    sess,           \* per client: how far his session is, and his request
    reader,         \* per client: the file that is being sent to him
    thread,         \* where in saveFile the thread is, and for whom
    disk,           \* the directory and its files
    job,            \* the print job, and its file
    leaked,         \* descriptors that nobody will close
    stored,         \* per name: the upload its client was told is stored
    uploads, requests, faults

vars == << up, accepting, sess, reader, thread, disk, job, leaked, stored,
           uploads, requests, faults >>

Ops == {"upload", "uploadAndPrint", "download", "delete", "print"}

(* none        no connection           asked      his request has been read *)
(* connecting  not accepted yet        answering  the answer is being sent  *)
(* reading     the next one is awaited large      in processLargeBody       *)
Stages == {"none", "connecting", "reading", "asked", "answering", "large"}
AnyName == CHOOSE n \in Names : TRUE

(* A session without a request that has not been answered. *)
At(stage) == [st |-> stage, op |-> "print", raw |-> AnyName]

Idle == [at |-> "idle", c |-> CHOOSE c \in Clients : TRUE]
NoJob == [st |-> "None", read |-> NotReading]

Init ==
    /\ up = TRUE /\ accepting = "yes"
    /\ sess = [c \in Clients |-> At("none")]
    /\ reader = [c \in Clients |-> NotReading]
    /\ thread = Idle
    /\ disk = EmptyDisk
    /\ job = NoJob
    /\ leaked = 0
    /\ stored = [n \in Names |-> 0]
    /\ uploads = 0 /\ requests = 0 /\ faults = 0

(* Descriptors: sockets, files being sent or received, the job's, the lost. *)
Used ==
    LET With(stages) == Cardinality({c \in Clients : sess[c].st \in stages})
    IN  With({"reading", "asked", "answering", "large"}) + With({"large"})
        + Cardinality({c \in Clients : reader[c].file # NoFile})
        + (IF job.read.file # NoFile THEN 1 ELSE 0) + leaked

CanOpen == Used < FdLimit

Free == up /\ thread.at = "idle"

-----------------------------------------------------------------------------
(* Connections. *)

Connect(c) ==
    /\ up /\ sess[c].st = "none"
    /\ sess' = [sess EXCEPT ![c] = At("connecting")]
    /\ UNCHANGED << up, accepting, reader, thread, disk, job, leaked, stored,
                    uploads, requests, faults >>

(* One connection is accepted. *)
AcceptOnce(c) ==
    /\ Free /\ accepting = "yes" /\ sess[c].st = "connecting"
    /\ accepting' = IF CanOpen THEN "no" ELSE "failed"
    /\ sess' = IF CanOpen THEN [sess EXCEPT ![c] = At("reading")] ELSE sess
    /\ UNCHANGED << up, reader, thread, disk, job, leaked, stored, uploads,
                    requests, faults >>

(* connectionAccepted: after an error nothing is accepted any more. *)
Accept(c) ==
    /\ Free /\ accepting = "yes" /\ sess[c].st = "connecting"
    /\ accepting' = IF CanOpen THEN "yes" ELSE "failed"
    /\ sess' = IF CanOpen THEN [sess EXCEPT ![c] = At("reading")] ELSE sess
    /\ UNCHANGED << up, reader, thread, disk, job, leaked, stored, uploads,
                    requests, faults >>

(* doRead has read a request whose body is not large. *)
Asks(c, op, raw) ==
    /\ Free /\ sess[c].st = "reading" /\ requests < MaxRequests
    /\ requests' = requests + 1
    /\ sess' = [sess EXCEPT ![c] = [st |-> "asked", op |-> op, raw |-> raw]]
    /\ UNCHANGED << up, accepting, reader, thread, disk, job, leaked, stored,
                    uploads, faults >>

(***************************************************************************)
(* A body of more than a megabyte: processLargeBody never takes what it    *)
(* has read into the buffer, and waits for more until the client is gone.  *)
(* If it cannot make the temporary file, the session ends.                 *)
(***************************************************************************)
AsksLarge(c) ==
    /\ Free /\ sess[c].st = "reading"
    /\ sess' = [sess EXCEPT ![c] = IF CanOpen THEN At("large") ELSE At("none")]
    /\ UNCHANGED << up, accepting, reader, thread, disk, job, leaked, stored,
                    uploads, requests, faults >>

(***************************************************************************)
(* The client goes, and his session ends with the exception of the read or *)
(* the write it is in, which closes what it has open but the descriptor of *)
(* a large body.                                                           *)
(***************************************************************************)
Leaves(c) ==
    /\ Free /\ sess[c].st \notin {"none", "asked"}
    /\ sess' = [sess EXCEPT ![c] = At("none")]
    /\ leaked' = leaked + (IF sess[c].st = "large" THEN 1 ELSE 0)
    /\ reader' = [reader EXCEPT ![c] = NotReading]
    /\ UNCHANGED << up, accepting, thread, disk, job, stored, uploads,
                    requests, faults >>

-----------------------------------------------------------------------------
(* Answers. *)

(* WebSession::send: the coroutine of c waits for the answer to be written. *)
Answer(c) == sess' = [sess EXCEPT ![c] = At("answering")]

(* A file that has become shorter leaves nothing to do but to go (Leaves). *)
SendsBlock(c) ==
    /\ Free /\ sess[c].st = "answering" /\ reader[c].file # NoFile
    /\ reader[c].pos < reader[c].size /\ ~AtEnd(disk, reader[c])
    /\ reader' = [reader EXCEPT ![c] = ReadBlock(disk, @)]
    /\ UNCHANGED << up, accepting, sess, thread, disk, job, leaked, stored,
                    uploads, requests, faults >>

(* The answer has been written, and the next request is awaited (run). *)
Answered(c) ==
    /\ Free /\ sess[c].st = "answering" /\ reader[c].pos = reader[c].size
    /\ sess' = [sess EXCEPT ![c] = At("reading")]
    /\ reader' = [reader EXCEPT ![c] = NotReading]
    /\ UNCHANGED << up, accepting, thread, disk, job, leaked, stored, uploads,
                    requests, faults >>

-----------------------------------------------------------------------------
(* Handlers. *)

Handles(c, ops) == Free /\ sess[c].st = "asked" /\ sess[c].op \in ops

(* restDownloadFile; not_found if the file cannot be opened. *)
Download(c) ==
    /\ Handles(c, {"download"})
    /\ LET f == Found(disk, sess[c].raw)
       IN  reader' = IF f # NoFile /\ CanOpen
                       THEN [reader EXCEPT ![c] = Opened(disk, f)] ELSE reader
    /\ Answer(c)
    /\ UNCHANGED << up, accepting, thread, disk, job, leaked, stored, uploads,
                    requests, faults >>

(* restDeleteFile; the file may be missing, or impossible to remove. *)
DeleteFile(c) ==
    /\ Handles(c, {"delete"})
    /\ \/ /\ Found(disk, sess[c].raw) # NoFile
          /\ disk' = Remove(disk, sess[c].raw)
          /\ stored' = [stored EXCEPT ![sess[c].raw] = 0]
       \/ UNCHANGED << disk, stored >>
    /\ Answer(c)
    /\ UNCHANGED << up, accepting, reader, thread, job, leaked, uploads,
                    requests, faults >>

(* A new job opens its file, and takes the place of one not in progress. *)
NewJob(d, f) ==
    job' = IF f # NoFile /\ CanOpen /\ job.st # "Running"
             THEN [st |-> "Running", read |-> Opened(d, f)] ELSE job

(* restSubmitJob *)
SubmitJob(c) ==
    /\ Handles(c, {"print"})
    /\ NewJob(disk, Found(disk, sess[c].raw))
    /\ Answer(c)
    /\ UNCHANGED << up, accepting, reader, thread, disk, leaked, stored,
                    uploads, requests, faults >>

Saving == SafeName[sess[thread.c].raw]

(* restUploadFile, octoprintUploadGcode: saveFile begins with a removal. *)
SaveRemoves(c) ==
    /\ Handles(c, {"upload", "uploadAndPrint"})
    /\ disk' = RemoveFirst(disk, SafeName[sess[c].raw])
    /\ stored' = [stored EXCEPT ![SafeName[sess[c].raw]] = 0]
    /\ thread' = [at |-> "removed", c |-> c]
    /\ UNCHANGED << up, accepting, sess, reader, job, leaked, uploads,
                    requests, faults >>

(* The removal fails, and the file is there to be written again. *)
SaveKeeps(c) ==
    /\ Handles(c, {"upload", "uploadAndPrint"}) /\ faults < MaxFaults
    /\ faults' = faults + 1
    /\ Found(disk, SafeName[sess[c].raw]) # NoFile
    /\ disk' = RemovalFails(disk, SafeName[sess[c].raw])
    /\ stored' = [stored EXCEPT ![SafeName[sess[c].raw]] = 0]
    /\ thread' = [at |-> "removed", c |-> c]
    /\ UNCHANGED << up, accepting, sess, reader, job, leaked, uploads, requests >>

(* It throws if it cannot open the file, and the old one is lost. *)
SaveOpens ==
    /\ up /\ thread.at = "removed"
    /\ IF CanOpen
         THEN /\ uploads' = uploads + 1
              /\ disk' = Open(disk, Saving, uploads + 1)
              /\ thread' = [thread EXCEPT !.at = "opened"]
              /\ UNCHANGED sess
         ELSE /\ Answer(thread.c) /\ thread' = Idle
              /\ UNCHANGED << disk, uploads >>
    /\ UNCHANGED << up, accepting, reader, job, leaked, stored, requests,
                    faults >>

(* The upload is answered, and printed if its client wanted that. *)
Created(d) ==
    /\ stored' = [stored EXCEPT ![Saving] = uploads]
    /\ IF sess[thread.c].op = "uploadAndPrint" THEN NewJob(d, d.dir[Saving])
       ELSE UNCHANGED job

SaveWrites ==
    /\ up /\ thread.at = "opened"
    /\ disk' = Fill(disk, Saving, Blocks)
    /\ Created(disk')
    /\ Answer(thread.c) /\ thread' = Idle
    /\ UNCHANGED << up, accepting, reader, leaked, uploads, requests, faults >>

(* A failed write that nobody notices. *)
WriteFailsUnnoticed ==
    /\ up /\ thread.at = "opened" /\ faults < MaxFaults
    /\ faults' = faults + 1
    /\ \E k \in 0..(Blocks - 1) : disk' = Fill(disk, Saving, k)
    /\ Created(disk')
    /\ Answer(thread.c) /\ thread' = Idle
    /\ UNCHANGED << up, accepting, reader, leaked, uploads, requests >>

(* The stream is bad: saveFile throws, and leaves what was written. *)
WriteFails ==
    /\ up /\ thread.at = "opened" /\ faults < MaxFaults
    /\ faults' = faults + 1
    /\ \E k \in 0..(Blocks - 1) : disk' = Fill(disk, Saving, k)
    /\ Answer(thread.c) /\ thread' = Idle
    /\ UNCHANGED << up, accepting, reader, job, leaked, stored, uploads,
                    requests >>

-----------------------------------------------------------------------------
(* The print job. *)

(* nextLine; the job is done when it finds no more. *)
JobReads ==
    /\ Free /\ job.st = "Running"
    /\ job' = IF AtEnd(disk, job.read) THEN [job EXCEPT !.st = "Done"]
              ELSE [job EXCEPT !.read = ReadBlock(disk, @)]
    /\ UNCHANGED << up, accepting, sess, reader, thread, disk, leaked, stored,
                    uploads, requests, faults >>

(* restModifyJob: a job can be stopped, and started again from the beginning. *)
JobStops ==
    /\ Free /\ job.st = "Running"
    /\ job' = [job EXCEPT !.st = "Stopped"]
    /\ UNCHANGED << up, accepting, sess, reader, thread, disk, leaked, stored,
                    uploads, requests, faults >>

JobRestarts ==
    /\ Free /\ job.st = "Stopped"
    /\ job' = [job EXCEPT !.st = "Running", !.read.pos = 0]
    /\ UNCHANGED << up, accepting, sess, reader, thread, disk, leaked, stored,
                    uploads, requests, faults >>

-----------------------------------------------------------------------------
(* Death and restart: what is on the disk stays. *)

Dies ==
    /\ up /\ faults < MaxFaults
    /\ faults' = faults + 1
    /\ up' = FALSE /\ accepting' = "no"
    /\ disk' \in {disk} \cup
         (IF thread.at = "opened" THEN {Fill(disk, Saving, k) : k \in 0..Blocks}
          ELSE {})
    /\ sess' = [c \in Clients |-> At("none")]
    /\ reader' = [c \in Clients |-> NotReading]
    /\ thread' = Idle /\ job' = NoJob /\ leaked' = 0
    /\ UNCHANGED << stored, uploads, requests >>

Restarts ==
    /\ ~up
    /\ up' = TRUE /\ accepting' = "yes"
    /\ UNCHANGED << sess, reader, thread, disk, job, leaked, stored, uploads,
                    requests, faults >>

Handle(c) ==
    \/ Download(c) \/ DeleteFile(c) \/ SubmitJob(c)
    \/ SaveRemoves(c) \/ SaveKeeps(c)

SaveFile == SaveOpens \/ SaveWrites \/ WriteFails

Next ==
    \/ \E c \in Clients :
         \/ Connect(c) \/ Accept(c) \/ AsksLarge(c) \/ Leaves(c)
         \/ \E op \in Ops, raw \in RawNames : Asks(c, op, raw)
         \/ Handle(c) \/ SendsBlock(c) \/ Answered(c)
    \/ SaveFile
    \/ JobReads \/ JobStops \/ JobRestarts
    \/ Dies \/ Restarts

Spec == Init /\ [][Next]_vars

(***************************************************************************)
(* The event loop takes its ready handlers in turn; clients, jobs and      *)
(* faults owe nothing.                                                     *)
(***************************************************************************)
Fairness ==
    /\ \A c \in Clients : WF_vars(Accept(c)) /\ WF_vars(Handle(c))
    /\ WF_vars(SaveFile)

FairSpec == Spec /\ Fairness

-----------------------------------------------------------------------------
Readers == [file : Nat, of : Nat, size : 0..Blocks, pos : 0..Blocks,
            got : SUBSET Nat]

(* Every variable keeps its type; nobody reads beyond the end of a file. *)
TypeOK ==
    /\ up \in BOOLEAN /\ accepting \in {"yes", "no", "failed"}
    /\ sess \in [Clients -> [st : Stages, op : Ops, raw : RawNames]]
    /\ reader \in [Clients -> Readers]
    /\ thread \in [at : {"idle", "removed", "opened"}, c : Clients]
    /\ disk \in Disks
    /\ job \in [st : {"None", "Running", "Stopped", "Done"}, read : Readers]
    /\ leaked \in Nat
    /\ stored \in [Names -> Nat]
    /\ uploads \in Nat /\ requests \in Nat /\ faults \in Nat

(***************************************************************************)
(* What is printed, and what is sent to a client, is the upload that was   *)
(* opened, all of it, whatever is uploaded or deleted meanwhile, unless    *)
(* the file system did not let saveFile remove the file.                   *)
(***************************************************************************)
ReadsOneUpload ==
    \A r \in {reader[c] : c \in Clients} \cup {job.read} :
      r.file \notin disk.kept \cup {NoFile} =>
        r.got \subseteq {r.of} /\ disk.files[r.file].blocks = r.size

(***************************************************************************)
(* An upload that was answered is in the directory, whole, until another   *)
(* request takes its name, through failed writes and restarts.             *)
(***************************************************************************)
AnsweredIsStored ==
    \A n \in Names : stored[n] # 0 =>
      /\ disk.dir[n] # NoFile
      /\ disk.files[disk.dir[n]] = [upload |-> stored[n], blocks |-> Blocks]

(***************************************************************************)
(* A client whose request is not large gets an answer, whatever fails, and *)
(* one that connects is accepted or goes, through other sessions, jobs and *)
(* restarts, until there is no descriptor left for an accept: the first    *)
(* one that meets the limit, be it for files, idle sessions or what large  *)
(* requests have lost, is the last.                                        *)
(***************************************************************************)
ClientsAreServed ==
    \A c \in Clients :
      /\ sess[c].st = "asked" ~> sess[c].st # "asked"
      /\ sess[c].st = "connecting" ~>
           sess[c].st # "connecting" \/ accepting = "failed"
=============================================================================
