-------------------------- MODULE FileServerProofs --------------------------
(***************************************************************************)
(* Theorems about FileServer: every job and download reads one upload, and *)
(* an upload that was answered is stored.                                  *)
(***************************************************************************)
EXTENDS FileServer, TLAPS

(* Names lead to files there are, and no two names to the same one. *)
DiskOK(d) ==
    /\ d \in Disks
    /\ \A n \in Names : d.dir[n] <= Len(d.files)
    /\ \A m, n \in Names : d.dir[m] = d.dir[n] /\ d.dir[m] # NoFile => m = n

(***************************************************************************)
(* The file that is open is still what it was, and only it has been read,  *)
(* unless it could not be removed.                                         *)
(***************************************************************************)
ReaderOK(d, r) ==
    /\ r.file <= Len(d.files)
    /\ r.file \notin d.kept \cup {NoFile} =>
         /\ d.files[r.file] = [upload |-> r.of, blocks |-> r.size]
         /\ r.got \subseteq {r.of}

ReadersOK ==
    /\ \A c \in Clients : ReaderOK(disk, reader[c])
    /\ ReaderOK(disk, job.read)
    /\ job.st # "None" => job.read.file # NoFile

(***************************************************************************)
(* While a file is saved, its name has none, or a new one that nobody has  *)
(* open, or one that could not be removed, and nothing is said to be       *)
(* stored under it.                                                        *)
(***************************************************************************)
SaveOK ==
    /\ thread.at # "idle" => sess[thread.c].st = "asked" /\ stored[Saving] = 0
    /\ thread.at = "removed" => disk.dir[Saving] \in disk.kept \cup {NoFile}
    /\ thread.at = "opened" =>
         /\ disk.dir[Saving] # NoFile
         /\ disk.files[disk.dir[Saving]].upload = uploads
         /\ disk.dir[Saving] \notin disk.kept =>
              /\ \A c \in Clients : reader[c].file # disk.dir[Saving]
              /\ job.read.file # disk.dir[Saving]

IInv == TypeOK /\ DiskOK(disk) /\ ReadersOK /\ SaveOK /\ AnsweredIsStored

-----------------------------------------------------------------------------
(* The directory. *)

LEMMA FilesAreContents ==
    ASSUME NEW d, DiskOK(d), NEW f \in Nat, f # NoFile, f <= Len(d.files)
    PROVE  /\ f \in 1..Len(d.files) /\ d.files[f] \in Contents
           /\ d.files[f].upload \in Nat /\ d.files[f].blocks \in 0..Blocks
<1>1. f \in 1..Len(d.files) /\ d.files[f] \in Contents
  BY DEF DiskOK, Disks, NoFile
<1>2. QED
  BY <1>1 DEF Contents

(* A name is removed: its file stays for those who have it open. *)
LEMMA RemoveKeeps ==
    ASSUME NEW d, DiskOK(d), NEW n \in Names
    PROVE  /\ DiskOK(Remove(d, n))
           /\ Remove(d, n).files = d.files /\ Remove(d, n).kept = d.kept
           /\ Remove(d, n).dir = [d.dir EXCEPT ![n] = NoFile]
<1>1. /\ Remove(d, n).files = d.files /\ Remove(d, n).kept = d.kept
      /\ Remove(d, n).dir = [d.dir EXCEPT ![n] = NoFile]
  BY DEF Remove, DiskOK, Disks
<1>2. Remove(d, n) \in Disks
  BY DEF Remove, DiskOK, Disks, NoFile
<1>3. QED
  BY <1>1, <1>2 DEF DiskOK, Disks, NoFile

(* A removal fails: all that changes is that this is known. *)
LEMMA FailedRemoval ==
    ASSUME NEW d, DiskOK(d), NEW n \in Names
    PROVE  /\ DiskOK(RemovalFails(d, n))
           /\ RemovalFails(d, n).files = d.files
           /\ RemovalFails(d, n).dir = d.dir
           /\ RemovalFails(d, n).kept = d.kept \cup {d.dir[n]}
<1>1. /\ RemovalFails(d, n).files = d.files
      /\ RemovalFails(d, n).dir = d.dir
      /\ RemovalFails(d, n).kept = d.kept \cup {d.dir[n]}
  BY DEF RemovalFails, DiskOK, Disks
<1>2. RemovalFails(d, n) \in Disks
  BY DEF RemovalFails, DiskOK, Disks
<1>3. QED
  BY <1>1, <1>2 DEF DiskOK, Disks

(* A name without a file gets a new one. *)
LEMMA OpenCreates ==
    ASSUME NEW d, DiskOK(d), NEW n \in Names, d.dir[n] = NoFile, NEW u \in Nat
    PROVE  /\ DiskOK(Open(d, n, u))
           /\ Len(Open(d, n, u).files) = Len(d.files) + 1
           /\ \A f \in 1..Len(d.files) : Open(d, n, u).files[f] = d.files[f]
           /\ Open(d, n, u).files[Len(d.files) + 1] = [upload |-> u, blocks |-> 0]
           /\ Open(d, n, u).dir = [d.dir EXCEPT ![n] = Len(d.files) + 1]
           /\ Open(d, n, u).kept = d.kept
<1> DEFINE new == [upload |-> u, blocks |-> 0]
           fs == Append(d.files, new)
           dir == [d.dir EXCEPT ![n] = Len(d.files) + 1]
           o == Open(d, n, u)
<1>1. new \in Contents
  BY NamesAssumption DEF Contents
<1>2. o = [dir |-> dir, files |-> fs, kept |-> d.kept]
  BY DEF Open, DiskOK, Disks
<1>3. /\ fs \in Seq(Contents) /\ Len(fs) = Len(d.files) + 1
      /\ \A f \in 1..Len(d.files) : fs[f] = d.files[f]
      /\ fs[Len(d.files) + 1] = new
  <2>1. d.files \in Seq(Contents)
    BY DEF DiskOK, Disks
  <2> HIDE DEF new
  <2>2. QED
    BY <1>1, <2>1
<1>4. dir \in [Names -> Nat]
  BY DEF DiskOK, Disks
<1>5. o.dir = dir /\ o.files = fs /\ o.kept = d.kept
  BY <1>2
<1>6. DiskOK(o)
  <2>1. o \in Disks
    <3>1. d.kept \in SUBSET Nat
      BY DEF DiskOK, Disks
    <3> HIDE DEF dir, fs, o
    <3>2. QED
      BY <1>2, <1>3, <1>4, <3>1 DEF Disks
  <2>2. \A m \in Names : dir[m] = IF m = n THEN Len(d.files) + 1 ELSE d.dir[m]
    BY DEF DiskOK, Disks
  <2>3. Len(d.files) \in Nat
    BY DEF DiskOK, Disks
  <2> HIDE DEF dir, fs, o
  <2>4. \A m \in Names : o.dir[m] <= Len(o.files)
    BY <1>3, <1>5, <2>2, <2>3 DEF DiskOK, Disks
  <2>5. \A m, k \in Names : o.dir[m] = o.dir[k] /\ o.dir[m] # NoFile => m = k
    BY <1>5, <2>2, <2>3 DEF DiskOK, Disks, NoFile
  <2>6. QED
    BY <2>1, <2>4, <2>5 DEF DiskOK, Disks
<1>7. QED
  BY <1>3, <1>5, <1>6

(* A name with a file keeps it, and the file is empty. *)
LEMMA OpenTruncates ==
    ASSUME NEW d, DiskOK(d), NEW n \in Names, d.dir[n] # NoFile, NEW u \in Nat
    PROVE  /\ DiskOK(Open(d, n, u))
           /\ Open(d, n, u).dir = d.dir /\ Open(d, n, u).kept = d.kept
           /\ Len(Open(d, n, u).files) = Len(d.files)
           /\ \A f \in 1..Len(d.files) : f # d.dir[n] =>
                Open(d, n, u).files[f] = d.files[f]
           /\ Open(d, n, u).files[d.dir[n]] = [upload |-> u, blocks |-> 0]
<1> DEFINE i == d.dir[n]
           new == [upload |-> u, blocks |-> 0]
           fs == [d.files EXCEPT ![i] = new]
           o == Open(d, n, u)
<1>1. i \in 1..Len(d.files)
  BY DEF DiskOK, Disks, NoFile
<1>2. new \in Contents
  BY NamesAssumption DEF Contents
<1>3. o = [d EXCEPT !.files = fs]
  BY DEF Open
<1>4. o.dir = d.dir /\ o.files = fs /\ o.kept = d.kept
  BY <1>3 DEF DiskOK, Disks
<1>5. /\ fs \in Seq(Contents) /\ Len(fs) = Len(d.files)
      /\ \A f \in 1..Len(d.files) : f # i => fs[f] = d.files[f]
      /\ fs[i] = new
  <2>1. d.files \in Seq(Contents)
    BY DEF DiskOK, Disks
  <2> HIDE DEF new, i
  <2>2. QED
    BY <1>1, <1>2, <2>1
<1>6. DiskOK(o)
  <2>1. o \in Disks
    <3> HIDE DEF fs, o
    <3>1. QED
      BY <1>3, <1>5 DEF DiskOK, Disks
  <2>2. QED
    BY <1>4, <1>5, <2>1 DEF DiskOK, Disks
<1>7. QED
  BY <1>4, <1>5, <1>6

(* The file of a name is filled: no other changes. *)
LEMMA FillKeeps ==
    ASSUME NEW d, DiskOK(d), NEW n \in Names, d.dir[n] # NoFile, NEW k \in 0..Blocks
    PROVE  /\ DiskOK(Fill(d, n, k))
           /\ Fill(d, n, k).dir = d.dir /\ Fill(d, n, k).kept = d.kept
           /\ Len(Fill(d, n, k).files) = Len(d.files)
           /\ \A f \in 1..Len(d.files) : f # d.dir[n] =>
                Fill(d, n, k).files[f] = d.files[f]
           /\ Fill(d, n, k).files[d.dir[n]]
                = [upload |-> d.files[d.dir[n]].upload, blocks |-> k]
<1> DEFINE i == d.dir[n]
           new == [d.files[i] EXCEPT !.blocks = k]
           fs == [d.files EXCEPT ![i] = new]
           o == Fill(d, n, k)
<1>1. i \in 1..Len(d.files) /\ d.files[i] \in Contents
  <2>1. i \in Nat /\ i <= Len(d.files)
    BY DEF DiskOK, Disks
  <2>2. QED
    BY <2>1, FilesAreContents
<1>2. new \in Contents /\ new = [upload |-> d.files[i].upload, blocks |-> k]
  BY <1>1 DEF Contents
<1>3. o = [d EXCEPT !.files = fs]
  BY DEF Fill
<1>4. o.dir = d.dir /\ o.files = fs /\ o.kept = d.kept
  BY <1>3 DEF DiskOK, Disks
<1>5. /\ fs \in Seq(Contents) /\ Len(fs) = Len(d.files)
      /\ \A f \in 1..Len(d.files) : f # i => fs[f] = d.files[f]
      /\ fs[i] = new
  <2>1. d.files \in Seq(Contents)
    BY DEF DiskOK, Disks
  <2> HIDE DEF new, i
  <2>2. QED
    BY <1>1, <1>2, <2>1
<1>6. DiskOK(o)
  <2>1. o \in Disks
    <3> HIDE DEF fs, o
    <3>1. QED
      BY <1>3, <1>5 DEF DiskOK, Disks
  <2>2. QED
    BY <1>4, <1>5, <2>1 DEF DiskOK, Disks
<1>7. QED
  BY <1>2, <1>4, <1>5, <1>6

(* One who opens a file, and reads on, has read that file only. *)
LEMMA OpenedOK ==
    ASSUME NEW d, DiskOK(d), NEW f \in Nat, f # NoFile, f <= Len(d.files)
    PROVE  /\ Opened(d, f) \in Readers /\ ReaderOK(d, Opened(d, f))
           /\ Opened(d, f).file = f
<1>1. /\ d.files[f] \in Contents
      /\ d.files[f].upload \in Nat /\ d.files[f].blocks \in 0..Blocks
  BY FilesAreContents
<1>2. d.files[f] = [upload |-> d.files[f].upload, blocks |-> d.files[f].blocks]
  BY <1>1 DEF Contents
<1>3. 0 \in 0..Blocks
  BY NamesAssumption
<1>4. Opened(d, f) \in Readers
  BY <1>1, <1>3 DEF Opened, Readers
<1>5. ReaderOK(d, Opened(d, f))
  BY <1>2 DEF Opened, ReaderOK
<1>6. QED
  BY <1>4, <1>5 DEF Opened

LEMMA ReadBlockOK ==
    ASSUME NEW d, DiskOK(d), NEW r \in Readers, ReaderOK(d, r),
           r.file # NoFile, ~AtEnd(d, r)
    PROVE  /\ ReadBlock(d, r) \in Readers /\ ReaderOK(d, ReadBlock(d, r))
           /\ ReadBlock(d, r).file = r.file
<1>1. r.file \in Nat /\ r.pos \in Nat /\ r.of \in Nat /\ r.got \in SUBSET Nat
      /\ r.file <= Len(d.files)
  BY NamesAssumption DEF Readers, ReaderOK
<1>2. d.files[r.file].upload \in Nat /\ d.files[r.file].blocks \in 0..Blocks
  BY <1>1, FilesAreContents
<1>3. r.pos + 1 \in 0..Blocks
  BY <1>1, <1>2, NamesAssumption DEF AtEnd
<1>4. r.got \cup {d.files[r.file].upload} \in SUBSET Nat
  BY <1>1, <1>2
<1> DEFINE q == r.pos + 1
           g == r.got \cup {d.files[r.file].upload}
<1>5. ReadBlock(d, r) = [r EXCEPT !.pos = q, !.got = g]
  BY DEF ReadBlock
<1>6. q \in 0..Blocks /\ g \in SUBSET Nat
  BY <1>3, <1>4
<1>7. r.file \notin d.kept \cup {NoFile} =>
        /\ d.files[r.file] = [upload |-> r.of, blocks |-> r.size]
        /\ g \subseteq {r.of}
  BY DEF ReaderOK
<1> HIDE DEF q, g
<1>8. ReadBlock(d, r) \in Readers
  BY <1>5, <1>6 DEF Readers
<1>9. /\ ReadBlock(d, r).file = r.file /\ ReadBlock(d, r).of = r.of
      /\ ReadBlock(d, r).size = r.size /\ ReadBlock(d, r).got = g
  BY <1>5 DEF Readers
<1>10. QED
  BY <1>1, <1>7, <1>8, <1>9 DEF ReaderOK

LEMMA NotReadingOK ==
    /\ NotReading \in Readers /\ NotReading.file = NoFile
    /\ \A d : DiskOK(d) => ReaderOK(d, NotReading)
<1>1. 0 \in 0..Blocks
  BY NamesAssumption
<1>2. NotReading \in Readers /\ NotReading.file = NoFile
  BY <1>1 DEF NotReading, Readers, NoFile
<1>3. \A d : DiskOK(d) => Len(d.files) \in Nat
  BY DEF DiskOK, Disks
<1>4. QED
  BY <1>2, <1>3 DEF ReaderOK, NoFile

LEMMA SessionTypes ==
    /\ \A st \in Stages : At(st) \in [st : Stages, op : Ops, raw : RawNames]
    /\ \A st : At(st).st = st
    /\ Idle \in [at : {"idle", "removed", "opened"}, c : Clients] /\ Idle.at = "idle"
<1>1. AnyName \in RawNames
  BY NamesAssumption DEF AnyName
<1>2. (CHOOSE c \in Clients : TRUE) \in Clients
  BY FileServerAssumption
<1>3. QED
  BY <1>1, <1>2 DEF At, Idle, Ops
-----------------------------------------------------------------------------
(* The invariant. *)

LEMMA InitInvariant == Init => IInv
<1> SUFFICES ASSUME Init PROVE IInv
  OBVIOUS
<1> USE DEF Init
<1>1. DiskOK(disk)
  <2>1. << >> \in Seq(Contents) /\ Len(<< >>) = 0
    OBVIOUS
  <2>2. [n \in Names |-> NoFile] \in [Names -> Nat]
    BY DEF NoFile
  <2>3. QED
    BY <2>1, <2>2 DEF DiskOK, Disks, EmptyDisk, NoFile
<1>2. TypeOK
  <2>1. sess \in [Clients -> [st : Stages, op : Ops, raw : RawNames]]
    BY SessionTypes DEF Stages
  <2>2. reader \in [Clients -> Readers]
    BY NotReadingOK
  <2>3. job \in [st : {"None", "Running", "Stopped", "Done"}, read : Readers]
    BY NotReadingOK DEF NoJob
  <2>4. thread \in [at : {"idle", "removed", "opened"}, c : Clients]
    BY SessionTypes
  <2>5. disk \in Disks
    BY <1>1 DEF DiskOK, Disks
  <2>6. stored \in [Names -> Nat]
    OBVIOUS
  <2>7. QED
    BY <2>1, <2>2, <2>3, <2>4, <2>5, <2>6 DEF TypeOK
<1>3. ReadersOK
  BY <1>1, NotReadingOK DEF ReadersOK, NoJob
<1>4. SaveOK
  BY SessionTypes DEF SaveOK
<1>5. AnsweredIsStored
  BY DEF AnsweredIsStored
<1>6. QED
  BY <1>1, <1>2, <1>3, <1>4, <1>5 DEF IInv

(***************************************************************************)
(* A step that leaves the directory alone: the types and the readers are   *)
(* left to look at.                                                        *)
(***************************************************************************)
LEMMA DiskUnchanged ==
    ASSUME IInv, UNCHANGED << disk, thread, stored, uploads >>,
           TypeOK', ReadersOK',
           \/ thread.at = "idle"
           \/ sess'[thread.c] = sess[thread.c] /\ UNCHANGED << reader, job >>
    PROVE  IInv'
<1>1. DiskOK(disk') /\ AnsweredIsStored'
  BY DEF IInv, AnsweredIsStored
<1>2. SaveOK'
  <2>1. CASE thread.at = "idle"
    BY <2>1 DEF SaveOK
  <2>2. CASE sess'[thread.c] = sess[thread.c] /\ UNCHANGED << reader, job >>
    BY <2>2 DEF IInv, SaveOK, Saving
  <2>3. QED
    BY <2>1, <2>2
<1>3. QED
  BY <1>1, <1>2 DEF IInv

(* A step of a client that changes his session only. *)
LEMMA SessionSteps ==
    ASSUME IInv, NEW c \in Clients,
           NEW s \in [st : Stages, op : Ops, raw : RawNames],
           sess' = [sess EXCEPT ![c] = s],
           thread.at = "idle" \/ sess[c].st = "none",
           up' \in BOOLEAN, accepting' \in {"yes", "no", "failed"}, requests' \in Nat,
           UNCHANGED << disk, thread, stored, uploads, reader, job, leaked, faults >>
    PROVE  IInv'
<1>1. TypeOK'
  BY DEF IInv, TypeOK
<1>2. ReadersOK'
  BY DEF IInv, ReadersOK
<1>3. \/ thread.at = "idle"
      \/ sess'[thread.c] = sess[thread.c] /\ UNCHANGED << reader, job >>
  BY DEF IInv, SaveOK, TypeOK
<1>4. QED
  BY <1>1, <1>2, <1>3, DiskUnchanged

(* A step that changes what one client reads, and his session. *)
LEMMA ReaderSteps ==
    ASSUME IInv, thread.at = "idle", NEW c \in Clients,
           NEW s \in [st : Stages, op : Ops, raw : RawNames],
           NEW r \in Readers, ReaderOK(disk, r),
           sess' = [sess EXCEPT ![c] = s], reader' = [reader EXCEPT ![c] = r],
           leaked' \in Nat,
           UNCHANGED << up, accepting, disk, thread, stored, uploads, job,
                        requests, faults >>
    PROVE  IInv'
<1>1. TypeOK'
  BY DEF IInv, TypeOK
<1>2. ReadersOK'
  BY DEF IInv, ReadersOK, TypeOK
<1>3. QED
  BY <1>1, <1>2, DiskUnchanged

(* A step of the print job. *)
LEMMA JobSteps ==
    ASSUME IInv, thread.at = "idle",
           NEW st \in {"None", "Running", "Stopped", "Done"},
           NEW r \in Readers, ReaderOK(disk, r), st # "None" => r.file # NoFile,
           job' = [st |-> st, read |-> r],
           sess' \in [Clients -> [st : Stages, op : Ops, raw : RawNames]],
           UNCHANGED << up, accepting, reader, disk, thread, stored, uploads,
                        leaked, requests, faults >>
    PROVE  IInv'
<1>1. job' \in [st : {"None", "Running", "Stopped", "Done"}, read : Readers]
      /\ job'.read = r /\ job'.st = st
  OBVIOUS
<1>2. TypeOK'
  BY <1>1 DEF IInv, TypeOK
<1>3. ReadersOK'
  BY <1>1 DEF IInv, ReadersOK
<1>4. QED
  BY <1>2, <1>3, DiskUnchanged

LEMMA ConnectionInvariant ==
    ASSUME IInv, NEW c \in Clients,
           \/ Connect(c) \/ Accept(c) \/ AsksLarge(c)
           \/ \E op \in Ops, raw \in RawNames : Asks(c, op, raw)
    PROVE  IInv'
<1> USE SessionTypes DEF Free
<1>0. UNCHANGED << disk, thread, stored, uploads, reader, job, leaked, faults >>
      /\ up' \in BOOLEAN /\ requests' \in Nat
  BY DEF Connect, Accept, AsksLarge, Asks, IInv, TypeOK
<1>1. CASE Connect(c)
  <2>1. At("connecting") \in [st : Stages, op : Ops, raw : RawNames]
    BY DEF Stages
  <2>2. /\ sess' = [sess EXCEPT ![c] = At("connecting")] /\ sess[c].st = "none"
        /\ accepting' \in {"yes", "no", "failed"}
    BY <1>1 DEF Connect, IInv, TypeOK
  <2>3. QED
    BY <1>0, <2>1, <2>2, SessionSteps
<1>2. CASE Accept(c)
  <2>1. At("reading") \in [st : Stages, op : Ops, raw : RawNames]
    BY DEF Stages
  <2>2. sess[c] \in [st : Stages, op : Ops, raw : RawNames]
        /\ sess = [sess EXCEPT ![c] = sess[c]]
    BY DEF IInv, TypeOK
  <2>3. accepting' \in {"yes", "no", "failed"} /\ thread.at = "idle"
    BY <1>2 DEF Accept, CanOpen
  <2>4. CASE CanOpen
    BY <1>0, <1>2, <2>1, <2>3, <2>4, SessionSteps DEF Accept
  <2>5. CASE ~CanOpen
    <3>1. sess' = [sess EXCEPT ![c] = sess[c]]
      BY <1>2, <2>2, <2>5 DEF Accept
    <3>2. QED
      BY <1>0, <2>2, <2>3, <3>1, SessionSteps
  <2>6. QED
    BY <2>4, <2>5
<1>3. CASE AsksLarge(c)
  <2> DEFINE s == IF CanOpen THEN At("large") ELSE At("none")
  <2>1. s \in [st : Stages, op : Ops, raw : RawNames]
    BY DEF Stages
  <2>2. /\ sess' = [sess EXCEPT ![c] = s] /\ thread.at = "idle"
        /\ accepting' \in {"yes", "no", "failed"}
    BY <1>3 DEF AsksLarge, IInv, TypeOK
  <2> HIDE DEF s
  <2>3. QED
    BY <1>0, <2>1, <2>2, SessionSteps
<1>4. ASSUME NEW op \in Ops, NEW raw \in RawNames, Asks(c, op, raw)
      PROVE  IInv'
  <2> DEFINE s == [st |-> "asked", op |-> op, raw |-> raw]
  <2>1. s \in [st : Stages, op : Ops, raw : RawNames]
    BY DEF Stages
  <2>2. /\ sess' = [sess EXCEPT ![c] = s] /\ thread.at = "idle"
        /\ accepting' \in {"yes", "no", "failed"}
    BY <1>4 DEF Asks, IInv, TypeOK
  <2> HIDE DEF s
  <2>3. QED
    BY <1>0, <2>1, <2>2, SessionSteps
<1>5. QED
  BY <1>1, <1>2, <1>3, <1>4

LEMMA AnswerInvariant ==
    ASSUME IInv, NEW c \in Clients,
           Leaves(c) \/ SendsBlock(c) \/ Answered(c) \/ Download(c)
    PROVE  IInv'
<1> USE SessionTypes DEF Free, Handles, Answer
<1>0. /\ thread.at = "idle"
      /\ UNCHANGED << up, accepting, disk, thread, stored, uploads, job,
                      requests, faults >>
      /\ reader[c] \in Readers /\ ReaderOK(disk, reader[c]) /\ DiskOK(disk)
      /\ reader = [reader EXCEPT ![c] = reader[c]]
      /\ sess[c] \in [st : Stages, op : Ops, raw : RawNames]
      /\ sess = [sess EXCEPT ![c] = sess[c]]
  BY DEF Leaves, SendsBlock, Answered, Download, IInv, TypeOK, ReadersOK
<1>1. /\ At("none") \in [st : Stages, op : Ops, raw : RawNames]
      /\ At("reading") \in [st : Stages, op : Ops, raw : RawNames]
      /\ At("answering") \in [st : Stages, op : Ops, raw : RawNames]
      /\ NotReading \in Readers /\ ReaderOK(disk, NotReading)
  BY <1>0, NotReadingOK DEF Stages
<1>2. CASE Leaves(c)
  <2>1. leaked' \in Nat
    BY <1>2 DEF Leaves, IInv, TypeOK
  <2>2. sess' = [sess EXCEPT ![c] = At("none")]
        /\ reader' = [reader EXCEPT ![c] = NotReading]
    BY <1>2 DEF Leaves
  <2>3. QED
    BY <1>0, <1>1, <2>1, <2>2, ReaderSteps
<1>3. CASE SendsBlock(c)
  <2>1. leaked' \in Nat /\ sess' = [sess EXCEPT ![c] = sess[c]]
    BY <1>0, <1>3 DEF SendsBlock, IInv, TypeOK
  <2>2. /\ ReadBlock(disk, reader[c]) \in Readers
        /\ ReaderOK(disk, ReadBlock(disk, reader[c]))
        /\ reader' = [reader EXCEPT ![c] = ReadBlock(disk, reader[c])]
    BY <1>0, <1>3, ReadBlockOK DEF SendsBlock
  <2>3. QED
    BY <1>0, <2>1, <2>2, ReaderSteps
<1>4. CASE Answered(c)
  <2>1. leaked' \in Nat
    BY <1>4 DEF Answered, IInv, TypeOK
  <2>2. sess' = [sess EXCEPT ![c] = At("reading")]
        /\ reader' = [reader EXCEPT ![c] = NotReading]
    BY <1>4 DEF Answered
  <2>3. QED
    BY <1>0, <1>1, <2>1, <2>2, ReaderSteps
<1>5. CASE Download(c)
  <2> DEFINE f == Found(disk, sess[c].raw)
             r == IF f # NoFile /\ CanOpen THEN Opened(disk, f) ELSE reader[c]
  <2>1. f \in Nat /\ f <= Len(disk.files)
    BY <1>0 DEF Found, DiskOK, Disks, NoFile
  <2>2. r \in Readers /\ ReaderOK(disk, r)
    <3> HIDE DEF f
    <3>1. QED
      BY <1>0, <2>1, OpenedOK
  <2>3. reader' = [reader EXCEPT ![c] = r] /\ sess' = [sess EXCEPT ![c] = At("answering")]
    BY <1>0, <1>5 DEF Download
  <2>4. leaked' \in Nat
    BY <1>5 DEF Download, IInv, TypeOK
  <2> HIDE DEF f, r
  <2>5. QED
    BY <1>0, <1>1, <2>2, <2>3, <2>4, ReaderSteps
<1>6. QED
  BY <1>2, <1>3, <1>4, <1>5

(* The new job, or the one there was, of a directory d. *)
LEMMA NewJobOK ==
    ASSUME NEW d, DiskOK(d), NEW f \in Nat, f <= Len(d.files),
           job \in [st : {"None", "Running", "Stopped", "Done"}, read : Readers],
           ReaderOK(d, job.read), job.st # "None" => job.read.file # NoFile,
           NewJob(d, f)
    PROVE  \E st \in {"None", "Running", "Stopped", "Done"}, r \in Readers :
             /\ ReaderOK(d, r) /\ job' = [st |-> st, read |-> r]
             /\ st # "None" => r.file # NoFile
             /\ r.file \in {f, job.read.file}
<1>1. CASE f # NoFile /\ CanOpen /\ job.st # "Running"
  <2>1. job' = [st |-> "Running", read |-> Opened(d, f)]
    BY <1>1 DEF NewJob
  <2>2. Opened(d, f) \in Readers /\ ReaderOK(d, Opened(d, f))
        /\ Opened(d, f).file = f
    BY <1>1, OpenedOK
  <2> DEFINE o == Opened(d, f)
  <2> HIDE DEF o
  <2>3. QED
    BY <1>1, <2>1, <2>2 DEF o
<1>2. CASE ~(f # NoFile /\ CanOpen /\ job.st # "Running")
  <2>1. /\ job' = [st |-> job.st, read |-> job.read]
        /\ job.st \in {"None", "Running", "Stopped", "Done"} /\ job.read \in Readers
    BY <1>2 DEF NewJob
  <2>2. QED
    BY <1>2, <2>1
<1>3. QED
  BY <1>1, <1>2

LEMMA JobInvariant ==
    ASSUME IInv,
           \/ JobReads \/ JobStops \/ JobRestarts
           \/ \E c \in Clients : SubmitJob(c)
    PROVE  IInv'
<1> USE DEF Free
<1>0. /\ job \in [st : {"None", "Running", "Stopped", "Done"}, read : Readers]
      /\ job.read \in Readers /\ ReaderOK(disk, job.read) /\ DiskOK(disk)
      /\ job = [st |-> job.st, read |-> job.read]
      /\ job.st # "None" => job.read.file # NoFile
      /\ sess \in [Clients -> [st : Stages, op : Ops, raw : RawNames]]
  BY DEF IInv, TypeOK, ReadersOK
<1>1. CASE JobReads
  <2>1. CASE AtEnd(disk, job.read)
    <3>1. job' = [st |-> "Done", read |-> job.read] /\ job.read.file # NoFile
      BY <1>0, <1>1, <2>1 DEF JobReads
    <3>2. QED
      BY <1>0, <1>1, <3>1, JobSteps DEF JobReads
  <2>2. CASE ~AtEnd(disk, job.read) /\ job.read.file # NoFile
    <3>1. job' = [st |-> job.st, read |-> ReadBlock(disk, job.read)]
      BY <1>0, <1>1, <2>2 DEF JobReads
    <3>2. ReadBlock(disk, job.read) \in Readers
          /\ ReaderOK(disk, ReadBlock(disk, job.read))
          /\ ReadBlock(disk, job.read).file # NoFile
      BY <1>0, <2>2, ReadBlockOK
    <3>3. job.st \in {"None", "Running", "Stopped", "Done"}
      BY <1>0
    <3>4. QED
      BY <1>0, <1>1, <3>1, <3>2, <3>3, JobSteps DEF JobReads
  <2>3. job.read.file # NoFile
    BY <1>1 DEF JobReads, IInv, ReadersOK
  <2>4. QED
    BY <2>1, <2>2, <2>3
<1>2. CASE JobStops
  <2>1. job' = [st |-> "Stopped", read |-> job.read] /\ job.read.file # NoFile
    BY <1>0, <1>2 DEF JobStops
  <2>2. QED
    BY <1>0, <1>2, <2>1, JobSteps DEF JobStops
<1>3. CASE JobRestarts
  <2> DEFINE r == [job.read EXCEPT !.pos = 0]
  <2>1. 0 \in 0..Blocks
    BY NamesAssumption
  <2>2. r \in Readers /\ r.file = job.read.file /\ r.of = job.read.of
        /\ r.size = job.read.size /\ r.got = job.read.got
    BY <1>0, <2>1 DEF Readers
  <2>3. ReaderOK(disk, r)
    BY <1>0, <2>2 DEF ReaderOK
  <2>4. job' = [st |-> "Running", read |-> r] /\ r.file # NoFile
    BY <1>0, <1>3, <2>2 DEF JobRestarts
  <2> HIDE DEF r
  <2>5. QED
    BY <1>0, <1>3, <2>2, <2>3, <2>4, JobSteps DEF JobRestarts
<1>4. ASSUME NEW c \in Clients, SubmitJob(c)
      PROVE  IInv'
  <2> DEFINE f == Found(disk, sess[c].raw)
  <2>1. f \in Nat /\ f <= Len(disk.files) /\ NewJob(disk, f)
    BY <1>0, <1>4 DEF Found, DiskOK, Disks, NoFile, SubmitJob
  <2>2. PICK st \in {"None", "Running", "Stopped", "Done"}, r \in Readers :
            /\ ReaderOK(disk, r) /\ job' = [st |-> st, read |-> r]
            /\ st # "None" => r.file # NoFile
    <3> HIDE DEF f
    <3>1. QED
      BY <1>0, <2>1, NewJobOK
  <2>3. At("answering") \in [st : Stages, op : Ops, raw : RawNames]
    BY SessionTypes DEF Stages
  <2>4. sess' \in [Clients -> [st : Stages, op : Ops, raw : RawNames]]
    BY <1>0, <1>4, <2>3 DEF SubmitJob, Answer
  <2>5. QED
    BY <1>4, <2>2, <2>4, JobSteps DEF SubmitJob, Handles
<1>5. QED
  BY <1>1, <1>2, <1>3, <1>4
(***************************************************************************)
(* The readers of a directory are those of the next, as long as the files  *)
(* they have open stay as they are.                                        *)
(***************************************************************************)
LEMMA ReadersStay ==
    ASSUME NEW d, NEW e, NEW r \in Readers, DiskOK(d), DiskOK(e), ReaderOK(d, r),
           Len(d.files) <= Len(e.files), d.kept \subseteq e.kept,
           r.file \notin e.kept \cup {NoFile} => e.files[r.file] = d.files[r.file]
    PROVE  ReaderOK(e, r)
BY DEF ReaderOK, DiskOK, Disks, Readers

LEMMA DeleteInvariant ==
    ASSUME IInv, NEW c \in Clients, DeleteFile(c)
    PROVE  IInv'
<1> USE DEF DeleteFile, Handles, Free, Answer
<1>1. At("answering") \in [st : Stages, op : Ops, raw : RawNames]
  BY SessionTypes DEF Stages
<1>2. /\ thread.at = "idle"
      /\ UNCHANGED << up, accepting, reader, thread, job, leaked, uploads,
                      requests, faults >>
      /\ sess' \in [Clients -> [st : Stages, op : Ops, raw : RawNames]]
  BY <1>1 DEF IInv, TypeOK
<1>3. CASE UNCHANGED << disk, stored >>
  <2>1. TypeOK' /\ ReadersOK'
    BY <1>2, <1>3 DEF IInv, TypeOK, ReadersOK
  <2>2. QED
    BY <1>2, <1>3, <2>1, DiskUnchanged
<1>4. CASE /\ Found(disk, sess[c].raw) # NoFile
           /\ disk' = Remove(disk, sess[c].raw)
           /\ stored' = [stored EXCEPT ![sess[c].raw] = 0]
  <2> DEFINE n == sess[c].raw
  <2>1. n \in Names
    BY <1>4 DEF Found
  <2>2. disk' = Remove(disk, n) /\ stored' = [stored EXCEPT ![n] = 0]
    BY <1>4
  <2> HIDE DEF n
  <2>3. /\ DiskOK(disk') /\ disk'.files = disk.files /\ disk'.kept = disk.kept
        /\ disk'.dir = [disk.dir EXCEPT ![n] = NoFile]
    BY <2>1, <2>2, RemoveKeeps DEF IInv
  <2>4. TypeOK'
    BY <1>2, <2>1, <2>2, <2>3 DEF IInv, TypeOK, DiskOK, Disks
  <2>5. ReadersOK'
    BY <1>2, <2>3 DEF IInv, ReadersOK, ReaderOK
  <2>6. SaveOK'
    BY <1>2 DEF SaveOK
  <2>7. AnsweredIsStored'
    BY <2>1, <2>2, <2>3 DEF IInv, AnsweredIsStored, TypeOK, DiskOK, Disks
  <2>8. QED
    BY <2>3, <2>4, <2>5, <2>6, <2>7 DEF IInv
<1>5. QED
  BY <1>3, <1>4

LEMMA RemovesInvariant ==
    ASSUME IInv, NEW c \in Clients, SaveRemoves(c) \/ SaveKeeps(c)
    PROVE  IInv'
<1> DEFINE n == SafeName[sess[c].raw]
<1>1. n \in Names
  BY NamesAssumption DEF IInv, TypeOK
<1>2. /\ stored' = [stored EXCEPT ![n] = 0]
      /\ thread' = [at |-> "removed", c |-> c] /\ sess[c].st = "asked"
      /\ UNCHANGED << up, accepting, sess, reader, job, leaked, uploads, requests >>
      /\ faults' \in Nat
  BY DEF SaveRemoves, SaveKeeps, Handles, Free, IInv, TypeOK
<1>3. Saving' = n
  BY <1>2 DEF Saving
<1>4. disk' = Remove(disk, n) \/ disk' = RemovalFails(disk, n)
  BY DEF SaveRemoves, SaveKeeps, RemoveFirst
<1> HIDE DEF n
<1>5. /\ DiskOK(disk') /\ disk'.files = disk.files
      /\ disk.kept \subseteq disk'.kept
      /\ disk'.dir[n] \in disk'.kept \cup {NoFile}
      /\ \A m \in Names : m # n => disk'.dir[m] = disk.dir[m]
  <2>1. DiskOK(disk) /\ DOMAIN disk.dir = Names /\ n \in Names
    BY <1>1 DEF IInv, DiskOK, Disks
  <2>2. CASE disk' = Remove(disk, n)
    <3>1. /\ DiskOK(disk') /\ disk'.files = disk.files /\ disk'.kept = disk.kept
          /\ disk'.dir = [disk.dir EXCEPT ![n] = NoFile]
      BY <1>1, <2>1, <2>2, RemoveKeeps
    <3>2. QED
      BY <2>1, <3>1
  <2>3. CASE disk' = RemovalFails(disk, n)
    BY <1>1, <2>1, <2>3, FailedRemoval
  <2>4. QED
    BY <1>4, <2>2, <2>3
<1>6. TypeOK'
  <2>1. thread' \in [at : {"idle", "removed", "opened"}, c : Clients]
    BY <1>2
  <2>2. stored' \in [Names -> Nat]
    <3>1. stored \in [Names -> Nat] /\ stored' = [stored EXCEPT ![n] = 0]
          /\ 0 \in Nat
      BY <1>2 DEF IInv, TypeOK
    <3>2. QED
      BY <3>1, Zenon
  <2>3. disk' \in Disks
    BY <1>5 DEF DiskOK
  <2>4. QED
    BY <1>2, <2>1, <2>2, <2>3, Zenon DEF IInv, TypeOK
<1>7. ReadersOK'
  BY <1>2, <1>5 DEF IInv, ReadersOK, ReaderOK
<1>8. SaveOK'
  <2>1. stored'[n] = 0 /\ sess'[thread'.c].st = "asked" /\ thread'.at = "removed"
    BY <1>1, <1>2 DEF IInv, TypeOK
  <2>2. QED
    BY <1>3, <1>5, <2>1 DEF SaveOK
<1>9. AnsweredIsStored'
  BY <1>1, <1>2, <1>5 DEF IInv, AnsweredIsStored, TypeOK
<1>10. QED
  BY <1>5, <1>6, <1>7, <1>8, <1>9 DEF IInv

LEMMA OpensInvariant ==
    ASSUME IInv, SaveOpens
    PROVE  IInv'
<1> USE DEF SaveOpens
<1>0. /\ thread.at = "removed" /\ Saving \in Names /\ thread.c \in Clients
      /\ disk.dir[Saving] \in disk.kept \cup {NoFile} /\ stored[Saving] = 0
      /\ sess[thread.c].st = "asked"
      /\ UNCHANGED << up, accepting, reader, job, leaked, stored, requests, faults >>
      /\ DiskOK(disk)
  BY NamesAssumption DEF IInv, SaveOK, TypeOK, Saving
<1>1. CASE CanOpen
  <2> DEFINE n == Saving
             f == disk'.dir[n]
  <2>1. /\ disk' = Open(disk, n, uploads + 1) /\ uploads' = uploads + 1
        /\ thread' = [thread EXCEPT !.at = "opened"] /\ sess' = sess
        /\ uploads + 1 \in Nat /\ n \in Names
    BY <1>0, <1>1 DEF IInv, TypeOK
  <2>2. thread' \in [at : {"idle", "removed", "opened"}, c : Clients]
        /\ thread'.c = thread.c /\ thread'.at = "opened"
    BY <2>1 DEF IInv, TypeOK
  <2>3. Saving' = n
    BY <2>1, <2>2 DEF Saving
  <2> HIDE DEF n
  <2>4. /\ DiskOK(disk') /\ f # NoFile /\ disk'.kept = disk.kept
        /\ Len(disk.files) \in Nat /\ Len(disk.files) <= Len(disk'.files)
        /\ \A g \in 1..Len(disk.files) : g # f => disk'.files[g] = disk.files[g]
        /\ disk'.files[f] = [upload |-> uploads + 1, blocks |-> 0]
        /\ \A m \in Names : m # n => disk'.dir[m] = disk.dir[m]
        /\ f \in disk.kept \/ f \notin 0..Len(disk.files)
    <3>1. Len(disk.files) \in Nat /\ n \in DOMAIN disk.dir /\ disk.dir[n] \in Nat
      BY <1>0, <2>1 DEF DiskOK, Disks
    <3>2. CASE disk.dir[n] = NoFile
      <4>1. /\ DiskOK(disk') /\ Len(disk'.files) = Len(disk.files) + 1
            /\ \A g \in 1..Len(disk.files) : disk'.files[g] = disk.files[g]
            /\ disk'.files[Len(disk.files) + 1] = [upload |-> uploads + 1, blocks |-> 0]
            /\ disk'.dir = [disk.dir EXCEPT ![n] = Len(disk.files) + 1]
            /\ disk'.kept = disk.kept
        BY <1>0, <2>1, <3>2, OpenCreates
      <4>2. f = Len(disk.files) + 1
        BY <3>1, <4>1
      <4>3. QED
        BY <3>1, <4>1, <4>2 DEF NoFile
    <3>3. CASE disk.dir[n] # NoFile
      <4>1. /\ DiskOK(disk') /\ disk'.dir = disk.dir /\ disk'.kept = disk.kept
            /\ Len(disk'.files) = Len(disk.files)
            /\ \A g \in 1..Len(disk.files) : g # disk.dir[n] =>
                 disk'.files[g] = disk.files[g]
            /\ disk'.files[disk.dir[n]] = [upload |-> uploads + 1, blocks |-> 0]
        BY <1>0, <2>1, <3>3, OpenTruncates
      <4>2. f = disk.dir[n] /\ f \in disk.kept
        BY <1>0, <3>3, <4>1 DEF n
      <4>3. QED
        BY <3>1, <3>3, <4>1, <4>2
    <3>4. QED
      BY <3>2, <3>3
  <2>6. \A r \in Readers : ReaderOK(disk, r) =>
          ReaderOK(disk', r) /\ (f \notin disk'.kept => r.file # f)
    <3>1. TAKE r \in Readers
    <3>2. HAVE ReaderOK(disk, r)
    <3>3. r.file \in Nat /\ r.file <= Len(disk.files)
      BY <3>2 DEF ReaderOK, Readers
    <3>4. r.file \notin disk'.kept \cup {NoFile} =>
            disk'.files[r.file] = disk.files[r.file]
      BY <2>4, <3>3 DEF NoFile
    <3>5. disk.kept \subseteq disk'.kept
      BY <2>4
    <3>6. ReaderOK(disk', r)
      BY <1>0, <2>4, <3>2, <3>4, <3>5, ReadersStay
    <3>7. QED
      BY <2>4, <3>3, <3>6
  <2>7. TypeOK'
    BY <1>0, <2>1, <2>2, <2>4 DEF IInv, TypeOK, DiskOK, Disks
  <2>8. ReadersOK'
    BY <1>0, <2>6 DEF IInv, ReadersOK, TypeOK
  <2>9. SaveOK'
    <3>1. disk'.dir[n] = f
      OBVIOUS
    <3>2. f \notin disk'.kept => /\ \A c \in Clients : reader'[c].file # f
                                /\ job'.read.file # f
      BY <1>0, <2>6 DEF IInv, ReadersOK, TypeOK
    <3>3. sess'[thread'.c].st = "asked" /\ stored'[n] = 0
      BY <1>0, <2>1, <2>2 DEF n
    <3>4. disk'.files[f].upload = uploads'
      BY <2>1, <2>4
    <3> HIDE DEF f
    <3>5. QED
      BY <2>2, <2>3, <2>4, <3>1, <3>2, <3>3, <3>4 DEF SaveOK
  <2>10. AnsweredIsStored'
    <3> SUFFICES ASSUME NEW m \in Names, stored'[m] # 0
                 PROVE  /\ disk'.dir[m] # NoFile
                        /\ disk'.files[disk'.dir[m]]
                             = [upload |-> stored'[m], blocks |-> Blocks]
      BY DEF AnsweredIsStored
    <3>3. m # n /\ stored[m] # 0
      BY <1>0 DEF n
    <3>4. /\ disk.dir[m] # NoFile
          /\ disk.files[disk.dir[m]] = [upload |-> stored[m], blocks |-> Blocks]
      BY <3>3 DEF IInv, AnsweredIsStored
    <3>5. disk'.dir[m] = disk.dir[m] /\ disk.dir[m] \in 1..Len(disk.files)
      BY <1>0, <2>4, <3>3, <3>4 DEF DiskOK, Disks, NoFile
    <3>6. disk'.dir[m] # f
      BY <2>1, <2>4, <3>3 DEF DiskOK, Disks
    <3>7. QED
      BY <2>4, <3>4, <3>5, <3>6
  <2>11. QED
    BY <2>4, <2>7, <2>8, <2>9, <2>10 DEF IInv
<1>2. CASE ~CanOpen
  <2>1. /\ UNCHANGED << disk, uploads >> /\ thread' = Idle
        /\ sess' = [sess EXCEPT ![thread.c] = At("answering")]
    BY <1>2 DEF Answer
  <2>2. At("answering") \in [st : Stages, op : Ops, raw : RawNames]
    BY SessionTypes DEF Stages
  <2>3. TypeOK'
    BY <1>0, <2>1, <2>2, SessionTypes DEF IInv, TypeOK
  <2>4. ReadersOK' /\ DiskOK(disk') /\ AnsweredIsStored'
    BY <1>0, <2>1 DEF IInv, ReadersOK, AnsweredIsStored
  <2>5. SaveOK'
    BY <2>1, SessionTypes DEF SaveOK
  <2>6. QED
    BY <2>3, <2>4, <2>5 DEF IInv
<1>3. QED
  BY <1>1, <1>2
(***************************************************************************)
(* The directory is d once the new file has k blocks: nobody reads it, and *)
(* no other name leads to it.                                              *)
(***************************************************************************)
FilledOK(d, k) ==
    /\ Saving \in Names /\ thread.c \in Clients
    /\ DiskOK(d) /\ d.dir = disk.dir /\ d.dir[Saving] # NoFile
    /\ d.files[d.dir[Saving]] = [upload |-> uploads, blocks |-> k]
    /\ \A c \in Clients : ReaderOK(d, reader[c])
    /\ ReaderOK(d, job.read)
    /\ \A m \in Names : stored[m] # 0 =>
         /\ d.dir[m] # NoFile
         /\ d.files[d.dir[m]] = [upload |-> stored[m], blocks |-> Blocks]

LEMMA Filled ==
    ASSUME IInv, thread.at = "opened", NEW k \in 0..Blocks,
           NEW d, d = Fill(disk, Saving, k)
    PROVE  FilledOK(d, k)
<1> DEFINE n == Saving
           i == disk.dir[n]
<1>1. /\ n \in Names /\ thread.c \in Clients /\ DiskOK(disk)
      /\ i # NoFile /\ disk.files[i].upload = uploads
      /\ stored[n] = 0
      /\ i \notin disk.kept => /\ \A c \in Clients : reader[c].file # i
                              /\ job.read.file # i
  BY NamesAssumption DEF IInv, SaveOK, TypeOK, Saving
<1>2. d = Fill(disk, n, k)
  OBVIOUS
<1> HIDE DEF n
<1>3. /\ DiskOK(d) /\ d.dir = disk.dir /\ d.kept = disk.kept
      /\ Len(d.files) = Len(disk.files)
      /\ \A f \in 1..Len(disk.files) : f # i => d.files[f] = disk.files[f]
      /\ d.files[i] = [upload |-> uploads, blocks |-> k]
  BY <1>1, <1>2, FillKeeps
<1>4. Len(disk.files) \in Nat
  BY <1>1 DEF DiskOK, Disks
<1>5. \A r \in Readers : ReaderOK(disk, r) /\ (i \notin disk.kept => r.file # i) =>
        ReaderOK(d, r)
  <2>1. TAKE r \in Readers
  <2>2. HAVE ReaderOK(disk, r) /\ (i \notin disk.kept => r.file # i)
  <2>3. r.file \in Nat /\ r.file <= Len(disk.files)
    BY <2>2 DEF ReaderOK, Readers
  <2>4. r.file \notin d.kept \cup {NoFile} => d.files[r.file] = disk.files[r.file]
    BY <1>3, <1>4, <2>2, <2>3 DEF NoFile
  <2>5. Len(disk.files) <= Len(d.files) /\ disk.kept \subseteq d.kept
    BY <1>3, <1>4
  <2>6. QED
    BY <1>1, <1>3, <2>2, <2>4, <2>5, ReadersStay
<1>6. /\ \A c \in Clients : ReaderOK(d, reader[c])
      /\ ReaderOK(d, job.read)
  BY <1>1, <1>5 DEF IInv, ReadersOK, TypeOK
<1>7. ASSUME NEW m \in Names, stored[m] # 0
      PROVE  /\ d.dir[m] # NoFile
             /\ d.files[d.dir[m]] = [upload |-> stored[m], blocks |-> Blocks]
  <2>1. m # n
    BY <1>1, <1>7
  <2>2. /\ disk.dir[m] # NoFile
        /\ disk.files[disk.dir[m]] = [upload |-> stored[m], blocks |-> Blocks]
    BY <1>7 DEF IInv, AnsweredIsStored
  <2>3. disk.dir[m] # i /\ disk.dir[m] \in 1..Len(disk.files)
    BY <1>1, <2>1, <2>2 DEF DiskOK, Disks, NoFile
  <2>4. QED
    BY <1>3, <2>2, <2>3
<1>8. QED
  BY <1>1, <1>3, <1>6, <1>7 DEF n, FilledOK

LEMMA WritesInvariant ==
    ASSUME IInv, SaveWrites
    PROVE  IInv'
<1> DEFINE n == Saving
<1>1. Blocks \in 0..Blocks
  BY NamesAssumption
<1>2. /\ thread.at = "opened" /\ disk' = Fill(disk, n, Blocks)
      /\ stored' = [stored EXCEPT ![n] = uploads]
      /\ sess' = [sess EXCEPT ![thread.c] = At("answering")] /\ thread' = Idle
      /\ UNCHANGED << up, accepting, reader, leaked, uploads, requests, faults >>
      /\ NewJob(disk', disk'.dir[n]) \/ UNCHANGED job
  BY DEF SaveWrites, Created, Answer
<1>3. /\ n \in Names /\ thread.c \in Clients
      /\ DiskOK(disk') /\ disk'.dir[n] # NoFile
      /\ disk'.files[disk'.dir[n]] = [upload |-> uploads, blocks |-> Blocks]
      /\ \A c \in Clients : ReaderOK(disk', reader[c])
      /\ ReaderOK(disk', job.read)
      /\ \A m \in Names : stored[m] # 0 =>
           /\ disk'.dir[m] # NoFile
           /\ disk'.files[disk'.dir[m]] = [upload |-> stored[m], blocks |-> Blocks]
  <2>1. FilledOK(disk', Blocks)
    BY <1>1, <1>2, Filled
  <2>2. QED
    BY <2>1 DEF FilledOK
<1> HIDE DEF n
<1>4. PICK st \in {"None", "Running", "Stopped", "Done"}, r \in Readers :
          /\ ReaderOK(disk', r) /\ job' = [st |-> st, read |-> r]
          /\ st # "None" => r.file # NoFile
  <2>1. /\ job \in [st : {"None", "Running", "Stopped", "Done"}, read : Readers]
        /\ job.st # "None" => job.read.file # NoFile
    BY DEF IInv, TypeOK, ReadersOK
  <2>2. CASE NewJob(disk', disk'.dir[n])
    <3>1. disk'.dir[n] \in Nat /\ disk'.dir[n] <= Len(disk'.files)
      BY <1>3 DEF DiskOK, Disks
    <3>2. QED
      BY <1>3, <2>1, <2>2, <3>1, NewJobOK
  <2>3. CASE job' = job
    <3>1. /\ job' = [st |-> job.st, read |-> job.read]
          /\ job.st \in {"None", "Running", "Stopped", "Done"}
          /\ job.read \in Readers
      BY <2>1, <2>3
    <3>2. QED
      BY <1>3, <2>1, <3>1
  <2>4. QED
    BY <1>2, <2>2, <2>3
<1>5. At("answering") \in [st : Stages, op : Ops, raw : RawNames]
  BY SessionTypes DEF Stages
<1>6. TypeOK'
  <2>1. /\ thread' \in [at : {"idle", "removed", "opened"}, c : Clients]
        /\ sess' \in [Clients -> [st : Stages, op : Ops, raw : RawNames]]
        /\ stored' \in [Names -> Nat]
    BY <1>2, <1>3, <1>5, SessionTypes DEF IInv, TypeOK
  <2>2. job' \in [st : {"None", "Running", "Stopped", "Done"}, read : Readers]
    BY <1>4
  <2>3. disk' \in Disks
    BY <1>3 DEF DiskOK, Disks
  <2>4. QED
    BY <1>2, <2>1, <2>2, <2>3, Zenon DEF IInv, TypeOK
<1>7. ReadersOK'
  BY <1>2, <1>3, <1>4 DEF ReadersOK
<1>8. SaveOK'
  BY <1>2, SessionTypes DEF SaveOK
<1>9. AnsweredIsStored'
  BY <1>2, <1>3 DEF AnsweredIsStored, IInv, TypeOK
<1>10. QED
  BY <1>3, <1>6, <1>7, <1>8, <1>9 DEF IInv

LEMMA FailsInvariant ==
    ASSUME IInv, WriteFails
    PROVE  IInv'
<1>1. PICK k \in 0..(Blocks - 1) : disk' = Fill(disk, Saving, k)
  BY DEF WriteFails
<1>2. k \in 0..Blocks
  BY NamesAssumption
<1>3. /\ thread.at = "opened"
      /\ sess' = [sess EXCEPT ![thread.c] = At("answering")] /\ thread' = Idle
      /\ faults' \in Nat
      /\ UNCHANGED << up, accepting, reader, job, leaked, stored, uploads, requests >>
  BY DEF WriteFails, Answer, IInv, TypeOK
<1>4. /\ thread.c \in Clients /\ DiskOK(disk')
      /\ \A c \in Clients : ReaderOK(disk', reader[c])
      /\ ReaderOK(disk', job.read)
      /\ \A m \in Names : stored[m] # 0 =>
           /\ disk'.dir[m] # NoFile
           /\ disk'.files[disk'.dir[m]] = [upload |-> stored[m], blocks |-> Blocks]
  <2>1. FilledOK(disk', k)
    BY <1>1, <1>2, <1>3, Filled
  <2>2. QED
    BY <2>1 DEF FilledOK
<1>5. At("answering") \in [st : Stages, op : Ops, raw : RawNames]
  BY SessionTypes DEF Stages
<1>6. TypeOK'
  <2>1. /\ thread' \in [at : {"idle", "removed", "opened"}, c : Clients]
        /\ sess' \in [Clients -> [st : Stages, op : Ops, raw : RawNames]]
    BY <1>3, <1>4, <1>5, SessionTypes DEF IInv, TypeOK
  <2>2. disk' \in Disks
    BY <1>4 DEF DiskOK, Disks
  <2>3. QED
    BY <1>3, <2>1, <2>2, Zenon DEF IInv, TypeOK
<1>7. ReadersOK'
  BY <1>3, <1>4 DEF IInv, ReadersOK
<1>8. SaveOK'
  BY <1>3, SessionTypes DEF SaveOK
<1>9. AnsweredIsStored'
  BY <1>3, <1>4 DEF AnsweredIsStored
<1>10. QED
  BY <1>4, <1>6, <1>7, <1>8, <1>9 DEF IInv

LEMMA DiesInvariant ==
    ASSUME IInv, Dies
    PROVE  IInv'
<1>1. /\ up' = FALSE /\ accepting' = "no" /\ faults' \in Nat
      /\ sess' = [c \in Clients |-> At("none")]
      /\ reader' = [c \in Clients |-> NotReading]
      /\ thread' = Idle /\ job' = NoJob /\ leaked' = 0
      /\ UNCHANGED << stored, uploads, requests >>
  BY DEF Dies, IInv, TypeOK
<1>2. /\ DiskOK(disk')
      /\ \A m \in Names : stored[m] # 0 =>
           /\ disk'.dir[m] # NoFile
           /\ disk'.files[disk'.dir[m]] = [upload |-> stored[m], blocks |-> Blocks]
  <2>1. CASE disk' = disk
    BY <2>1 DEF IInv, AnsweredIsStored
  <2>2. CASE disk' # disk
    <3>1. PICK k \in 0..Blocks : disk' = Fill(disk, Saving, k)
      BY <2>2 DEF Dies
    <3>2. thread.at = "opened"
      BY <2>2 DEF Dies
    <3>3. FilledOK(disk', k)
      BY <3>1, <3>2, Filled
    <3>4. QED
      BY <3>3 DEF FilledOK
  <2>3. QED
    BY <2>1, <2>2
<1>3. At("none") \in [st : Stages, op : Ops, raw : RawNames]
  BY SessionTypes DEF Stages
<1>4. job' \in [st : {"None", "Running", "Stopped", "Done"}, read : Readers]
      /\ job'.read = NotReading /\ job'.st = "None"
  BY <1>1, NotReadingOK DEF NoJob
<1>5. TypeOK'
  <2>1. /\ thread' \in [at : {"idle", "removed", "opened"}, c : Clients]
        /\ sess' \in [Clients -> [st : Stages, op : Ops, raw : RawNames]]
        /\ reader' \in [Clients -> Readers]
    BY <1>1, <1>3, SessionTypes, NotReadingOK
  <2>2. disk' \in Disks
    BY <1>2 DEF DiskOK, Disks
  <2>3. /\ up' \in BOOLEAN /\ accepting' \in {"yes", "no", "failed"} /\ leaked' \in Nat
        /\ stored' \in [Names -> Nat] /\ uploads' \in Nat /\ requests' \in Nat
    BY <1>1 DEF IInv, TypeOK
  <2>4. QED
    BY <1>1, <1>4, <2>1, <2>2, <2>3, Zenon DEF TypeOK
<1>6. ReadersOK'
  BY <1>1, <1>2, <1>4, NotReadingOK DEF ReadersOK
<1>7. SaveOK'
  BY <1>1, SessionTypes DEF SaveOK
<1>8. AnsweredIsStored'
  BY <1>1, <1>2 DEF AnsweredIsStored
<1>9. QED
  BY <1>2, <1>5, <1>6, <1>7, <1>8 DEF IInv

LEMMA StepInvariant == IInv /\ [Next]_vars => IInv'
<1> SUFFICES ASSUME IInv, [Next]_vars PROVE IInv'
  OBVIOUS
<1>1. ASSUME NEW c \in Clients,
             \/ Connect(c) \/ Accept(c) \/ AsksLarge(c)
             \/ \E op \in Ops, raw \in RawNames : Asks(c, op, raw)
      PROVE  IInv'
  BY <1>1, ConnectionInvariant
<1>2. ASSUME NEW c \in Clients, Leaves(c) \/ SendsBlock(c) \/ Answered(c)
      PROVE  IInv'
  BY <1>2, AnswerInvariant
<1>3. ASSUME NEW c \in Clients, Handle(c)
      PROVE  IInv'
  BY <1>3, AnswerInvariant, DeleteInvariant, JobInvariant, RemovesInvariant DEF Handle
<1>4. CASE SaveFile
  BY <1>4, OpensInvariant, WritesInvariant, FailsInvariant DEF SaveFile
<1>5. CASE JobReads \/ JobStops \/ JobRestarts
  BY <1>5, JobInvariant
<1>6. CASE Dies
  BY <1>6, DiesInvariant
<1>7. CASE Restarts
  <2>1. /\ up' = TRUE /\ accepting' = "yes"
        /\ UNCHANGED << sess, reader, thread, disk, job, leaked, stored, uploads,
                        requests, faults >>
    BY <1>7 DEF Restarts
  <2>2. TypeOK'
    BY <2>1 DEF IInv, TypeOK
  <2>3. QED
    BY <2>1, <2>2 DEF IInv, ReadersOK, SaveOK, Saving, AnsweredIsStored
<1>8. CASE UNCHANGED vars
  BY <1>8 DEF vars, IInv, TypeOK, ReadersOK, SaveOK, Saving, AnsweredIsStored
<1>9. QED
  BY <1>1, <1>2, <1>3, <1>4, <1>5, <1>6, <1>7, <1>8 DEF Next

(***************************************************************************)
(* The invariant of the file server: the types, and who has which file     *)
(* open while another is saved.                                            *)
(***************************************************************************)
THEOREM FilesInductive == Spec => []IInv
<1>1. QED
  BY InitInvariant, StepInvariant, PTL DEF Spec

(***************************************************************************)
(* Jobs and downloads read the upload they opened, all of it, for any      *)
(* number of clients, names, uploads and deletions.                        *)
(***************************************************************************)
THEOREM OneUploadIsRead == Spec => []ReadsOneUpload
<1>1. IInv => ReadsOneUpload
  <2> SUFFICES ASSUME IInv, NEW r \in {reader[c] : c \in Clients} \cup {job.read},
                      r.file \notin disk.kept \cup {NoFile}
               PROVE  r.got \subseteq {r.of} /\ disk.files[r.file].blocks = r.size
    BY DEF ReadsOneUpload
  <2>1. ReaderOK(disk, r)
    BY DEF IInv, ReadersOK
  <2>2. QED
    BY <2>1 DEF ReaderOK
<1>2. QED
  BY <1>1, FilesInductive, PTL

(***************************************************************************)
(* An upload that was answered stays stored, whole, until a request takes  *)
(* its name, whatever fails and however often the program dies.            *)
(***************************************************************************)
THEOREM AnsweredUploadsStay == Spec => []AnsweredIsStored
<1>1. IInv => AnsweredIsStored
  BY DEF IInv
<1>2. QED
  BY <1>1, FilesInductive, PTL

(***************************************************************************)
(* Every variable keeps its type; in particular a job or a download never  *)
(* gets beyond the end of a file, not even of one that became shorter.     *)
(***************************************************************************)
THEOREM FileTypes == Spec => []TypeOK
<1>1. IInv => TypeOK
  BY DEF IInv
<1>2. QED
  BY <1>1, FilesInductive, PTL
=============================================================================
