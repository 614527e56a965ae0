----------------------------- MODULE FileManager -----------------------------
(***************************************************************************)
(* The directory of uploaded files (src/FileManager.cpp).  A name leads to *)
(* a file, and a file that has lost its name lives on for those who have   *)
(* it open.  Of its contents the model keeps which upload they are of, and *)
(* how many blocks of it there are.                                        *)
(***************************************************************************)
EXTENDS Naturals, Sequences

CONSTANTS
    RawNames,       \* names as requests have them
    Names,          \* those without a slash, which are names in the directory
    SafeName,       \* raw name -> the name saveFile makes of it
    Blocks          \* the blocks of every upload

ASSUME NamesAssumption ==
    /\ Names \subseteq RawNames /\ Names # {}
    /\ SafeName \in [RawNames -> Names]
    /\ \A n \in Names : SafeName[n] = n
    /\ Blocks \in Nat \ {0}

NoFile == 0

(***************************************************************************)
(* Files are numbered as they are created, and so are uploads.  A disk is  *)
(* a record with the file of each name (dir), the contents of the files    *)
(* there have been (files), and those of them that could not be removed    *)
(* before they were to be saved again (kept).                              *)
(***************************************************************************)
Contents == [upload : Nat, blocks : 0..Blocks]

Disks == [dir : [Names -> Nat], files : Seq(Contents), kept : SUBSET Nat]

EmptyDisk == [dir |-> [n \in Names |-> NoFile], files |-> << >>, kept |-> {}]

(* getFilePath and is_regular_file: a name with a slash leads nowhere. *)
Found(disk, raw) == IF raw \in Names THEN disk.dir[raw] ELSE NoFile

Remove(disk, n) == [disk EXCEPT !.dir[n] = NoFile]

(* The name stays, for the new contents to take the place of the old. *)
RemoveNothing(disk, n) == disk

(* saveFile removes the file first, so that jobs that print it keep it. *)
RemoveFirst(disk, n) == Remove(disk, n)

(* It does not look at the error of a removal that fails. *)
RemovalFails(disk, n) == [disk EXCEPT !.kept = @ \cup {disk.dir[n]}]

(* std::ofstream: truncates the file there is, or creates one. *)
Open(disk, n, upload) ==
    IF disk.dir[n] = NoFile
      THEN [disk EXCEPT
              !.dir[n] = Len(disk.files) + 1,
              !.files = Append(@, [upload |-> upload, blocks |-> 0])]
      ELSE [disk EXCEPT !.files[disk.dir[n]] = [upload |-> upload, blocks |-> 0]]

Fill(disk, n, blocks) == [disk EXCEPT !.files[disk.dir[n]].blocks = blocks]

(***************************************************************************)
(* One who has a file open: the upload it was of and its length when it    *)
(* was opened, how far he is, and the uploads he has read blocks of.       *)
(***************************************************************************)
NotReading == [file |-> NoFile, of |-> 0, size |-> 0, pos |-> 0, got |-> {}]

Opened(disk, f) ==
    [file |-> f, of |-> disk.files[f].upload, size |-> disk.files[f].blocks,
     pos |-> 0, got |-> {}]

AtEndLate(disk, r) == r.pos > disk.files[r.file].blocks
AtEnd(disk, r) == r.pos >= disk.files[r.file].blocks

ReadBlock(disk, r) ==
    [r EXCEPT !.pos = @ + 1, !.got = @ \cup {disk.files[r.file].upload}]
=============================================================================
