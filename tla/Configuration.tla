---------------------------- MODULE Configuration ----------------------------
(***************************************************************************)
(* The configuration the program keeps (src/util.cpp): the printers        *)
(* (src/PrinterManager.cpp) and the user with his keys                     *)
(* (src/AuthManager.cpp), read when it starts and written back, in place,  *)
(* by the requests that change them.  The program may die at any time, in  *)
(* the middle of a write too, and a write may fail.                        *)
(*                                                                         *)
(* Requests run one after another on the event loop's thread.  Of what is  *)
(* kept of a printer, the model has whether it is stopped; the device, the *)
(* title and the print area take the same way.                             *)
(***************************************************************************)
EXTENDS Naturals

CONSTANTS
    Plain,          \* unique names of printers, without a dot
    Default,        \* the plain name "default"
    Dotted,         \* unique names with a dot
    Parent,         \* what such a name has before the dot
    Numbered,       \* base name -> rank -> what addPrinter tries: n, n2, n3...
    MaxRequests,    \* how many requests there are
    MaxFaults       \* how many times the program dies or a write fails

Names == Plain \cup Dotted
Ranks(base) == DOMAIN Numbered[base]

ASSUME ConfigurationAssumption ==
    /\ Default \in Plain /\ Plain \cap Dotted = {}
    /\ Parent \in [Dotted -> Plain]
    /\ \A base \in DOMAIN Numbered : \A i \in Ranks(base) : Numbered[base][i] \in Plain
    /\ "" \notin Names
    /\ MaxRequests \in Nat /\ MaxFaults \in Nat

NoName == ""
PrinterStates == {"stopped", "started"}

(* m_printers: the printers there are, by their unique names *)
Printers == UNION {[names -> PrinterStates] : names \in SUBSET Names}
None == [n \in {} |-> "stopped"]

(***************************************************************************)
(* A configuration tree: the printers, their "default", and whether the    *)
(* program can start from it.  admin and secret tell the keys of one user  *)
(* from those of the next; 0 is none.                                      *)
(***************************************************************************)
Trees == [printers : Printers, default : Names \cup {NoName}, loads : BOOLEAN,
          admin : Nat, secret : Nat]

EmptyTree == [printers |-> None, default |-> NoName, loads |-> TRUE,
              admin |-> 0, secret |-> 0]

(* No file, or one that cannot be parsed: no users node, which main needs. *)
Unreadable == [EmptyTree EXCEPT !.loads = FALSE]

VARIABLES
    printers,       \* m_printers
    defaultPrinter, \* m_defaultPrinter
    config,         \* g_config
    file,           \* the tree in the file
    pc,             \* what the program is doing
    next,           \* what it does when the file is written
    asked,          \* the printer that is to become the default one then
    torn,           \* whether the last write of the file was cut short
    known,          \* the keys that were last in use
    recent,         \* the printers, with the default, since the last answer
    requests, faults

vars == << printers, defaultPrinter, config, file, pc, next, asked, torn,
           known, recent, requests, faults >>

(* down      not running           secret    the user is set up            *)
(* dead      could not start       second    the first write of a request  *)
(* writing   in write_info                   that adds a printer is done   *)
(* idle      waiting for requests                                          *)
Steps == {"down", "dead", "writing", "secret", "second", "idle"}

(* As installed, there is no file; the administrator may make one.         *)
Init ==
    /\ printers = None /\ defaultPrinter = NoName
    /\ config = EmptyTree
    /\ file \in {Unreadable, EmptyTree}
    /\ pc = "down" /\ next = "down" /\ asked = NoName
    /\ torn = FALSE
    /\ known = [admin |-> 0, secret |-> 0]
    /\ recent = {<< None, NoName >>}
    /\ requests = 0 /\ faults = 0

-----------------------------------------------------------------------------
(* Writing. *)

(***************************************************************************)
(* What save leaves in the tree: put_child takes a name with a dot for a   *)
(* path, so its printer ends up inside another node; and a printer called  *)
(* "default" takes the node that has just been put there.                  *)
(***************************************************************************)
SaveTo(t, ps, d) ==
    [t EXCEPT
       !.printers = [n \in DOMAIN ps \cap Plain |-> ps[n]],
       !.default = IF Default \in DOMAIN ps THEN NoName ELSE d,
       !.loads = \A n \in DOMAIN ps \cap Dotted : Parent[n] \in DOMAIN ps]

(* write_info of the tree t, and what comes after it. *)
Write(t, then) ==
    /\ config' = t
    /\ pc' = "writing" /\ next' = then

(***************************************************************************)
(* What a write of the tree that is cut short may leave: nothing, a block  *)
(* without its end, the users' block with nothing after it, or all but the *)
(* tail of the last line, which is a key that nothing uses.                *)
(***************************************************************************)
CutShort(t) ==
    {EmptyTree, Unreadable, t,
     [EmptyTree EXCEPT !.admin = t.admin, !.secret = t.secret]}

(* Going on; a request is answered before the next one is read. *)
GoOn(p) ==
    /\ pc' = p
    /\ recent' = IF p = "idle" THEN {<< printers, defaultPrinter >>} ELSE recent
    /\ UNCHANGED << printers, defaultPrinter >>

Written ==
    /\ pc = "writing"
    /\ file' = config /\ torn' = FALSE
    /\ GoOn(next)
    /\ UNCHANGED << config, next, asked, known, requests, faults >>

(* saveConfig logs the exception, and the request is answered all the same. *)
WriteFails ==
    /\ pc = "writing" /\ faults < MaxFaults
    /\ faults' = faults + 1
    /\ file' \in CutShort(config) /\ torn' = TRUE
    /\ GoOn(next)
    /\ UNCHANGED << config, next, asked, known, requests >>

Dies ==
    /\ pc \notin {"down", "dead"} /\ faults < MaxFaults
    /\ faults' = faults + 1
    /\ IF pc = "writing" THEN file' \in CutShort(config) /\ torn' = TRUE
       ELSE UNCHANGED << file, torn >>
    /\ pc' = "down"
    /\ UNCHANGED << printers, defaultPrinter, config, next, asked, known,
                    recent, requests >>

-----------------------------------------------------------------------------
(* Starting: loadConfig, then PrinterManager, then AuthManager. *)

(***************************************************************************)
(* runApp asks for the users' node, which a file that cannot be read has   *)
(* not left; and a node under the printers without a printer's settings    *)
(* makes the constructor of PrinterManager throw.  main gives up.          *)
(***************************************************************************)
FailsToStart ==
    /\ pc = "down" /\ ~file.loads
    /\ pc' = "dead"
    /\ UNCHANGED << printers, defaultPrinter, config, file, next, asked, torn,
                    known, recent, requests, faults >>

Keys(t) == [admin |-> t.admin, secret |-> t.secret]

(* Users without the secret count as none. *)
NeedsUserUnlessSecret(t) == t.secret = 0

(* The users' node is empty: the shared secret is in it too. *)
NeedsUser(t) == t.admin = 0 /\ t.secret = 0

(* AuthManager creates the initial user when there is none. *)
Starts ==
    /\ pc = "down" /\ file.loads
    /\ printers' = file.printers
    /\ defaultPrinter' = file.default
    /\ recent' = {<< file.printers, file.default >>}
    /\ IF NeedsUser(file)
         THEN /\ Write([file EXCEPT !.admin = known.admin + 1], "secret")
              /\ known' = Keys(config')
         ELSE /\ config' = file /\ pc' = "secret"
              /\ UNCHANGED << next, known >>
    /\ UNCHANGED << file, asked, torn, requests, faults >>

(* setupSharedSecret *)
SetsUpSecret ==
    /\ pc = "secret"
    /\ IF config.secret = 0
         THEN /\ Write([config EXCEPT !.secret = config.admin], "idle")
              /\ known' = Keys(config')
              /\ UNCHANGED << printers, defaultPrinter, recent >>
         ELSE /\ GoOn("idle")
              /\ UNCHANGED << config, next, known >>
    /\ UNCHANGED << file, asked, torn, requests, faults >>

-----------------------------------------------------------------------------
(* Requests. *)

(* PrinterManager::save, of the printers as this step leaves them. *)
Save(ps, d, then) ==
    /\ printers' = ps /\ defaultPrinter' = d
    /\ recent' = recent \cup {<< ps, d >>}
    /\ Write(SaveTo(config, ps, d), then)

Request ==
    /\ pc = "idle" /\ requests < MaxRequests
    /\ requests' = requests + 1
    /\ UNCHANGED << file, torn, known, faults >>

With(ps, n, st) == [m \in DOMAIN ps \cup {n} |-> IF m = n THEN st ELSE ps[m]]

(***************************************************************************)
(* addPrinter saves; then comes the rest of the request, which makes n the *)
(* default printer if it asks for it, and saves again.                     *)
(***************************************************************************)
AddPrinter(n, st, makeDefault) ==
    /\ asked' = IF makeDefault THEN n ELSE NoName
    /\ Save(With(printers, n, st),
            IF defaultPrinter = NoName THEN n ELSE defaultPrinter, "second")

(* restSetupNewPrinter: the name is the first of n, n2, n3... that is free. *)
NewPrinter(base, st, makeDefault) ==
    /\ Request
    /\ \E i \in Ranks(base) :
         /\ Numbered[base][i] \notin DOMAIN printers
         /\ \A j \in Ranks(base) : j < i => Numbered[base][j] \in DOMAIN printers
         /\ AddPrinter(Numbered[base][i], st, makeDefault)

(* restSetupPrinter, which takes any name. *)
SetupPrinter(n, st, makeDefault) ==
    /\ Request
    /\ IF n \notin DOMAIN printers THEN AddPrinter(n, st, makeDefault)
       ELSE /\ Save(With(printers, n, st),
                    IF makeDefault THEN n ELSE defaultPrinter, "idle")
            /\ UNCHANGED asked

(* The default printer that is asked for after the settings are saved. *)
SecondHalfUnsaved ==
    /\ pc = "second"
    /\ printers' = printers
    /\ defaultPrinter' = IF asked = NoName THEN defaultPrinter ELSE asked
    /\ recent' = recent
    /\ Write(SaveTo(config, printers, defaultPrinter), "idle")
    /\ UNCHANGED << file, asked, torn, known, requests, faults >>

SecondHalf ==
    /\ pc = "second"
    /\ Save(printers, IF asked = NoName THEN defaultPrinter ELSE asked, "idle")
    /\ UNCHANGED << file, asked, torn, known, requests, faults >>

(* The entry is emptied and stays. *)
WithoutHole(ps, n) == [ps EXCEPT ![n] = "none"]

Without(ps, n) == [m \in DOMAIN ps \ {n} |-> ps[m]]

(* The default printer stays the default one. *)
DeletePrinterDefault(n) ==
    /\ Request
    /\ n \in DOMAIN printers
    /\ Save(Without(printers, n), defaultPrinter, "idle")
    /\ UNCHANGED asked

(* deletePrinter: another takes over as the default, the first by name (the *)
(* model lets it be any).                                                   *)
DeletePrinter(n) ==
    /\ Request
    /\ n \in DOMAIN printers
    /\ \E d \in Names \cup {NoName} :
         /\ IF n # defaultPrinter THEN d = defaultPrinter
            ELSE IF DOMAIN printers = {n} THEN d = NoName
            ELSE d \in DOMAIN printers \ {n}
         /\ Save(Without(printers, n), d, "idle")
    /\ UNCHANGED asked

-----------------------------------------------------------------------------
Next ==
    \/ FailsToStart \/ Starts \/ SetsUpSecret
    \/ \E st \in PrinterStates, makeDefault \in BOOLEAN :
         \/ \E base \in DOMAIN Numbered : NewPrinter(base, st, makeDefault)
         \/ \E n \in Names : SetupPrinter(n, st, makeDefault)
    \/ \E n \in Names : DeletePrinter(n)
    \/ SecondHalf
    \/ Written \/ WriteFails \/ Dies

Spec == Init /\ [][Next]_vars

-----------------------------------------------------------------------------
(* Every variable keeps its type. *)
TypeOK ==
    /\ printers \in Printers /\ defaultPrinter \in Names \cup {NoName}
    /\ config \in Trees /\ file \in Trees
    /\ pc \in Steps /\ next \in Steps /\ asked \in Names \cup {NoName}
    /\ torn \in BOOLEAN /\ known \in [admin : Nat, secret : Nat]
    /\ recent \subseteq Printers \X (Names \cup {NoName})
    /\ requests \in Nat /\ faults \in Nat

(***************************************************************************)
(* The default printer is one there is, through deletions, renamings and   *)
(* restarts: uploads are printed on it.  Except one with a dot in its      *)
(* name, which a restart does not bring back.                              *)
(***************************************************************************)
DefaultIsPrinter ==
    pc \notin {"down", "dead"} =>
      defaultPrinter \in DOMAIN printers \cup {NoName} \cup Dotted

(* Names that come back from the file as they were saved *)
Safe(r) == DOMAIN r[1] \subseteq Plain \ {Default}

(***************************************************************************)
(* A program that has run before starts again, if no write of its file was *)
(* cut short and its printers' names are safe; and it has the printers and *)
(* the default of the last request that was answered, or of a step of the  *)
(* one it died in.                                                         *)
(***************************************************************************)
RestartRestores ==
    [][pc = "down" /\ pc' # "down" /\ ~torn /\ known.admin > 0
         /\ (\A r \in recent : Safe(r))
       => pc' # "dead" /\ << printers', defaultPrinter' >> \in recent]_vars

(***************************************************************************)
(* The user's password and keys, once there, change only if a write of the *)
(* file was cut short: every way through a start keeps them, and so do the *)
(* printers' requests.                                                     *)
(***************************************************************************)
CredentialsKept ==
    [][\A k \in {"admin", "secret"} :
         known'[k] # known[k] => known[k] = 0 \/ torn]_vars
=============================================================================
