------------------------ MODULE ConfigurationProofs ------------------------
(***************************************************************************)
(* Theorems about Configuration: its type, that the default printer is one *)
(* there is, that the keys are kept and that a restart brings back the     *)
(* printers.                                                               *)
(***************************************************************************)
EXTENDS Configuration, TLAPS

(* The program is running. *)
Up == pc \notin {"down", "dead"}

(* The default of these printers is one of them, or has a dot. *)
DefaultAmong(ps, d) == d \in DOMAIN ps \cup {NoName} \cup Dotted

(* The trees and the manager's fields agree that the default is a printer. *)
Defaults ==
    /\ DefaultAmong(printers, defaultPrinter)
    /\ DefaultAmong(config.printers, config.default)
    /\ DefaultAmong(file.printers, file.default)
    /\ pc = "second" \/ (pc = "writing" /\ next = "second") =>
         asked \in DOMAIN printers \cup {NoName}

(***************************************************************************)
(* The keys in use are those of the tree, and those of the file unless a   *)
(* write is going on or has been cut short.                                *)
(***************************************************************************)
KeysInUse ==
    /\ Up => Keys(config) = known
    /\ pc # "writing" =>
         \/ Keys(file) = known
         \/ torn /\ file.admin = 0 /\ file.secret = 0

(* The printers of a tree are ps, its default is d, and it can be loaded. *)
Holds(t, ps, d) == t.loads /\ t.printers = ps /\ t.default = d

AllSafe == \A r \in recent : Safe(r)

(***************************************************************************)
(* What the program has is among the recent printers, and is in the tree;  *)
(* what the file has is among them, unless it is being written.            *)
(***************************************************************************)
Restorable ==
    /\ Up => << printers, defaultPrinter >> \in recent
    /\ Up /\ Safe(<< printers, defaultPrinter >>) =>
         Holds(config, printers, defaultPrinter)
    /\ pc = "secret" \/ (pc = "writing" /\ next = "secret") =>
         recent = {<< printers, defaultPrinter >>}
    /\ pc # "writing" /\ ~torn /\ known.admin > 0 /\ AllSafe =>
         file.loads /\ << file.printers, file.default >> \in recent

IInv == TypeOK /\ Defaults /\ KeysInUse /\ Restorable

-----------------------------------------------------------------------------
(* Trees and printers. *)

(* A set of printers is a function from some of the names. *)
LEMMA PrintersAre ==
    \A ps : ps \in Printers <=>
      \E names \in SUBSET Names : ps \in [names -> PrinterStates]
BY DEF Printers

LEMMA NoPrinters == None \in Printers /\ DOMAIN None = {}
<1>1. None \in [{} -> PrinterStates]
  BY DEF None, PrinterStates
<1>2. QED
  BY <1>1, PrintersAre

(* Adding or setting up a printer that has a name leaves printers. *)
LEMMA WithPrinter ==
    ASSUME NEW ps \in Printers, NEW n \in Names, NEW st \in PrinterStates
    PROVE  With(ps, n, st) \in Printers /\ DOMAIN With(ps, n, st) = DOMAIN ps \cup {n}
<1>1. PICK names \in SUBSET Names : ps \in [names -> PrinterStates]
  BY PrintersAre
<1>2. DOMAIN With(ps, n, st) = DOMAIN ps \cup {n}
  BY DEF With
<1>3. With(ps, n, st) \in [names \cup {n} -> PrinterStates]
  BY <1>1 DEF With
<1>4. names \cup {n} \in SUBSET Names
  OBVIOUS
<1>5. QED
  BY <1>2, <1>3, <1>4, PrintersAre

LEMMA WithoutPrinter ==
    ASSUME NEW ps \in Printers, NEW n \in Names
    PROVE  Without(ps, n) \in Printers /\ DOMAIN Without(ps, n) = DOMAIN ps \ {n}
<1>1. PICK names \in SUBSET Names : ps \in [names -> PrinterStates]
  BY PrintersAre
<1>2. DOMAIN Without(ps, n) = DOMAIN ps \ {n}
  BY DEF Without
<1>3. Without(ps, n) \in [names \ {n} -> PrinterStates]
  BY <1>1 DEF Without
<1>4. names \ {n} \in SUBSET Names
  OBVIOUS
<1>5. QED
  BY <1>2, <1>3, <1>4, PrintersAre

LEMMA NamesOfPrinters == \A ps \in Printers : DOMAIN ps \subseteq Names
<1>1. TAKE ps \in Printers
<1>2. PICK names \in SUBSET Names : ps \in [names -> PrinterStates]
  BY PrintersAre
<1>3. QED
  BY <1>2

(* Unreadable and empty files are trees without printers and keys. *)
LEMMA EmptyTrees ==
    \A t \in {EmptyTree, Unreadable} :
      /\ t \in Trees
      /\ t.printers = None /\ t.default = NoName
      /\ t.admin = 0 /\ t.secret = 0
<1>1. EmptyTree \in Trees
  BY NoPrinters, Zenon DEF EmptyTree, Trees, NoName
<1>2. Unreadable \in Trees
  BY NoPrinters, Zenon DEF Unreadable, EmptyTree, Trees, NoName
<1>3. /\ EmptyTree.printers = None /\ EmptyTree.default = NoName
      /\ EmptyTree.admin = 0 /\ EmptyTree.secret = 0
  BY DEF EmptyTree
<1>4. /\ Unreadable.printers = EmptyTree.printers
      /\ Unreadable.default = EmptyTree.default
      /\ Unreadable.admin = EmptyTree.admin
      /\ Unreadable.secret = EmptyTree.secret
  BY <1>1 DEF Unreadable, Trees
<1>5. QED
  BY <1>1, <1>2, <1>3, <1>4

(* What save leaves: the keys as they were, the default among the printers, *)
(* and all of it if the names are safe.                                     *)
LEMMA SaveToKeeps ==
    ASSUME NEW t \in Trees, NEW ps \in Printers, NEW d \in Names \cup {NoName}
    PROVE  /\ SaveTo(t, ps, d) \in Trees
           /\ Keys(SaveTo(t, ps, d)) = Keys(t)
           /\ Safe(<< ps, d >>) => Holds(SaveTo(t, ps, d), ps, d)
           /\ DefaultAmong(ps, d) =>
                DefaultAmong(SaveTo(t, ps, d).printers, SaveTo(t, ps, d).default)
<1> DEFINE kept == [n \in DOMAIN ps \cap Plain |-> ps[n]]
           df == IF Default \in DOMAIN ps THEN NoName ELSE d
           ok == \A n \in DOMAIN ps \cap Dotted : Parent[n] \in DOMAIN ps
           s == SaveTo(t, ps, d)
<1>1. /\ s.printers = kept /\ s.default = df /\ s.loads = ok
      /\ s.admin = t.admin /\ s.secret = t.secret
  BY DEF SaveTo, Trees
<1>2. PICK names \in SUBSET Names : ps \in [names -> PrinterStates]
  BY PrintersAre
<1>3. kept \in Printers /\ DOMAIN kept = DOMAIN ps \cap Plain
  <2>1. kept \in [names \cap Plain -> PrinterStates]
    BY <1>2
  <2>2. QED
    BY <1>2, <2>1, PrintersAre
<1>4. SaveTo(t, ps, d) \in Trees
  <2>1. df \in Names \cup {NoName} /\ ok \in BOOLEAN
    OBVIOUS
  <2>2. SaveTo(t, ps, d) = [t EXCEPT !.printers = kept, !.default = df, !.loads = ok]
    BY DEF SaveTo
  <2> HIDE DEF kept, df, ok
  <2>3. QED
    BY <1>3, <2>1, <2>2 DEF Trees
<1>5. Keys(SaveTo(t, ps, d)) = Keys(t)
  BY <1>1 DEF Keys
<1>6. Safe(<< ps, d >>) => Holds(SaveTo(t, ps, d), ps, d)
  <2> SUFFICES ASSUME DOMAIN ps \subseteq Plain \ {Default}
               PROVE  Holds(SaveTo(t, ps, d), ps, d)
    BY DEF Safe
  <2>1. kept = ps
    BY <1>2
  <2>2. df = d
    OBVIOUS
  <2>3. ok
    BY ConfigurationAssumption
  <2>4. QED
    BY <1>1, <2>1, <2>2, <2>3 DEF Holds
<1>7. DefaultAmong(ps, d) => DefaultAmong(s.printers, s.default)
  <2>1. DefaultAmong(ps, d) => DefaultAmong(kept, df)
    BY <1>3, NamesOfPrinters DEF DefaultAmong, Names
  <2>2. QED
    BY <1>1, <2>1
<1>8. QED
  BY <1>4, <1>5, <1>6, <1>7

(* Of what a write that is cut short leaves, nothing is made up. *)
LEMMA CutShortKeeps ==
    ASSUME NEW t \in Trees, NEW u \in CutShort(t), DefaultAmong(t.printers, t.default)
    PROVE  /\ u \in Trees
           /\ DefaultAmong(u.printers, u.default)
           /\ Keys(u) = Keys(t) \/ (u.admin = 0 /\ u.secret = 0)
<1>1. CASE u \in {EmptyTree, Unreadable}
  BY <1>1, EmptyTrees DEF DefaultAmong
<1>2. CASE u = t
  BY <1>2
<1>3. CASE u = [EmptyTree EXCEPT !.admin = t.admin, !.secret = t.secret]
  <2>1. /\ u.printers = None /\ u.default = NoName
        /\ u.admin = t.admin /\ u.secret = t.secret
    BY <1>3 DEF EmptyTree
  <2>2. u \in Trees
    BY <1>3, EmptyTrees DEF Trees
  <2>3. QED
    BY <2>1, <2>2 DEF DefaultAmong, Keys
<1>4. QED
  BY <1>1, <1>2, <1>3 DEF CutShort
-----------------------------------------------------------------------------
(* The invariant. *)

LEMMA InitInvariant == Init => IInv
<1> SUFFICES ASSUME Init PROVE IInv
  OBVIOUS
<1> USE DEF Init
<1>1. file \in Trees /\ Keys(file) = [admin |-> 0, secret |-> 0]
      /\ file.printers = None /\ file.default = NoName
  BY EmptyTrees DEF Keys
<1>2. config \in Trees /\ config.printers = None /\ config.default = NoName
  BY EmptyTrees
<1>3. TypeOK
  <2>1. printers \in Printers /\ << None, NoName >> \in Printers \X (Names \cup {NoName})
    BY NoPrinters
  <2>2. recent \subseteq Printers \X (Names \cup {NoName})
    BY <2>1
  <2>3. known \in [admin : Nat, secret : Nat]
    OBVIOUS
  <2>4. pc \in Steps /\ next \in Steps
    BY DEF Steps
  <2>5. QED
    BY <1>1, <1>2, <2>1, <2>2, <2>3, <2>4 DEF TypeOK
<1>4. Defaults
  BY <1>1, <1>2 DEF Defaults, DefaultAmong
<1>5. KeysInUse
  BY <1>1 DEF KeysInUse, Up
<1>6. Restorable
  BY DEF Restorable, Up
<1>7. QED
  BY <1>3, <1>4, <1>5, <1>6 DEF IInv

(* Saving the printers as a request leaves them. *)
LEMMA SaveInvariant ==
    ASSUME IInv, pc \in {"idle", "second"},
           NEW ps \in Printers, NEW d \in Names \cup {NoName}, DefaultAmong(ps, d),
           NEW then \in {"second", "idle"},
           Save(ps, d, then),
           asked' \in Names \cup {NoName},
           then = "second" => asked' \in DOMAIN ps \cup {NoName},
           requests' \in Nat, UNCHANGED << file, torn, known, faults >>
    PROVE  IInv'
<1> USE DEF Save, Write
<1>1. /\ config' \in Trees
      /\ Keys(config') = Keys(config)
      /\ Safe(<< ps, d >>) => Holds(config', ps, d)
      /\ DefaultAmong(config'.printers, config'.default)
  BY SaveToKeeps DEF IInv, TypeOK
<1>2. TypeOK'
  BY <1>1 DEF IInv, TypeOK, Steps
<1>3. Defaults'
  BY <1>1 DEF IInv, Defaults, DefaultAmong
<1>4. KeysInUse'
  BY <1>1 DEF IInv, KeysInUse, Up, Keys
<1>5. Restorable'
  BY <1>1 DEF IInv, Restorable, Up, Holds, Safe
<1>6. QED
  BY <1>2, <1>3, <1>4, <1>5 DEF IInv

(* The first write of a request that adds a printer. *)
LEMMA AddInvariant ==
    ASSUME IInv, pc = "idle", Request,
           NEW n \in Names \ DOMAIN printers, NEW st \in PrinterStates,
           NEW makeDefault \in BOOLEAN, AddPrinter(n, st, makeDefault)
    PROVE  IInv'
<1> DEFINE ps == With(printers, n, st)
           d == IF defaultPrinter = NoName THEN n ELSE defaultPrinter
<1>1. ps \in Printers /\ DOMAIN ps = DOMAIN printers \cup {n}
  BY WithPrinter DEF IInv, TypeOK
<1>2. d \in Names \cup {NoName} /\ DefaultAmong(ps, d)
  BY <1>1 DEF IInv, TypeOK, Defaults, DefaultAmong
<1>3. /\ asked' \in Names \cup {NoName} /\ asked' \in DOMAIN ps \cup {NoName}
      /\ Save(ps, d, "second")
  BY <1>1 DEF AddPrinter
<1>4. requests' \in Nat /\ UNCHANGED << file, torn, known, faults >>
  BY DEF Request, IInv, TypeOK
<1> HIDE DEF ps, d
<1>5. QED
  BY <1>1, <1>2, <1>3, <1>4, SaveInvariant

LEMMA RequestInvariant ==
    ASSUME IInv, NEW st \in PrinterStates, NEW makeDefault \in BOOLEAN
    PROVE  /\ \A base \in DOMAIN Numbered : NewPrinter(base, st, makeDefault) => IInv'
           /\ \A n \in Names : SetupPrinter(n, st, makeDefault) => IInv'
<1>1. ASSUME NEW base \in DOMAIN Numbered, NewPrinter(base, st, makeDefault)
      PROVE  IInv'
  <2>1. PICK i \in Ranks(base) :
            /\ Numbered[base][i] \notin DOMAIN printers
            /\ AddPrinter(Numbered[base][i], st, makeDefault)
    BY <1>1 DEF NewPrinter
  <2>2. Numbered[base][i] \in Names
    BY ConfigurationAssumption DEF Names
  <2>3. pc = "idle" /\ Request
    BY <1>1 DEF NewPrinter, Request
  <2>4. QED
    BY <2>1, <2>2, <2>3, AddInvariant
<1>2. ASSUME NEW n \in Names, SetupPrinter(n, st, makeDefault)
      PROVE  IInv'
  <2>1. pc = "idle" /\ Request
    BY <1>2 DEF SetupPrinter, Request
  <2>2. CASE n \notin DOMAIN printers
    BY <1>2, <2>1, <2>2, AddInvariant DEF SetupPrinter
  <2>3. CASE n \in DOMAIN printers
    <3> DEFINE ps == With(printers, n, st)
               d == IF makeDefault THEN n ELSE defaultPrinter
    <3>1. ps \in Printers /\ DOMAIN ps = DOMAIN printers
      BY <2>3, WithPrinter DEF IInv, TypeOK
    <3>2. d \in Names \cup {NoName} /\ DefaultAmong(ps, d)
      BY <2>3, <3>1 DEF IInv, TypeOK, Defaults, DefaultAmong
    <3>3. Save(ps, d, "idle") /\ asked' \in Names \cup {NoName}
      BY <1>2, <2>3 DEF SetupPrinter, IInv, TypeOK
    <3>4. requests' \in Nat /\ UNCHANGED << file, torn, known, faults >>
      BY <2>1 DEF Request, IInv, TypeOK
    <3> HIDE DEF ps, d
    <3>5. QED
      BY <2>1, <3>1, <3>2, <3>3, <3>4, SaveInvariant
  <2>4. QED
    BY <2>2, <2>3
<1>3. QED
  BY <1>1, <1>2

LEMMA DeleteInvariant ==
    ASSUME IInv, NEW n \in Names, DeletePrinter(n)
    PROVE  IInv'
<1> DEFINE ps == Without(printers, n)
<1>1. PICK d \in Names \cup {NoName} :
          /\ IF n # defaultPrinter THEN d = defaultPrinter
             ELSE IF DOMAIN printers = {n} THEN d = NoName
             ELSE d \in DOMAIN printers \ {n}
          /\ Save(ps, d, "idle")
  BY DEF DeletePrinter
<1>2. ps \in Printers /\ DOMAIN ps = DOMAIN printers \ {n}
  BY WithoutPrinter DEF IInv, TypeOK
<1>3. DefaultAmong(ps, d)
  BY <1>1, <1>2 DEF IInv, Defaults, DefaultAmong
<1>4. /\ pc = "idle" /\ asked' \in Names \cup {NoName}
      /\ requests' \in Nat /\ UNCHANGED << file, torn, known, faults >>
  BY DEF DeletePrinter, Request, IInv, TypeOK
<1> HIDE DEF ps
<1>5. QED
  BY <1>1, <1>2, <1>3, <1>4, SaveInvariant

LEMMA SecondInvariant == IInv /\ SecondHalf => IInv'
<1> SUFFICES ASSUME IInv, SecondHalf PROVE IInv'
  OBVIOUS
<1> DEFINE d == IF asked = NoName THEN defaultPrinter ELSE asked
<1>1. /\ printers \in Printers
      /\ d \in Names \cup {NoName} /\ DefaultAmong(printers, d)
  BY DEF SecondHalf, IInv, TypeOK, Defaults, DefaultAmong
<1>2. /\ pc = "second" /\ Save(printers, d, "idle")
      /\ asked' \in Names \cup {NoName} /\ requests' \in Nat
      /\ UNCHANGED << file, torn, known, faults >>
  BY DEF SecondHalf, IInv, TypeOK
<1> HIDE DEF d
<1>3. QED
  BY <1>1, <1>2, SaveInvariant
LEMMA StartInvariant == IInv /\ Starts => IInv'
<1> SUFFICES ASSUME IInv, Starts PROVE IInv'
  OBVIOUS
<1> USE DEF IInv, Starts
<1>0. /\ printers' \in Printers /\ defaultPrinter' \in Names \cup {NoName}
      /\ recent' = {<< printers', defaultPrinter' >>}
      /\ file \in Trees /\ file.printers = printers' /\ file.default = defaultPrinter'
      /\ file.loads /\ pc = "down" /\ file' = file
  BY DEF TypeOK, Trees
<1>1. CASE NeedsUser(file)
  <2>1. known.admin \in Nat /\ known.admin + 1 \in Nat
    BY DEF TypeOK
  <2>2. config' = [file EXCEPT !.admin = known.admin + 1]
        /\ pc' = "writing" /\ next' = "secret" /\ known' = Keys(config')
    BY <1>1 DEF Write
  <2>3. /\ config' \in Trees
        /\ config'.printers = file.printers /\ config'.default = file.default
        /\ config'.loads = file.loads
    <3>1. file \in Trees
      BY <1>0
    <3>2. config' \in Trees
      BY <2>1, <2>2, <3>1 DEF Trees
    <3>3. QED
      BY <2>2, <3>1, <3>2 DEF Trees
  <2>4. known' \in [admin : Nat, secret : Nat]
    BY <2>2, <2>3 DEF Keys, Trees
  <2>5. TypeOK'
    BY <1>0, <2>2, <2>3, <2>4 DEF TypeOK, Steps
  <2>6. Defaults'
    BY <1>0, <2>2, <2>3 DEF Defaults, DefaultAmong
  <2>7. KeysInUse'
    BY <2>2 DEF KeysInUse, Up
  <2>8. Restorable'
    BY <1>0, <2>2, <2>3 DEF Restorable, Up, Holds
  <2>9. QED
    BY <2>5, <2>6, <2>7, <2>8
<1>2. CASE ~NeedsUser(file)
  <2>1. config' = file /\ pc' = "secret" /\ UNCHANGED << next, known >>
    BY <1>2
  <2>2. TypeOK'
    BY <1>0, <2>1 DEF TypeOK, Steps
  <2>3. Defaults'
    BY <1>0, <2>1 DEF Defaults, DefaultAmong
  <2>4. KeysInUse'
    BY <1>0, <1>2, <2>1 DEF KeysInUse, Up, NeedsUser
  <2>5. Restorable'
    BY <1>0, <2>1 DEF Restorable, Up, Holds
  <2>6. QED
    BY <2>2, <2>3, <2>4, <2>5
<1>3. QED
  BY <1>1, <1>2

LEMMA SecretInvariant == IInv /\ SetsUpSecret => IInv'
<1> SUFFICES ASSUME IInv, SetsUpSecret PROVE IInv'
  OBVIOUS
<1> USE DEF IInv, SetsUpSecret
<1>0. /\ pc = "secret" /\ recent = {<< printers, defaultPrinter >>}
      /\ config \in Trees /\ UNCHANGED << printers, defaultPrinter, file >>
      /\ recent' = recent
  BY DEF TypeOK, Restorable, GoOn
<1>1. CASE config.secret = 0
  <2>1. config' = [config EXCEPT !.secret = config.admin]
        /\ pc' = "writing" /\ next' = "idle" /\ known' = Keys(config')
    BY <1>1 DEF Write
  <2>2. /\ config' \in Trees
        /\ config'.printers = config.printers /\ config'.default = config.default
        /\ config'.loads = config.loads
    <3>1. config \in Trees
      BY <1>0
    <3>2. config' \in Trees
      BY <2>1, <3>1 DEF Trees
    <3>3. QED
      BY <2>1, <3>1, <3>2 DEF Trees
  <2>3. known' \in [admin : Nat, secret : Nat]
    BY <2>1, <2>2 DEF Keys, Trees
  <2>4. TypeOK'
    BY <1>0, <2>1, <2>2, <2>3 DEF TypeOK, Steps
  <2>5. Defaults'
    BY <1>0, <2>1, <2>2 DEF Defaults, DefaultAmong
  <2>6. KeysInUse'
    BY <2>1 DEF KeysInUse, Up
  <2>7. Restorable'
    BY <1>0, <2>1, <2>2 DEF Restorable, Up, Holds, Safe
  <2>8. QED
    BY <2>4, <2>5, <2>6, <2>7
<1>2. CASE config.secret # 0
  <2>1. pc' = "idle" /\ UNCHANGED << config, next, known, torn >>
    BY <1>2 DEF GoOn
  <2>2. TypeOK'
    BY <1>0, <2>1 DEF TypeOK, Steps
  <2>3. Defaults'
    BY <1>0, <2>1 DEF Defaults, DefaultAmong
  <2>4. KeysInUse'
    BY <1>0, <2>1 DEF KeysInUse, Up
  <2>5. Restorable'
    BY <1>0, <2>1 DEF Restorable, Up, Holds, Safe, AllSafe
  <2>6. QED
    BY <2>2, <2>3, <2>4, <2>5
<1>3. QED
  BY <1>1, <1>2

(* Going on after a write, whatever it left. *)
LEMMA AfterWrite ==
    ASSUME IInv, pc = "writing", GoOn(next),
           UNCHANGED << config, next, asked, known, requests >>,
           file' \in Trees, DefaultAmong(file'.printers, file'.default),
           faults' \in Nat,
           \/ file' = config /\ torn' = FALSE
           \/ torn' = TRUE /\ \/ Keys(file') = Keys(config)
                              \/ file'.admin = 0 /\ file'.secret = 0
    PROVE  IInv'
<1> USE DEF IInv, GoOn
<1>1. /\ << printers', defaultPrinter' >> \in Printers \X (Names \cup {NoName})
      /\ << printers', defaultPrinter' >> = << printers, defaultPrinter >>
      /\ << printers, defaultPrinter >> \in recent'
      /\ recent' \subseteq recent
  BY DEF TypeOK, Restorable, Up
<1>2. TypeOK'
  BY <1>1 DEF TypeOK
<1>3. Defaults'
  BY DEF Defaults, DefaultAmong
<1>4. KeysInUse'
  BY DEF KeysInUse, Up
<1>5. Restorable'
  <2>1. (Up => << printers, defaultPrinter >> \in recent)'
    BY <1>1
  <2>2. (Up /\ Safe(<< printers, defaultPrinter >>) =>
         Holds(config, printers, defaultPrinter))'
    BY <1>1 DEF Restorable, Up, Holds, Safe
  <2>3. (pc = "secret" \/ (pc = "writing" /\ next = "secret") =>
          recent = {<< printers, defaultPrinter >>})'
    BY <1>1 DEF Restorable
  <2>4. (pc # "writing" /\ ~torn /\ known.admin > 0 /\ AllSafe =>
          file.loads /\ << file.printers, file.default >> \in recent)'
    BY <1>1 DEF Restorable, Up, Holds, Safe, AllSafe
  <2>5. QED
    BY <2>1, <2>2, <2>3, <2>4 DEF Restorable
<1>6. QED
  BY <1>2, <1>3, <1>4, <1>5

LEMMA WrittenInvariant == IInv /\ Written => IInv'
<1> SUFFICES ASSUME IInv, Written PROVE IInv'
  OBVIOUS
<1>1. file' \in Trees /\ DefaultAmong(file'.printers, file'.default) /\ faults' \in Nat
  BY DEF Written, IInv, TypeOK, Defaults
<1>2. /\ pc = "writing" /\ GoOn(next) /\ file' = config /\ torn' = FALSE
      /\ UNCHANGED << config, next, asked, known, requests >>
  BY DEF Written
<1>3. QED
  BY <1>1, <1>2, AfterWrite

LEMMA WriteFailsInvariant == IInv /\ WriteFails => IInv'
<1> SUFFICES ASSUME IInv, WriteFails PROVE IInv'
  OBVIOUS
<1>1. /\ pc = "writing" /\ GoOn(next) /\ torn' = TRUE /\ file' \in CutShort(config)
      /\ UNCHANGED << config, next, asked, known, requests >>
  BY DEF WriteFails
<1>2. /\ file' \in Trees /\ DefaultAmong(file'.printers, file'.default)
      /\ Keys(file') = Keys(config) \/ (file'.admin = 0 /\ file'.secret = 0)
  BY <1>1, CutShortKeeps DEF IInv, TypeOK, Defaults
<1>3. faults' \in Nat
  BY DEF WriteFails, IInv, TypeOK
<1>4. QED
  BY <1>1, <1>2, <1>3, AfterWrite

LEMMA DiesInvariant == IInv /\ Dies => IInv'
<1> SUFFICES ASSUME IInv, Dies PROVE IInv'
  OBVIOUS
<1> USE DEF IInv, Dies
<1>1. /\ pc' = "down" /\ faults' \in Nat
      /\ UNCHANGED << printers, defaultPrinter, config, next, asked, known,
                      recent, requests >>
  BY DEF TypeOK
<1>2. CASE pc = "writing"
  <2>1. torn' = TRUE /\ file' \in CutShort(config)
    BY <1>2
  <2>2. /\ file' \in Trees /\ DefaultAmong(file'.printers, file'.default)
        /\ Keys(file') = Keys(config) \/ (file'.admin = 0 /\ file'.secret = 0)
    BY <2>1, CutShortKeeps DEF TypeOK, Defaults
  <2>3. TypeOK'
    BY <1>1, <2>1, <2>2 DEF TypeOK, Steps
  <2>4. Defaults'
    BY <1>1, <2>2 DEF Defaults, DefaultAmong
  <2>5. KeysInUse'
    BY <1>1, <1>2, <2>1, <2>2 DEF KeysInUse, Up
  <2>6. Restorable'
    BY <1>1, <2>1 DEF Restorable, Up
  <2>7. QED
    BY <2>3, <2>4, <2>5, <2>6
<1>3. CASE pc # "writing"
  <2>1. UNCHANGED << file, torn >>
    BY <1>3
  <2>2. TypeOK'
    BY <1>1, <2>1 DEF TypeOK, Steps
  <2>3. Defaults'
    BY <1>1, <2>1 DEF Defaults, DefaultAmong
  <2>4. KeysInUse'
    BY <1>1, <1>3, <2>1 DEF KeysInUse, Up
  <2>5. Restorable'
    BY <1>1, <1>3, <2>1 DEF Restorable, Up, AllSafe
  <2>6. QED
    BY <2>2, <2>3, <2>4, <2>5
<1>4. QED
  BY <1>2, <1>3

LEMMA StepInvariant == IInv /\ [Next]_vars => IInv'
<1> SUFFICES ASSUME IInv, [Next]_vars PROVE IInv'
  OBVIOUS
<1>1. CASE FailsToStart
  BY <1>1 DEF FailsToStart, IInv, TypeOK, Defaults, DefaultAmong, KeysInUse,
              Restorable, Up, AllSafe, Holds, Safe, Keys, Steps
<1>2. CASE Starts
  BY <1>2, StartInvariant
<1>3. CASE SetsUpSecret
  BY <1>3, SecretInvariant
<1>4. ASSUME NEW st \in PrinterStates, NEW makeDefault \in BOOLEAN,
             \/ \E base \in DOMAIN Numbered : NewPrinter(base, st, makeDefault)
             \/ \E n \in Names : SetupPrinter(n, st, makeDefault)
      PROVE  IInv'
  BY <1>4, RequestInvariant
<1>5. ASSUME NEW n \in Names, DeletePrinter(n)
      PROVE  IInv'
  BY <1>5, DeleteInvariant
<1>6. CASE SecondHalf
  BY <1>6, SecondInvariant
<1>7. CASE Written
  BY <1>7, WrittenInvariant
<1>8. CASE WriteFails
  BY <1>8, WriteFailsInvariant
<1>9. CASE Dies
  BY <1>9, DiesInvariant
<1>10. CASE UNCHANGED vars
  BY <1>10 DEF vars, IInv, TypeOK, Defaults, DefaultAmong, KeysInUse,
               Restorable, Up, AllSafe, Holds, Safe, Keys
<1>11. QED
  BY <1>1, <1>2, <1>3, <1>4, <1>5, <1>6, <1>7, <1>8, <1>9, <1>10 DEF Next

(***************************************************************************)
(* The strengthened invariant, whose first part is the type of every       *)
(* variable: what the program has, what is in its tree and what is in its  *)
(* file agree, as far as the last write got.                               *)
(***************************************************************************)
THEOREM ConfigurationInductive == Spec => []IInv
<1>1. QED
  BY InitInvariant, StepInvariant, PTL DEF Spec

(* The types, from the first part of the invariant. *)
THEOREM ConfigurationTypes == Spec => []TypeOK
<1>1. IInv => TypeOK
  BY DEF IInv
<1>2. QED
  BY <1>1, ConfigurationInductive, PTL

(***************************************************************************)
(* The default printer is one there is, for any names and any number of    *)
(* requests, deaths and failed writes.                                     *)
(***************************************************************************)
THEOREM DefaultExists == Spec => []DefaultIsPrinter
<1>1. IInv => DefaultIsPrinter
  BY DEF IInv, Defaults, DefaultAmong, DefaultIsPrinter
<1>2. QED
  BY <1>1, ConfigurationInductive, PTL

(***************************************************************************)
(* A restart brings back the printers of the last request that was         *)
(* answered, or of a step of the one the program died in, as long as no    *)
(* write was cut short and no name is one that save loses.                 *)
(***************************************************************************)
THEOREM PrintersComeBack == Spec => RestartRestores
<1> DEFINE Step == pc = "down" /\ pc' # "down" /\ ~torn /\ known.admin > 0
                     /\ (\A r \in recent : Safe(r))
                   => pc' # "dead" /\ << printers', defaultPrinter' >> \in recent
<1>1. ASSUME IInv, Next PROVE Step
  <2> SUFFICES ASSUME pc = "down", pc' # "down", ~torn, known.admin > 0, AllSafe
               PROVE  pc' # "dead" /\ << printers', defaultPrinter' >> \in recent
    BY DEF AllSafe
  <2>1. file.loads /\ << file.printers, file.default >> \in recent
    BY <1>1 DEF IInv, Restorable
  <2>2. Starts
    BY <1>1, <2>1 DEF Next, FailsToStart, SetsUpSecret, NewPrinter, SetupPrinter,
                      DeletePrinter, Request, SecondHalf, Written, WriteFails, Dies
  <2>3. pc' # "dead"
    BY <2>2 DEF Starts, Write
  <2>4. QED
    BY <2>1, <2>2, <2>3 DEF Starts
<1>2. ASSUME IInv, [Next]_vars PROVE [Step]_vars
  BY <1>1, <1>2
<1>3. QED
  BY <1>2, ConfigurationInductive, PTL DEF Spec, RestartRestores

(***************************************************************************)
(* A user's password and keys are never replaced by new ones, unless a     *)
(* write of the file was cut short.                                        *)
(***************************************************************************)
THEOREM KeysStay == Spec => CredentialsKept
<1> DEFINE Step == \A k \in {"admin", "secret"} :
                     known'[k] # known[k] => known[k] = 0 \/ torn
<1>1. ASSUME IInv, Next PROVE Step
  <2>1. CASE Starts
    <3>1. CASE NeedsUser(file)
      BY <1>1, <2>1, <3>1 DEF Starts, NeedsUser, IInv, KeysInUse, Keys
    <3>2. CASE ~NeedsUser(file)
      BY <2>1, <3>2 DEF Starts
    <3>3. QED
      BY <3>1, <3>2
  <2>2. CASE SetsUpSecret
    <3>1. CASE config.secret = 0
      <4>1. Keys(config) = known /\ config \in Trees
        BY <1>1, <2>2 DEF SetsUpSecret, IInv, KeysInUse, Up, TypeOK
      <4>2. config' = [config EXCEPT !.secret = config.admin] /\ known' = Keys(config')
        BY <2>2, <3>1 DEF SetsUpSecret, Write
      <4>3. known'.admin = known.admin /\ known.secret = 0
        BY <3>1, <4>1, <4>2 DEF Keys, Trees
      <4>4. QED
        BY <4>3
    <3>2. CASE config.secret # 0
      BY <2>2, <3>2 DEF SetsUpSecret
    <3>3. QED
      BY <3>1, <3>2
  <2>3. CASE ~Starts /\ ~SetsUpSecret
    <3>1. known' = known
      BY <1>1, <2>3 DEF Next, FailsToStart, NewPrinter, SetupPrinter, DeletePrinter,
                        Request, SecondHalf, Written, WriteFails, Dies
    <3>2. QED
      BY <3>1
  <2>4. QED
    BY <2>1, <2>2, <2>3
<1>2. ASSUME IInv, [Next]_vars PROVE [Step]_vars
  BY <1>1, <1>2
<1>3. QED
  BY <1>2, ConfigurationInductive, PTL DEF Spec, CredentialsKept
=============================================================================
