---------------------------- MODULE IndexProofs ----------------------------
(***************************************************************************)
(* The index is a catalogue of closures, for any number of dnar-pack that  *)
(* share it, whatever they pack, and whatever becomes of the store.        *)
(*                                                                         *)
(* The invariant says what a transaction may rely on from its first query  *)
(* to its end: as long as it shares the database nobody else commits.      *)
(***************************************************************************)
EXTENDS Index, ListFacts

DomainsInv ==
  /\ DOMAIN pc = Packer /\ DOMAIN local = Packer /\ DOMAIN deploy = Packer
  /\ DOMAIN missing = Packer /\ DOMAIN started = Packer /\ DOMAIN running = Packer
  /\ DOMAIN readFailed = Packer /\ DOMAIN files = Packer
  /\ store \in [StorePath -> Build \cup {Gone}]

DbInv ==
  /\ db = [p \in DOMAIN db |-> db[p]]
  /\ DOMAIN db \subseteq StorePath
  /\ ClosedUnderRefs(DOMAIN db)

(* What was missing when the transaction began still is, and would make    *)
(* the index complete and closed.                                          *)
MissingInv(q) ==
  /\ ToSet(missing[q]) \cap DOMAIN db = {}
  /\ ClosedUnderRefs(DOMAIN db \cup ToSet(missing[q]))
  /\ AllPaths(q) \subseteq DOMAIN db \cup ToSet(missing[q])

(* A place whose worker has ended holds the files of the path of that      *)
(* place, unless one of the workers has failed.                            *)
FilesInv(q) ==
  /\ started[q] \in 0..Len(missing[q]) /\ running[q] \subseteq 1..started[q]
  /\ DOMAIN files[q] = DOMAIN missing[q]
  /\ readFailed[q] = FALSE =>
       \A i \in 1..started[q] : i \notin running[q] => files[q][i] \in {missing[q][i]} \X Build

PackerInv(q) ==
  /\ ToSet(local[q]) \subseteq StorePath /\ ToSet(deploy[q]) \subseteq StorePath
  /\ missing[q] \in Seq(StorePath)
  /\ readFailed[q] \in BOOLEAN
  /\ pc[q] \in {"idle", "gcroots", "requisites", "index"} =>
       started[q] = 0 /\ running[q] = {} /\ readFailed[q] = FALSE
  /\ pc[q] \in Ended => started[q] = 0 /\ running[q] = {} /\ readFailed[q] = FALSE
  /\ pc[q] \in {"read", "insert"} => MissingInv(q) /\ FilesInv(q)
  /\ pc[q] = "insert" =>
       started[q] = Len(missing[q]) /\ running[q] = {} /\ readFailed[q] = FALSE
  /\ pc[q] \in {"diff", "infos", "pack"} => AllPaths(q) \subseteq DOMAIN db

IndexInv == DomainsInv /\ DbInv /\ \A q \in Packer : PackerInv(q)

-----------------------------------------------------------------------------
(* Closures. *)

(* A closure is of store paths, closed, and of what it is taken of.        *)
LEMMA ClosureIs ==
  ASSUME NEW set \in SUBSET StorePath
  PROVE  /\ ClosureOf(set) \subseteq StorePath /\ set \subseteq ClosureOf(set)
         /\ ClosedUnderRefs(ClosureOf(set))
<1>1. ClosureOf(set) \subseteq StorePath /\ set \subseteq ClosureOf(set)
  BY DEF ClosureOf
<1>2. ASSUME NEW p \in ClosureOf(set), NEW r \in Refs[p]
      PROVE  r \in ClosureOf(set)
  <2>1. p \in StorePath /\ r \in StorePath
    BY <1>1, PathInfoAssumption
  <2>2. ASSUME NEW t \in SUBSET StorePath, set \subseteq t, ClosedUnderRefs(t)
        PROVE  r \in t
    BY <2>2 DEF ClosureOf, ClosedUnderRefs
  <2> QED BY <2>1, <2>2 DEF ClosureOf
<1> QED BY <1>1, <1>2 DEF ClosedUnderRefs

(* nix-store lists a closure. *)
LEMMA RequisitesAre ==
  ASSUME NEW set
  PROVE  QueryRequisites(set) \in Seq(StorePath) /\ ToSet(QueryRequisites(set)) \subseteq StorePath
<1>1. ClosureOf(set) \in SUBSET StorePath
  BY DEF ClosureOf
<1> QED BY <1>1, IndexAssumption DEF QueryRequisites

(* What is missing makes the index complete: the union of closed sets is   *)
(* closed.                                                                 *)
LEMMA MissingCompletes ==
  ASSUME DbInv, NEW set \in SUBSET StorePath, NEW absent, absent = InOrder(ClosureOf(set) \ DOMAIN db)
  PROVE  /\ absent \in Seq(StorePath) /\ ToSet(absent) \cap DOMAIN db = {}
         /\ ClosedUnderRefs(DOMAIN db \cup ToSet(absent))
         /\ set \subseteq DOMAIN db \cup ToSet(absent)
<1>1. /\ ClosureOf(set) \subseteq StorePath /\ set \subseteq ClosureOf(set)
      /\ ClosedUnderRefs(ClosureOf(set))
  BY ClosureIs
<1>2. absent \in Seq(StorePath) /\ ToSet(absent) = ClosureOf(set) \ DOMAIN db
  BY <1>1, IndexAssumption
<1>3. DOMAIN db \cup ToSet(absent) = DOMAIN db \cup ClosureOf(set)
  BY <1>2
<1>4. ClosedUnderRefs(DOMAIN db \cup ClosureOf(set))
  BY <1>1 DEF DbInv, ClosedUnderRefs
<1> QED BY <1>1, <1>2, <1>3, <1>4

-----------------------------------------------------------------------------
(* One dnar-pack moves, the others stay as they are. *)

Untouched(q) ==
  \A r \in Packer \ {q} :
    /\ pc'[r] = pc[r] /\ local'[r] = local[r] /\ deploy'[r] = deploy[r] /\ missing'[r] = missing[r]
    /\ started'[r] = started[r] /\ running'[r] = running[r]
    /\ readFailed'[r] = readFailed[r] /\ files'[r] = files[r]

(* Those that do not move keep what they rely on while the index stays.    *)
LEMMA OneMoves ==
  ASSUME IndexInv, NEW q \in Packer, UNCHANGED db, Untouched(q), DomainsInv', PackerInv(q)'
  PROVE  IndexInv'
<1>1. DbInv'
  BY DEF IndexInv, DbInv, ClosedUnderRefs
<1>2. ASSUME NEW r \in Packer, r # q
      PROVE  PackerInv(r)'
  <2>1. /\ pc'[r] = pc[r] /\ local'[r] = local[r] /\ deploy'[r] = deploy[r]
        /\ missing'[r] = missing[r] /\ started'[r] = started[r] /\ running'[r] = running[r]
        /\ readFailed'[r] = readFailed[r] /\ files'[r] = files[r]
    BY <1>2 DEF Untouched
  <2>2. PackerInv(r)
    BY DEF IndexInv
  <2>3. AllPaths(r)' = AllPaths(r)
    BY <2>1 DEF AllPaths
  <2>4. MissingInv(r) => MissingInv(r)'
    BY <2>1, <2>3 DEF MissingInv, ClosedUnderRefs
  <2>5. FilesInv(r) => FilesInv(r)'
    BY <2>1 DEF FilesInv
  <2> QED BY <2>1, <2>2, <2>3, <2>4, <2>5 DEF PackerInv, Ended
<1> QED BY <1>1, <1>2 DEF IndexInv

(* Nothing is left of a dnar-pack that has ended. *)
LEMMA EndKeeps ==
  ASSUME IndexInv, NEW q \in Packer, NEW label \in {"failed", "done"}, End(q, label)
  PROVE  IndexInv'
<1>1. DomainsInv' /\ Untouched(q) /\ UNCHANGED db
  BY DEF IndexInv, DomainsInv, End, Goto, Untouched, storeVars
<1>2. /\ local'[q] = <<>> /\ deploy'[q] = <<>> /\ missing'[q] = <<>> /\ started'[q] = 0
      /\ running'[q] = {} /\ readFailed'[q] = FALSE /\ pc'[q] \in {"failed", "done"}
  BY DEF IndexInv, DomainsInv, End, Goto
<1>3. ToSet(<<>>) = {} /\ <<>> \in Seq(StorePath)
  BY DEF ToSet
<1>4. PackerInv(q)'
  BY <1>2, <1>3 DEF PackerInv
<1> QED BY <1>1, <1>4, OneMoves

(* It starts, and asks for the closures of what the host and it are to     *)
(* have.                                                                   *)
LEMMA StartKeeps ==
  ASSUME IndexInv, NEW q \in Packer, NEW j \in Job, Start(q, j)
  PROVE  IndexInv'
<1>1. /\ pc[q] \in Ended /\ pc' = [pc EXCEPT ![q] = "gcroots"]
      /\ UNCHANGED <<store, changes, db, local, deploy, missing, started, running, readFailed, files>>
  BY DEF Start, Goto, storeVars, dbVars, readVars
<1>2. DomainsInv' /\ Untouched(q) /\ UNCHANGED db
  BY <1>1 DEF IndexInv, DomainsInv, Untouched
<1>3. PackerInv(q)'
  BY <1>1 DEF IndexInv, DomainsInv, PackerInv, Ended
<1> QED BY <1>2, <1>3, OneMoves

LEMMA ReadGCRootsKeeps ==
  ASSUME IndexInv, NEW q \in Packer, ReadGCRoots(q)
  PROVE  IndexInv'
<1>1. CASE FailWith(q)
  BY <1>1, EndKeeps DEF FailWith
<1>2. CASE ~FailWith(q)
  <2>1. PICK paths : /\ paths \in Seq(StorePath) /\ ToSet(paths) \subseteq StorePath
                     /\ pc[q] = "gcroots" /\ pc' = [pc EXCEPT ![q] = "requisites"]
                     /\ local' = [local EXCEPT ![q] = paths]
                     /\ UNCHANGED <<store, changes, db, deploy, missing, started, running, readFailed, files>>
    BY <1>2, RequisitesAre DEF ReadGCRoots, Goto, storeVars, dbVars, readVars
  <2>2. DomainsInv' /\ Untouched(q) /\ UNCHANGED db
    BY <2>1 DEF IndexInv, DomainsInv, Untouched
  <2>3. PackerInv(q)'
    BY <2>1 DEF IndexInv, DomainsInv, PackerInv, Ended
  <2> QED BY <2>2, <2>3, OneMoves
<1> QED BY <1>1, <1>2

LEMMA QueryClosureKeeps ==
  ASSUME IndexInv, NEW q \in Packer, QueryClosure(q)
  PROVE  IndexInv'
<1>1. CASE FailWith(q)
  BY <1>1, EndKeeps DEF FailWith
<1>2. CASE ~FailWith(q)
  <2>1. PICK paths : /\ paths \in Seq(StorePath) /\ ToSet(paths) \subseteq StorePath
                     /\ pc[q] = "requisites" /\ pc' = [pc EXCEPT ![q] = "index"]
                     /\ deploy' = [deploy EXCEPT ![q] = paths]
                     /\ UNCHANGED <<store, changes, db, local, missing, started, running, readFailed, files>>
    BY <1>2, RequisitesAre DEF QueryClosure, Goto, storeVars, dbVars, readVars
  <2>2. DomainsInv' /\ Untouched(q) /\ UNCHANGED db
    BY <2>1 DEF IndexInv, DomainsInv, Untouched
  <2>3. PackerInv(q)'
    BY <2>1 DEF IndexInv, DomainsInv, PackerInv, Ended
  <2> QED BY <2>2, <2>3, OneMoves
<1> QED BY <1>1, <1>2

(* The transaction begins. *)
LEMMA LookUpKeeps ==
  ASSUME IndexInv, NEW q \in Packer, LookUp(q)
  PROVE  IndexInv'
<1>1. CASE FailWith(q)
  BY <1>1, EndKeeps DEF FailWith
<1>2. CASE ~FailWith(q)
  <2>1. PICK absent : absent = InOrder(ClosureOf(AllPaths(q)) \ DOMAIN db)
    OBVIOUS
  <2>2. /\ pc[q] = "index" /\ pc' = [pc EXCEPT ![q] = "read"]
        /\ missing' = [missing EXCEPT ![q] = absent]
        /\ files' = [files EXCEPT ![q] = [i \in DOMAIN absent |-> <<>>]]
        /\ UNCHANGED <<store, changes, db, local, deploy, started, running, readFailed>>
    BY <1>2, <2>1 DEF LookUp, Goto, storeVars, dbVars
  <2>3. AllPaths(q) \subseteq StorePath
    BY DEF IndexInv, PackerInv, AllPaths
  <2>4. /\ absent \in Seq(StorePath) /\ ToSet(absent) \cap DOMAIN db = {}
        /\ ClosedUnderRefs(DOMAIN db \cup ToSet(absent))
        /\ AllPaths(q) \subseteq DOMAIN db \cup ToSet(absent)
    BY <2>1, <2>3, MissingCompletes DEF IndexInv
  <2>5. /\ missing'[q] = absent /\ files'[q] = [i \in DOMAIN absent |-> <<>>] /\ pc'[q] = "read"
        /\ AllPaths(q)' = AllPaths(q)
    BY <2>2 DEF IndexInv, DomainsInv, AllPaths
  <2>6. started'[q] = 0 /\ running'[q] = {} /\ readFailed'[q] = FALSE
    BY <2>2 DEF IndexInv, PackerInv
  <2>7. MissingInv(q)'
    BY <2>2, <2>4, <2>5 DEF MissingInv, ClosedUnderRefs
  <2>8. FilesInv(q)'
    BY <2>4, <2>5, <2>6 DEF FilesInv
  <2>9. DomainsInv' /\ Untouched(q) /\ UNCHANGED db
    BY <2>2 DEF IndexInv, DomainsInv, Untouched
  <2>10. PackerInv(q)'
    BY <2>2, <2>4, <2>5, <2>6, <2>7, <2>8 DEF IndexInv, PackerInv, Ended
  <2> QED BY <2>9, <2>10, OneMoves
<1> QED BY <1>1, <1>2

-----------------------------------------------------------------------------
(* The store paths are read. *)

LEMMA StartWorkerKeeps ==
  ASSUME IndexInv, NEW q \in Packer, StartWorker(q)
  PROVE  IndexInv'
<1>1. /\ pc[q] = "read" /\ started[q] < Len(missing[q])
      /\ started' = [started EXCEPT ![q] = started[q] + 1]
      /\ running' = [running EXCEPT ![q] = running[q] \cup {started[q] + 1}]
      /\ UNCHANGED <<store, db, pc, local, deploy, missing, readFailed, files>>
  BY DEF StartWorker, storeVars, dbVars
<1>2. /\ started'[q] = started[q] + 1 /\ running'[q] = running[q] \cup {started[q] + 1}
      /\ pc'[q] = "read"
  BY <1>1 DEF IndexInv, DomainsInv
<1>3. MissingInv(q) /\ FilesInv(q) /\ missing[q] \in Seq(StorePath)
  BY <1>1 DEF IndexInv, PackerInv
<1>4. DomainsInv' /\ Untouched(q) /\ UNCHANGED db
  BY <1>1 DEF IndexInv, DomainsInv, Untouched
<1>5. FilesInv(q)'
  <2>1. started[q] \in Nat /\ Len(missing[q]) \in Nat
    BY <1>3 DEF FilesInv
  <2>2. started'[q] \in 0..Len(missing[q]) /\ running'[q] \subseteq 1..started'[q]
    BY <1>1, <1>2, <1>3, <2>1 DEF FilesInv
  <2>3. ASSUME readFailed[q] = FALSE, NEW i \in 1..started'[q], i \notin running'[q]
        PROVE  files[q][i] \in {missing[q][i]} \X Build
    <3>1. i \in 1..started[q] /\ i \notin running[q]
      BY <1>2, <2>1, <2>3
    <3> QED BY <1>3, <2>3, <3>1 DEF FilesInv
  <2> QED BY <1>1, <1>3, <2>2, <2>3 DEF FilesInv
<1>6. MissingInv(q)'
  BY <1>1, <1>3 DEF MissingInv, AllPaths, ClosedUnderRefs
<1>7. PackerInv(q)'
  BY <1>1, <1>2, <1>5, <1>6 DEF IndexInv, PackerInv, Ended
<1> QED BY <1>4, <1>7, OneMoves

(* A worker ends with the files of its own path, or it fails and all will. *)
LEMMA ReadKeeps ==
  ASSUME IndexInv, NEW q \in Packer, NEW i \in running[q], ReadStorePath(q, i) \/ ReadFails(q, i)
  PROVE  IndexInv'
<1>1. /\ pc[q] = "read" /\ running' = [running EXCEPT ![q] = running[q] \ {i}]
      /\ UNCHANGED <<store, db, pc, local, deploy, missing, started>>
  BY DEF ReadStorePath, ReadFails, WorkerEnds, storeVars, dbVars
<1>2. running'[q] = running[q] \ {i} /\ pc'[q] = "read"
  BY <1>1 DEF IndexInv, DomainsInv
<1>3. /\ MissingInv(q) /\ FilesInv(q) /\ missing[q] \in Seq(StorePath)
      /\ readFailed[q] \in BOOLEAN
  BY <1>1 DEF IndexInv, PackerInv
<1>4. i \in 1..Len(missing[q]) /\ i \in DOMAIN files[q] /\ missing[q][i] \in StorePath
  BY <1>3 DEF FilesInv
<1>5. /\ readFailed'[q] \in BOOLEAN /\ DomainsInv' /\ Untouched(q) /\ UNCHANGED db
      /\ FilesInv(q)'
  <2>1. CASE ReadStorePath(q, i)
    <3>1. PICK read : read = FilesOf(missing[q][i])
      OBVIOUS
    <3>2. /\ files' = [files EXCEPT ![q] = [files[q] EXCEPT ![i] = read]]
          /\ readFailed' = readFailed /\ store[missing[q][i]] # Gone
      BY <2>1, <3>1 DEF ReadStorePath
    <3>3. read \in {missing[q][i]} \X Build
      BY <3>1, <3>2, <1>4 DEF FilesOf, IndexInv, DomainsInv
    <3>4. files'[q] = [files[q] EXCEPT ![i] = read]
      BY <3>2 DEF IndexInv, DomainsInv
    <3>5. FilesInv(q)'
      BY <1>1, <1>2, <1>3, <1>4, <3>2, <3>3, <3>4 DEF FilesInv
    <3>6. DomainsInv' /\ Untouched(q)
      BY <1>1, <3>2 DEF IndexInv, DomainsInv, Untouched
    <3> QED BY <1>1, <1>3, <3>2, <3>5, <3>6
  <2>2. CASE ReadFails(q, i)
    <3>1. readFailed' = [readFailed EXCEPT ![q] = TRUE] /\ files' = files
      BY <2>2 DEF ReadFails
    <3>2. readFailed'[q] = TRUE
      BY <3>1 DEF IndexInv, DomainsInv
    <3>3. FilesInv(q)'
      BY <1>1, <1>2, <1>3, <3>1, <3>2 DEF FilesInv
    <3>4. DomainsInv' /\ Untouched(q)
      BY <1>1, <3>1 DEF IndexInv, DomainsInv, Untouched
    <3> QED BY <1>1, <3>2, <3>3, <3>4
  <2> QED BY <2>1, <2>2
<1>6. MissingInv(q)'
  BY <1>1, <1>3 DEF MissingInv, AllPaths, ClosedUnderRefs
<1>7. PackerInv(q)'
  BY <1>1, <1>2, <1>5, <1>6 DEF IndexInv, PackerInv, Ended
<1> QED BY <1>5, <1>7, OneMoves

LEMMA WaitKeeps ==
  ASSUME IndexInv, NEW q \in Packer, Wait(q)
  PROVE  IndexInv'
<1>1. CASE readFailed[q]
  BY <1>1, EndKeeps DEF Wait, FailWith
<1>2. CASE ~readFailed[q]
  <2>1. /\ pc[q] = "read" /\ started[q] = Len(missing[q]) /\ running[q] = {}
        /\ pc' = [pc EXCEPT ![q] = "insert"]
        /\ UNCHANGED <<store, db, local, deploy, missing, started, running, readFailed, files>>
    BY <1>2 DEF Wait, Goto, storeVars, dbVars, readVars
  <2>2. pc'[q] = "insert"
    BY <2>1 DEF IndexInv, DomainsInv
  <2>3. MissingInv(q) /\ FilesInv(q) /\ readFailed[q] \in BOOLEAN
    BY <2>1 DEF IndexInv, PackerInv
  <2>4. MissingInv(q)' /\ FilesInv(q)'
    BY <2>1, <2>3 DEF MissingInv, FilesInv, AllPaths, ClosedUnderRefs
  <2>5. PackerInv(q)'
    BY <1>2, <2>1, <2>2, <2>3, <2>4 DEF IndexInv, PackerInv, Ended
  <2>6. DomainsInv' /\ Untouched(q) /\ UNCHANGED db
    BY <2>1 DEF IndexInv, DomainsInv, Untouched
  <2> QED BY <2>5, <2>6, OneMoves
<1> QED BY <1>1, <1>2

-----------------------------------------------------------------------------
(* The rows are written and committed. *)

LEMMA CreateStorePathKeeps ==
  ASSUME IndexInv, NEW q \in Packer, CreateStorePath(q)
  PROVE  IndexInv'
<1>1. CASE FailWith(q)
  BY <1>1, EndKeeps DEF FailWith
<1>2. CASE ~FailWith(q)
  <2>1. UNCHANGED <<store, db, pc, local, deploy, missing, started, running, readFailed, files>>
    BY <1>2 DEF CreateStorePath, storeVars, readVars
  <2>2. DomainsInv' /\ Untouched(q)
    BY <2>1 DEF IndexInv, DomainsInv, Untouched
  <2>3. PackerInv(q)'
    BY <2>1 DEF IndexInv, PackerInv, MissingInv, FilesInv, AllPaths, ClosedUnderRefs, Ended
  <2> QED BY <2>1, <2>2, <2>3, OneMoves
<1> QED BY <1>1, <1>2

(* What is committed: the files of each path that was missing, under it.   *)
LEMMA CommitAdds ==
  ASSUME IndexInv, NEW q \in Packer, Commit(q)
  PROVE  /\ db' = [p \in DOMAIN db' |-> db'[p]]
         /\ DOMAIN db' = DOMAIN db \cup ToSet(missing[q])
         /\ \A p \in DOMAIN db : db'[p] = db[p]
         /\ \A p \in ToSet(missing[q]) : db'[p] \in {p} \X Build
<1>1. PICK files_ : files_ = [p \in DOMAIN db \cup ToSet(missing[q]) |->
              IF p \in DOMAIN db THEN db[p] ELSE files[q][CHOOSE i \in DOMAIN missing[q] : missing[q][i] = p]]
  OBVIOUS
<1>2. db' = files_
  BY <1>1 DEF Commit
<1>3. /\ MissingInv(q) /\ FilesInv(q) /\ missing[q] \in Seq(StorePath)
      /\ started[q] = Len(missing[q]) /\ running[q] = {} /\ readFailed[q] = FALSE
  BY DEF IndexInv, PackerInv, Commit
<1>4. ASSUME NEW p \in ToSet(missing[q])
      PROVE  files_[p] \in {p} \X Build
  <2>1. PICK i \in DOMAIN missing[q] : i = CHOOSE j \in DOMAIN missing[q] : missing[q][j] = p
    BY DEF ToSet
  <2>2. missing[q][i] = p
    BY <2>1 DEF ToSet
  <2>3. files_[p] = files[q][i]
    BY <1>1, <1>3, <2>1 DEF MissingInv
  <2>4. i \in 1..started[q] /\ i \notin running[q]
    BY <1>3
  <2> QED BY <1>3, <2>2, <2>3, <2>4 DEF FilesInv
<1>5. DOMAIN files_ = DOMAIN db \cup ToSet(missing[q])
  BY <1>1
<1>6. \A p \in DOMAIN db : files_[p] = db[p]
  BY <1>1
<1>7. files_ = [p \in DOMAIN files_ |-> files_[p]]
  BY <1>1
<1> QED BY <1>2, <1>4, <1>5, <1>6, <1>7

(* A commit of something leaves nobody with lookups of an older index. *)
LEMMA CommitKeeps ==
  ASSUME IndexInv, NEW q \in Packer, Commit(q)
  PROVE  IndexInv'
<1>1. /\ db' = [p \in DOMAIN db' |-> db'[p]]
      /\ DOMAIN db' = DOMAIN db \cup ToSet(missing[q])
  BY CommitAdds
<1>2. /\ pc[q] = "insert" /\ pc' = [pc EXCEPT ![q] = "diff"]
      /\ missing[q] = <<>> \/ \A r \in Packer \ {q} : ~Shares(r)
      /\ UNCHANGED <<store, local, deploy, missing, started, running, readFailed, files>>
  BY DEF Commit, Goto, storeVars, readVars
<1>3. MissingInv(q) /\ missing[q] \in Seq(StorePath)
  BY <1>2 DEF IndexInv, PackerInv
<1>4. DbInv'
  <2>1. DOMAIN db' \subseteq StorePath
    BY <1>1, <1>3 DEF IndexInv, DbInv, ToSet
  <2>2. ClosedUnderRefs(DOMAIN db')
    BY <1>1, <1>3 DEF MissingInv
  <2> QED BY <1>1, <2>1, <2>2 DEF DbInv, ClosedUnderRefs
<1>5. DomainsInv' /\ Untouched(q)
  BY <1>2 DEF IndexInv, DomainsInv, Untouched
<1>6. pc'[q] = "diff"
  BY <1>2 DEF IndexInv, DomainsInv
<1>7. PackerInv(q)'
  <2>1. AllPaths(q)' \subseteq DOMAIN db'
    BY <1>1, <1>2, <1>3 DEF MissingInv, AllPaths
  <2> QED BY <1>2, <1>6, <2>1 DEF IndexInv, PackerInv, Ended
<1>8. ASSUME NEW r \in Packer, r # q
      PROVE  PackerInv(r)'
  <2>1. /\ pc'[r] = pc[r] /\ local'[r] = local[r] /\ deploy'[r] = deploy[r]
        /\ missing'[r] = missing[r] /\ started'[r] = started[r] /\ running'[r] = running[r]
        /\ readFailed'[r] = readFailed[r] /\ files'[r] = files[r]
    BY <1>5, <1>8 DEF Untouched
  <2>2. PackerInv(r)
    BY DEF IndexInv
  <2>3. AllPaths(r)' = AllPaths(r)
    BY <2>1 DEF AllPaths
  <2>4. FilesInv(r) => FilesInv(r)'
    BY <2>1 DEF FilesInv
  <2>5. pc[r] \in {"read", "insert"} /\ MissingInv(r) => MissingInv(r)'
    <3>1. CASE missing[q] = <<>>
      <4>1. ToSet(<<>>) = {}
        BY DEF ToSet
      <4>2. DOMAIN db' = DOMAIN db
        BY <1>1, <3>1, <4>1
      <4> QED BY <2>1, <2>3, <4>2 DEF MissingInv, ClosedUnderRefs
    <3>2. CASE missing[q] # <<>>
      BY <1>2, <1>8, <3>2 DEF Shares
    <3> QED BY <3>1, <3>2
  <2>6. AllPaths(r) \subseteq DOMAIN db => AllPaths(r)' \subseteq DOMAIN db'
    BY <1>1, <2>3
  <2> QED BY <2>1, <2>2, <2>4, <2>5, <2>6 DEF PackerInv, Ended
<1> QED BY <1>4, <1>5, <1>7, <1>8 DEF IndexInv

(* What is to be sent changes nothing of this. *)
LEMMA SendKeeps ==
  ASSUME IndexInv, NEW q \in Packer, Diff(q) \/ QueryPathInfos(q)
  PROVE  IndexInv'
<1>1. CASE FailWith(q)
  BY <1>1, EndKeeps DEF FailWith
<1>2. CASE ~FailWith(q)
  <2>1. PICK label \in {"infos", "pack"} :
          /\ pc[q] \in {"diff", "infos"} /\ pc' = [pc EXCEPT ![q] = label]
          /\ UNCHANGED <<store, db, local, deploy, missing, started, running, readFailed, files>>
    BY <1>2 DEF Diff, QueryPathInfos, Goto, storeVars, dbVars, readVars
  <2>2. DomainsInv' /\ Untouched(q)
    BY <2>1 DEF IndexInv, DomainsInv, Untouched
  <2>3. pc'[q] = label /\ AllPaths(q)' = AllPaths(q)
    BY <2>1 DEF IndexInv, DomainsInv, AllPaths
  <2>4. PackerInv(q)'
    BY <2>1, <2>3 DEF IndexInv, PackerInv, Ended
  <2> QED BY <2>1, <2>2, <2>4, OneMoves
<1> QED BY <1>1, <1>2

(* The store changes, or nothing does. *)
LEMMA StoreKeeps ==
  ASSUME IndexInv, ChangeStore \/ UNCHANGED indexVars
  PROVE  IndexInv'
<1>1. UNCHANGED <<db, pc, local, deploy, missing, started, running, readFailed, files>>
  BY DEF ChangeStore, indexVars, dbVars, readVars
<1>2. store' \in [StorePath -> Build \cup {Gone}]
  BY DEF ChangeStore, indexVars, storeVars, IndexInv, DomainsInv
<1>3. DomainsInv' /\ DbInv'
  BY <1>1, <1>2 DEF IndexInv, DomainsInv, DbInv, ClosedUnderRefs
<1>4. ASSUME NEW q \in Packer
      PROVE  PackerInv(q)'
  BY <1>1 DEF IndexInv, PackerInv, MissingInv, FilesInv, AllPaths, ClosedUnderRefs, Ended
<1> QED BY <1>3, <1>4 DEF IndexInv

-----------------------------------------------------------------------------
(* The invariant of the index. *)

LEMMA InitKeeps == IndexInit => IndexInv
<1> SUFFICES ASSUME IndexInit PROVE IndexInv
  OBVIOUS
<1>1. DomainsInv /\ DbInv
  BY DEF IndexInit, DomainsInv, DbInv, ClosedUnderRefs
<1>2. ToSet(<<>>) = {} /\ <<>> \in Seq(StorePath)
  BY DEF ToSet
<1>3. ASSUME NEW q \in Packer
      PROVE  PackerInv(q)
  <2>1. /\ local[q] = <<>> /\ deploy[q] = <<>> /\ missing[q] = <<>> /\ pc[q] = "idle"
        /\ started[q] = 0 /\ running[q] = {} /\ readFailed[q] = FALSE
    BY DEF IndexInit
  <2> QED BY <1>2, <2>1 DEF PackerInv
<1> QED BY <1>1, <1>3 DEF IndexInv

LEMMA StepKeeps == IndexInv /\ [IndexNext]_indexVars => IndexInv'
<1> SUFFICES ASSUME IndexInv, [IndexNext]_indexVars PROVE IndexInv'
  OBVIOUS
<1>1. CASE ChangeStore \/ UNCHANGED indexVars
  BY <1>1, StoreKeeps
<1>2. ASSUME NEW q \in Packer, PackerStep(q) \/ Kill(q) \/ \E j \in Job : Start(q, j)
      PROVE  IndexInv'
  <2>1. CASE ReadGCRoots(q) \/ QueryClosure(q) \/ LookUp(q)
    BY <2>1, ReadGCRootsKeeps, QueryClosureKeeps, LookUpKeeps
  <2>2. CASE StartWorker(q) \/ Wait(q) \/ \E i \in running[q] : ReadStorePath(q, i) \/ ReadFails(q, i)
    BY <2>2, StartWorkerKeeps, WaitKeeps, ReadKeeps
  <2>3. CASE CreateStorePath(q) \/ Commit(q)
    BY <2>3, CreateStorePathKeeps, CommitKeeps
  <2>4. CASE Diff(q) \/ QueryPathInfos(q)
    BY <2>4, SendKeeps
  <2>5. CASE Busy(q) \/ Kill(q)
    BY <2>5, EndKeeps DEF Busy, Kill, FailWith
  <2>6. CASE WriteDNAR(q)
    BY <2>6, EndKeeps DEF WriteDNAR
  <2>7. CASE \E j \in Job : Start(q, j)
    BY <2>7, StartKeeps
  <2> QED BY <1>2, <2>1, <2>2, <2>3, <2>4, <2>5, <2>6, <2>7 DEF PackerStep
<1> QED BY <1>1, <1>2 DEF IndexNext

(* The invariant holds whatever happens to the store and to the others.    *)
THEOREM IndexInvariant == IndexSpec => []IndexInv
BY InitKeeps, StepKeeps, PTL DEF IndexSpec

(* The paths a dnar-pack has found to be missing are missing until it has  *)
(* written them, for any number of dnar-pack on one database.              *)
THEOREM IndexMissingStays == IndexSpec => []MissingStays
<1>1. IndexInv => MissingStays
  BY DEF IndexInv, PackerInv, MissingInv, MissingStays
<1> QED BY <1>1, IndexInvariant, PTL

(* An archive is written from an index that has every store path it may    *)
(* tell of.                                                                *)
THEOREM IndexAllIndexed == IndexSpec => []AllIndexed
<1>1. IndexInv => AllIndexed
  BY DEF IndexInv, PackerInv, AllPaths, AllIndexed
<1> QED BY <1>1, IndexInvariant, PTL

-----------------------------------------------------------------------------
(* What is sent. *)

(* The closure to deploy is that of the path the dnar-pack was started     *)
(* for, what it sends is what the host misses of it, and what nix told is  *)
(* right.                                                                  *)
SendInv(q) ==
  /\ job[q] \subseteq Job
  /\ pc[q] \in {"index", "read", "insert", "diff", "infos", "pack"} =>
       deploy[q] = QueryRequisites({j.path : j \in job[q]})
  /\ pc[q] \in {"infos", "pack"} =>
       new[q] = Kept(deploy[q], ToSet(deploy[q]) \ ToSet(local[q]))
  /\ pc[q] = "pack" =>
       \A p \in ToSet(new[q]) : \E build \in Build : infos[q][Full(p)] = Info(p, build)

SendingInv ==
  /\ DOMAIN job = Packer /\ DOMAIN new = Packer /\ DOMAIN infos = Packer
  /\ \A q \in Packer : SendInv(q)

(* nix-store lists what a path refers to before it, and so does a list of  *)
(* some of these paths for those that are in it.                           *)
RefsBefore(sent, there) ==
  \A m \in DOMAIN sent : Refs[sent[m]] \subseteq there \cup {sent[l] : l \in 1..m}

LEMMA KeptInOrder ==
  ASSUME NEW set \in SUBSET StorePath, NEW there, NEW list, NEW sent,
         list = QueryRequisites(set), sent = Kept(list, ToSet(list) \ there)
  PROVE  /\ sent \in Seq(StorePath) /\ ToSet(sent) = ClosureOf(set) \ there
         /\ RefsBefore(sent, there)
<1>1. PICK closure \in SUBSET StorePath :
        closure = ClosureOf(set) /\ ClosedUnderRefs(closure) /\ list = InOrder(closure)
  BY ClosureIs DEF QueryRequisites
<1>2. /\ list \in Seq(StorePath) /\ ToSet(list) = closure
      /\ \A i \in DOMAIN list : Refs[list[i]] \cap closure \subseteq {list[j] : j \in 1..i}
  BY <1>1, IndexAssumption
<1>3. PICK wanted : wanted = closure \ there
  OBVIOUS
<1>4. sent = Kept(list, wanted)
  BY <1>2, <1>3
<1>5. /\ sent \in Seq(StorePath) /\ ToSet(sent) = ToSet(list) \cap wanted
      /\ OrderKept(sent, list, wanted)
  <2>1. list \in Seq(StorePath)
    BY <1>2
  <2>2. /\ Kept(list, wanted) \in Seq(StorePath)
        /\ ToSet(Kept(list, wanted)) = ToSet(list) \cap wanted
        /\ OrderKept(Kept(list, wanted), list, wanted)
    BY <2>1, KeptIs
  <2> QED BY <1>4, <2>2
<1>6. ASSUME NEW m \in 1..Len(sent), NEW r \in Refs[sent[m]], r \notin there
      PROVE  r \in {sent[l] : l \in 1..m}
  <2>1. PICK i \in 1..Len(list) :
          /\ list[i] = sent[m]
          /\ \A j \in 1..i : list[j] \in wanted => \E l \in 1..m : sent[l] = list[j]
    BY <1>5 DEF OrderKept
  <2>2. list[i] \in closure
    BY <1>2, <2>1 DEF ToSet
  <2>3. r \in closure
    BY <1>1, <1>6, <2>1, <2>2 DEF ClosedUnderRefs
  <2>4. PICK j \in 1..i : list[j] = r
    <3>1. i \in DOMAIN list
      BY <1>2
    <3>2. Refs[list[i]] \cap closure \subseteq {list[j] : j \in 1..i}
      BY <1>2, <3>1
    <3>3. r \in Refs[list[i]] \cap closure
      BY <1>6, <2>1, <2>3
    <3> QED BY <3>2, <3>3
  <2>5. list[j] \in wanted
    BY <1>3, <1>6, <2>3, <2>4
  <2> QED BY <2>1, <2>4, <2>5
<1>7. DOMAIN sent = 1..Len(sent)
  BY <1>5
<1>8. RefsBefore(sent, there)
  BY <1>6, <1>7 DEF RefsBefore
<1> QED BY <1>1, <1>2, <1>3, <1>5, <1>8

(* A reference is its base name, however it is printed. *)
LEMMA BasesAre ==
  ASSUME NEW p
  PROVE  Base(Full(p)) = <<p>> /\ Base(<<p>>) = <<p>> /\ <<StoreDir>> \o <<p>> = Full(p)
<1>1. Len(Full(p)) = 2 /\ Full(p)[2] = p /\ Len(<<p>>) = 1 /\ <<p>>[1] = p
  BY DEF Full
<1>2. Base(Full(p)) = <<p>> /\ Base(<<p>>) = <<p>>
  BY <1>1 DEF Base
<1>3. <<StoreDir>> \o <<p>> = <<StoreDir, p>>
  <2>1. PICK s, t, X : s = <<StoreDir>> /\ t = <<p>> /\ X = {StoreDir, p}
    OBVIOUS
  <2>2. s \in Seq(X) /\ t \in Seq(X) /\ Len(s) = 1 /\ Len(t) = 1 /\ s[1] = StoreDir /\ t[1] = p
    BY <2>1
  <2>3. PICK u, v : u = s \o t /\ v = <<StoreDir, p>>
    OBVIOUS
  <2>4. u \in Seq(X) /\ Len(u) = 2 /\ u[1] = StoreDir /\ u[2] = p
    BY <2>2, <2>3, ConcatProperties
  <2>5. v \in Seq(X) /\ Len(v) = 2 /\ v[1] = StoreDir /\ v[2] = p
    BY <2>1, <2>3
  <2>6. \A i \in 1..Len(u) : u[i] = v[i]
    BY <2>4, <2>5
  <2>7. u = v
    BY <2>4, <2>5, <2>6, SeqEqual
  <2> QED BY <2>1, <2>3, <2>7
<1> QED BY <1>2, <1>3 DEF Full

LEMMA EntriesAreInfos ==
  ASSUME NEW p, NEW hash, NEW full \in BOOLEAN
  PROVE  EntryOf(Printed(p, hash, full)) = Info(p, hash)
<1>1. PICK entry : entry = Printed(p, hash, full)
  OBVIOUS
<1>2. /\ entry.narHash = hash
      /\ entry.references = {IF full THEN Full(r) ELSE Base(Full(r)) : r \in Refs[p]}
  BY <1>1 DEF Printed
<1>3. \A r : Base(IF full THEN Full(r) ELSE Base(Full(r))) = Base(Full(r))
  BY BasesAre
<1>4. {Base(r) : r \in entry.references} = {Base(Full(r)) : r \in Refs[p]}
  BY <1>2, <1>3
<1> QED BY <1>1, <1>2, <1>4 DEF EntryOf, Info

(* Whatever the implementation prints and whichever format was settled     *)
(* for, the entry of a path that is in the map is right.                   *)
LEMMA PathInfosRight ==
  ASSUME NEW nix \in Implementation, NEW hashes, NEW map \in GetPathInfos(nix, hashes),
         NEW p \in DOMAIN hashes, Full(p) \in DOMAIN map
  PROVE  map[Full(p)] = Info(p, hashes[p])
<1>1. PICK format, out : /\ format \in Probed(nix) /\ out = Output(nix, format = "v2", hashes)
                         /\ map \in ParsePathInfos(out, format)
  BY DEF GetPathInfos
<1>2. format \in {"object", "array", "v2"} /\ (format = "v2" => nix = "v2")
  BY <1>1 DEF Probed
<1>3. /\ out.shape = format
      /\ map = [path \in {KeyOf(e[1], format) : e \in out.entries} |->
                  EntryOf((CHOOSE e \in out.entries : KeyOf(e[1], format) = path)[2])]
  <2>1. ~(out.shape = "object" /\ format = "v2")
    BY <1>1, <1>2 DEF Output
  <2>2. CASE out.shape = format
    BY <1>1, <2>1, <2>2 DEF ParsePathInfos
  <2>3. CASE out.shape # format
    BY <1>1, <2>1, <2>3 DEF ParsePathInfos
  <2> QED BY <2>2, <2>3
<1>4. PICK full \in BOOLEAN :
        /\ full = (format # "v2")
        /\ out.entries = {<<IF full THEN Full(x) ELSE Base(Full(x)), Printed(x, hashes[x], full)>> :
                           x \in DOMAIN hashes}
  BY <1>1, <1>3 DEF Output
<1>5. \A x : KeyOf(IF full THEN Full(x) ELSE Base(Full(x)), format) = Full(x)
  BY <1>4, BasesAre DEF KeyOf
<1>6. ASSUME NEW e \in out.entries, KeyOf(e[1], format) = Full(p)
      PROVE  e[2] = Printed(p, hashes[p], full)
  <2>1. PICK x \in DOMAIN hashes :
          e = <<IF full THEN Full(x) ELSE Base(Full(x)), Printed(x, hashes[x], full)>>
    BY <1>4
  <2>2. Full(x) = Full(p)
    BY <1>5, <1>6, <2>1
  <2>3. x = p
    BY <2>2 DEF Full
  <2> QED BY <2>1, <2>3
<1>7. \E e \in out.entries : KeyOf(e[1], format) = Full(p)
  <2>1. PICK e : e = <<IF full THEN Full(p) ELSE Base(Full(p)), Printed(p, hashes[p], full)>>
    OBVIOUS
  <2>2. e \in out.entries
    BY <1>4, <2>1
  <2>3. KeyOf(e[1], format) = Full(p)
    BY <1>5, <2>1
  <2> QED BY <2>2, <2>3
<1>8. PICK e \in out.entries :
        /\ e = CHOOSE d \in out.entries : KeyOf(d[1], format) = Full(p)
        /\ KeyOf(e[1], format) = Full(p)
  BY <1>7
<1>9. map[Full(p)] = EntryOf(e[2])
  BY <1>3, <1>8
<1> QED BY <1>6, <1>8, <1>9, EntriesAreInfos

(* Those that do not move keep this too. *)
Aside(q) ==
  \A r \in Packer \ {q} :
    /\ pc'[r] = pc[r] /\ job'[r] = job[r] /\ local'[r] = local[r] /\ deploy'[r] = deploy[r]
    /\ new'[r] = new[r] /\ infos'[r] = infos[r]

LEMMA OneSends ==
  ASSUME SendingInv, NEW q \in Packer, Aside(q), SendInv(q)',
         DOMAIN job' = Packer /\ DOMAIN new' = Packer /\ DOMAIN infos' = Packer
  PROVE  SendingInv'
<1>1. ASSUME NEW r \in Packer, r # q
      PROVE  SendInv(r)'
  <2>1. SendInv(r)
    BY DEF SendingInv
  <2>2. /\ pc'[r] = pc[r] /\ job'[r] = job[r] /\ local'[r] = local[r] /\ deploy'[r] = deploy[r]
        /\ new'[r] = new[r] /\ infos'[r] = infos[r]
    BY <1>1 DEF Aside
  <2> QED BY <2>1, <2>2 DEF SendInv
<1> QED BY <1>1 DEF SendingInv

LEMMA EndSends ==
  ASSUME IndexInv, SendingInv, NEW q \in Packer, NEW label \in {"failed", "done"}, End(q, label)
  PROVE  SendingInv'
<1>1. /\ pc' = [pc EXCEPT ![q] = label] /\ job' = [job EXCEPT ![q] = {}]
      /\ local' = [local EXCEPT ![q] = <<>>] /\ deploy' = [deploy EXCEPT ![q] = <<>>]
      /\ new' = [new EXCEPT ![q] = <<>>] /\ infos' = [infos EXCEPT ![q] = [path \in {} |-> {}]]
  BY DEF End, Goto
<1>2. pc'[q] = label /\ job'[q] = {}
  BY <1>1 DEF IndexInv, DomainsInv, SendingInv
<1>3. SendInv(q)'
  BY <1>2 DEF SendInv
<1>4. Aside(q)
  BY <1>1 DEF Aside
<1> QED BY <1>1, <1>3, <1>4, OneSends DEF SendingInv

(* Until its closure is known. *)
LEMMA AsksSends ==
  ASSUME IndexInv, SendingInv, NEW q \in Packer,
         ReadGCRoots(q) \/ QueryClosure(q) \/ \E j \in Job : Start(q, j)
  PROVE  SendingInv'
<1>1. CASE FailWith(q)
  BY <1>1, EndSends DEF FailWith
<1>2. CASE \E j \in Job : Start(q, j)
  <2>1. PICK j \in Job : /\ pc' = [pc EXCEPT ![q] = "gcroots"] /\ job' = [job EXCEPT ![q] = {j}]
                         /\ UNCHANGED <<local, deploy, new, infos>>
    BY <1>2 DEF Start, Goto
  <2>2. pc'[q] = "gcroots" /\ job'[q] = {j}
    BY <2>1 DEF IndexInv, DomainsInv, SendingInv
  <2>3. SendInv(q)' /\ Aside(q)
    BY <2>1, <2>2 DEF SendInv, Aside
  <2> QED BY <2>1, <2>3, OneSends DEF SendingInv
<1>3. CASE ReadGCRoots(q) /\ ~FailWith(q)
  <2>1. PICK paths : /\ pc' = [pc EXCEPT ![q] = "requisites"] /\ local' = [local EXCEPT ![q] = paths]
                     /\ UNCHANGED <<job, deploy, new, infos>>
    BY <1>3 DEF ReadGCRoots, Goto
  <2>2. pc'[q] = "requisites"
    BY <2>1 DEF IndexInv, DomainsInv
  <2>3. SendInv(q)
    BY DEF SendingInv
  <2>4. SendInv(q)'
    BY <2>1, <2>2, <2>3 DEF SendInv
  <2>5. Aside(q)
    BY <2>1 DEF Aside
  <2> QED BY <2>1, <2>4, <2>5, OneSends DEF SendingInv
<1>4. CASE QueryClosure(q) /\ ~FailWith(q)
  <2>1. PICK paths : paths = QueryRequisites({j.path : j \in job[q]})
    OBVIOUS
  <2>2. /\ pc' = [pc EXCEPT ![q] = "index"] /\ deploy' = [deploy EXCEPT ![q] = paths]
        /\ UNCHANGED <<job, local, new, infos>>
    BY <1>4, <2>1 DEF QueryClosure, Goto
  <2>3. pc'[q] = "index" /\ deploy'[q] = paths
    BY <2>2 DEF IndexInv, DomainsInv
  <2>4. SendInv(q)
    BY DEF SendingInv
  <2>5. SendInv(q)'
    BY <2>1, <2>2, <2>3, <2>4 DEF SendInv
  <2>6. Aside(q)
    BY <2>2 DEF Aside
  <2> QED BY <2>2, <2>5, <2>6, OneSends DEF SendingInv
<1> QED BY <1>1, <1>2, <1>3, <1>4

(* While it brings the index up to date. *)
LEMMA IndexesSends ==
  ASSUME IndexInv, SendingInv, NEW q \in Packer,
         \/ LookUp(q) \/ StartWorker(q) \/ Wait(q) \/ CreateStorePath(q) \/ Commit(q)
         \/ \E i \in running[q] : ReadStorePath(q, i) \/ ReadFails(q, i)
  PROVE  SendingInv'
<1>1. CASE FailWith(q)
  BY <1>1, EndSends DEF FailWith
<1>2. CASE ~FailWith(q)
  <2>1. PICK label \in {"read", "insert", "diff"} :
          /\ pc[q] \in {"index", "read", "insert"} /\ pc'[q] = label
          /\ \A r \in Packer \ {q} : pc'[r] = pc[r]
          /\ UNCHANGED <<job, local, deploy, new, infos>>
    <3>1. CASE LookUp(q)
      BY <1>2, <3>1 DEF LookUp, Goto, IndexInv, DomainsInv
    <3>2. CASE StartWorker(q)
      BY <3>2 DEF StartWorker, IndexInv, DomainsInv
    <3>3. CASE Wait(q)
      BY <1>2, <3>3 DEF Wait, Goto, IndexInv, DomainsInv
    <3>4. CASE CreateStorePath(q)
      BY <1>2, <3>4 DEF CreateStorePath, IndexInv, DomainsInv
    <3>5. CASE Commit(q)
      BY <3>5 DEF Commit, Goto, IndexInv, DomainsInv
    <3>6. CASE \E i \in running[q] : ReadStorePath(q, i) \/ ReadFails(q, i)
      BY <3>6 DEF ReadStorePath, ReadFails, WorkerEnds, IndexInv, DomainsInv
    <3> QED BY <3>1, <3>2, <3>3, <3>4, <3>5, <3>6
  <2>2. SendInv(q)
    BY DEF SendingInv
  <2>3. SendInv(q)' /\ Aside(q)
    BY <2>1, <2>2 DEF SendInv, Aside
  <2> QED BY <2>1, <2>3, OneSends DEF SendingInv
<1> QED BY <1>1, <1>2

(* The diff, and what nix tells of the paths in it. *)
LEMMA DiffSends ==
  ASSUME IndexInv, SendingInv, NEW q \in Packer, Diff(q)
  PROVE  SendingInv'
<1>1. PICK sent : sent = Kept(deploy[q], ToSet(deploy[q]) \ ToSet(local[q]))
  OBVIOUS
<1>2. /\ pc[q] = "diff" /\ pc' = [pc EXCEPT ![q] = "infos"] /\ new' = [new EXCEPT ![q] = sent]
      /\ UNCHANGED <<job, local, deploy, infos>>
  BY <1>1 DEF Diff, Goto
<1>3. pc'[q] = "infos" /\ new'[q] = sent
  BY <1>2 DEF IndexInv, DomainsInv, SendingInv
<1>4. SendInv(q)
  BY DEF SendingInv
<1>5. SendInv(q)'
  BY <1>1, <1>2, <1>3, <1>4 DEF SendInv
<1>6. Aside(q)
  BY <1>2 DEF Aside
<1> QED BY <1>2, <1>5, <1>6, OneSends DEF SendingInv

LEMMA InfosSends ==
  ASSUME IndexInv, SendingInv, NEW q \in Packer, QueryPathInfos(q)
  PROVE  SendingInv'
<1>1. CASE FailWith(q)
  BY <1>1, EndSends DEF FailWith
<1>2. CASE ~FailWith(q)
  <2>1. PICK hashes : hashes = [p \in ToSet(new[q]) |-> store[p]]
    OBVIOUS
  <2>2. PICK nix, map :
          /\ nix \in Implementation /\ map \in GetPathInfos(nix, hashes)
          /\ {Full(p) : p \in ToSet(new[q])} \subseteq DOMAIN map
          /\ \A p \in ToSet(new[q]) : store[p] # Gone
          /\ pc[q] = "infos" /\ pc' = [pc EXCEPT ![q] = "pack"] /\ infos' = [infos EXCEPT ![q] = map]
          /\ UNCHANGED <<job, local, deploy, new>>
    <3>1. PICK map :
            /\ map \in {m \in UNION {GetPathInfos(nix, hashes) : nix \in Implementation} :
                           {Full(p) : p \in ToSet(new[q])} \subseteq DOMAIN m}
            /\ infos' = [infos EXCEPT ![q] = map]
      BY <1>2, <2>1 DEF QueryPathInfos
    <3>2. PICK nix \in Implementation : map \in GetPathInfos(nix, hashes)
      BY <3>1
    <3>3. /\ \A p \in ToSet(new[q]) : store[p] # Gone
          /\ pc[q] = "infos" /\ pc' = [pc EXCEPT ![q] = "pack"]
          /\ UNCHANGED <<job, local, deploy, new>>
      BY <1>2 DEF QueryPathInfos, Goto
    <3> QED BY <3>1, <3>2, <3>3
  <2>3. SendInv(q) /\ pc'[q] = "pack" /\ infos'[q] = map
    BY <2>2 DEF IndexInv, DomainsInv, SendingInv
  <2>4. ToSet(new[q]) \subseteq StorePath
    <3>1. {j.path : j \in job[q]} \in SUBSET StorePath
      BY <2>3, IndexAssumption DEF SendInv
    <3>2. /\ deploy[q] = QueryRequisites({j.path : j \in job[q]})
          /\ new[q] = Kept(deploy[q], ToSet(deploy[q]) \ ToSet(local[q]))
      BY <2>2, <2>3 DEF SendInv
    <3>3. new[q] \in Seq(StorePath)
      BY <3>1, <3>2, KeptInOrder
    <3> QED BY <3>3 DEF ToSet
  <2>5. ASSUME NEW p \in ToSet(new[q])
        PROVE  \E build \in Build : map[Full(p)] = Info(p, build)
    <3>1. p \in DOMAIN hashes /\ hashes[p] = store[p] /\ Full(p) \in DOMAIN map
      BY <2>1, <2>2
    <3>2. store[p] \in Build
      BY <2>2, <2>4 DEF IndexInv, DomainsInv
    <3>3. map[Full(p)] = Info(p, hashes[p])
      BY <2>2, <3>1, PathInfosRight
    <3> QED BY <3>1, <3>2, <3>3
  <2>6. SendInv(q)' /\ Aside(q)
    BY <2>2, <2>3, <2>5 DEF SendInv, Aside
  <2> QED BY <2>2, <2>6, OneSends DEF SendingInv
<1> QED BY <1>1, <1>2

LEMMA StepSends == IndexInv /\ SendingInv /\ [IndexNext]_indexVars => SendingInv'
<1> SUFFICES ASSUME IndexInv, SendingInv, [IndexNext]_indexVars PROVE SendingInv'
  OBVIOUS
<1>1. CASE ChangeStore \/ UNCHANGED indexVars
  <2>1. UNCHANGED <<pc, job, local, deploy, new, infos>>
    BY <1>1 DEF ChangeStore, indexVars
  <2> QED BY <2>1 DEF SendingInv, SendInv
<1>2. ASSUME NEW q \in Packer, PackerStep(q) \/ Kill(q) \/ \E j \in Job : Start(q, j)
      PROVE  SendingInv'
  <2>1. CASE ReadGCRoots(q) \/ QueryClosure(q) \/ \E j \in Job : Start(q, j)
    BY <2>1, AsksSends
  <2>2. CASE \/ LookUp(q) \/ StartWorker(q) \/ Wait(q) \/ CreateStorePath(q) \/ Commit(q)
             \/ \E i \in running[q] : ReadStorePath(q, i) \/ ReadFails(q, i)
    BY <2>2, IndexesSends
  <2>3. CASE Diff(q)
    BY <2>3, DiffSends
  <2>4. CASE QueryPathInfos(q)
    BY <2>4, InfosSends
  <2>5. CASE Busy(q) \/ Kill(q)
    BY <2>5, EndSends DEF Busy, Kill, FailWith
  <2>6. CASE WriteDNAR(q)
    BY <2>6, EndSends DEF WriteDNAR
  <2> QED BY <1>2, <2>1, <2>2, <2>3, <2>4, <2>5, <2>6 DEF PackerStep
<1> QED BY <1>1, <1>2 DEF IndexNext

LEMMA SendingInvariant == IndexSpec => []SendingInv
<1>1. IndexInit => SendingInv
  BY DEF IndexInit, SendingInv, SendInv
<1> QED BY <1>1, StepSends, IndexInvariant, PTL DEF IndexSpec

(* The paths sent are those of the closure that the host misses, and what  *)
(* a path refers to is on the host or sent before it, whatever the         *)
(* closures are and however they overlap.                                  *)
THEOREM IndexImportableInOrder == IndexSpec => []ImportableInOrder
<1>1. ASSUME SendingInv, NEW q \in Packer, pc[q] = "pack"
      PROVE  /\ ToSet(new[q]) = ClosureOf({j.path : j \in job[q]}) \ ToSet(local[q])
             /\ \A i \in DOMAIN new[q] :
                  Refs[new[q][i]] \subseteq ToSet(local[q]) \cup {new[q][j] : j \in 1..i}
  <2>1. SendInv(q)
    BY <1>1 DEF SendingInv
  <2>2. {j.path : j \in job[q]} \in SUBSET StorePath
    BY <2>1, IndexAssumption DEF SendInv
  <2>3. /\ deploy[q] = QueryRequisites({j.path : j \in job[q]})
        /\ new[q] = Kept(deploy[q], ToSet(deploy[q]) \ ToSet(local[q]))
    BY <1>1, <2>1 DEF SendInv
  <2>4. PICK set \in SUBSET StorePath : set = {j.path : j \in job[q]}
    BY <2>2
  <2>5. PICK there : there = ToSet(local[q])
    OBVIOUS
  <2>6. deploy[q] = QueryRequisites(set) /\ new[q] = Kept(deploy[q], ToSet(deploy[q]) \ there)
    BY <2>3, <2>4, <2>5
  <2>7. ToSet(new[q]) = ClosureOf(set) \ there /\ RefsBefore(new[q], there)
    BY <2>6, KeptInOrder
  <2> QED BY <2>4, <2>5, <2>7 DEF RefsBefore
<1>2. SendingInv => ImportableInOrder
  BY <1>1 DEF ImportableInOrder
<1> QED BY <1>2, SendingInvariant, PTL

(* A NAR message has the references of its own path, as base names,        *)
(* whichever Nix the sender has and whichever format was settled for.      *)
THEOREM IndexInfosRight == IndexSpec => []InfosRight
<1>1. SendingInv => InfosRight
  BY DEF SendingInv, SendInv, InfosRight
<1> QED BY <1>1, SendingInvariant, PTL

-----------------------------------------------------------------------------
(* The index is a catalogue. *)

LEMMA StepCatalogues == IndexInv /\ [IndexNext]_indexVars => [Catalogue!Next]_db
<1> SUFFICES ASSUME IndexInv, [IndexNext]_indexVars PROVE [Catalogue!Next]_db
  OBVIOUS
<1>1. ASSUME NEW q \in Packer, Commit(q)
      PROVE  [Catalogue!Next]_db
  <2>1. PICK set : set = ToSet(missing[q])
    OBVIOUS
  <2>2. /\ db' = [p \in DOMAIN db' |-> db'[p]]
        /\ DOMAIN db' = DOMAIN db \cup set
        /\ \A p \in DOMAIN db : db'[p] = db[p]
        /\ \A p \in set : db'[p] \in {p} \X Build
    BY <1>1, <2>1, CommitAdds
  <2>3. /\ set \cap DOMAIN db = {} /\ ClosedUnderRefs(DOMAIN db \cup set)
        /\ set \subseteq StorePath
    <3>1. MissingInv(q) /\ missing[q] \in Seq(StorePath)
      BY <1>1 DEF IndexInv, PackerInv, Commit
    <3>2. ToSet(missing[q]) \subseteq StorePath
      BY <3>1 DEF ToSet
    <3> QED BY <2>1, <3>1, <3>2 DEF MissingInv
  <2>4. CASE set = {}
    <3>1. DOMAIN db' = DOMAIN db
      BY <2>2, <2>4
    <3>2. PICK dom : dom = DOMAIN db
      OBVIOUS
    <3>3. \A p \in dom : db'[p] = db[p]
      BY <2>2, <3>2
    <3>4. db' = [p \in dom |-> db'[p]]
      BY <2>2, <3>1, <3>2
    <3>5. db = [p \in DOMAIN db |-> db[p]]
      BY DEF IndexInv, DbInv
    <3>6. db' = db
      BY <3>2, <3>3, <3>4, <3>5, SMT
    <3> QED BY <3>6
  <2>5. CASE set # {}
    <3>1. Catalogue!Add(set)
      BY <2>2, <2>3, <2>5 DEF Catalogue!Add, Catalogue!Closed, ClosedUnderRefs
    <3> QED BY <2>3, <3>1 DEF Catalogue!Next
  <2> QED BY <2>4, <2>5
<1>2. CASE ~\E q \in Packer : Commit(q)
  <2>1. CASE ChangeStore \/ UNCHANGED indexVars
    BY <2>1 DEF ChangeStore, indexVars, dbVars
  <2>2. ASSUME NEW q \in Packer, PackerStep(q) \/ Kill(q) \/ \E j \in Job : Start(q, j)
        PROVE  UNCHANGED db
    <3>1. CASE FailWith(q) \/ WriteDNAR(q) \/ Kill(q)
      BY <3>1 DEF FailWith, WriteDNAR, Kill, End
    <3>2. CASE \E j \in Job : Start(q, j)
      BY <3>2 DEF Start, dbVars
    <3>3. CASE ReadGCRoots(q) \/ QueryClosure(q) \/ LookUp(q)
      BY <3>1, <3>3 DEF ReadGCRoots, QueryClosure, LookUp, dbVars
    <3>4. CASE StartWorker(q) \/ Wait(q) \/ \E i \in running[q] : ReadStorePath(q, i) \/ ReadFails(q, i)
      BY <3>1, <3>4 DEF StartWorker, Wait, ReadStorePath, ReadFails, WorkerEnds, dbVars
    <3>5. CASE CreateStorePath(q) \/ Busy(q)
      BY <3>1, <3>5 DEF CreateStorePath, Busy
    <3>6. CASE Diff(q) \/ QueryPathInfos(q)
      BY <3>1, <3>6 DEF Diff, QueryPathInfos, dbVars
    <3> QED BY <1>2, <2>2, <3>1, <3>2, <3>3, <3>4, <3>5, <3>6 DEF PackerStep
  <2> QED BY <2>1, <2>2 DEF IndexNext
<1> QED BY <1>1, <1>2

(* However many dnar-pack work on it, and wherever one of them fails or is *)
(* killed, the index grows by whole closures and what it has stays.        *)
THEOREM IndexCatalogues == IndexSpec => Catalogues
<1>1. IndexInit => Catalogue!Init
  BY DEF IndexInit, Catalogue!Init
<1> QED BY <1>1, IndexInvariant, StepCatalogues, PTL DEF IndexSpec, Catalogues, Catalogue!Spec

=============================================================================
