-------------------------------- MODULE Index --------------------------------
(***************************************************************************)
(* What dnar-pack does before it writes an archive: it finds out what the  *)
(* host has and what is to be deployed, brings the index of store paths up *)
(* to date and asks nix about the paths to send.                           *)
(*                                                                         *)
(* Several dnar-pack may run at the same time, for different hosts, on one *)
(* SQLite database, which keeps them apart with its locks: a transaction   *)
(* shares the database from its first query to its end, reserves it from   *)
(* its first write, and commits when nobody else shares it.                *)
(*                                                                         *)
(* While they run, store paths are rebuilt or collected.                   *)
(***************************************************************************)
EXTENDS PathInfo, Lists

CONSTANTS
  Packer,         \* the running dnar-pack
  Job,            \* what they are started for: [host, path] records
  GCRoots,        \* the entries of each host's directory of gcroots
  InOrder(_),     \* store paths as nix-store lists them: what one refers to before it
  Build,          \* what building a store path may result in
  Gone,           \* what there is in place of a collected one
  Workers,        \* how many store paths a dnar-pack reads at a time
  MaxRuns,        \* how often dnar-pack is started, at most
  MaxChanges      \* how often the store changes, at most

ASSUME IndexAssumption ==
  /\ Job \subseteq [host : DOMAIN GCRoots, path : StorePath]
  /\ \A host \in DOMAIN GCRoots :
       GCRoots[host] \subseteq [symlink : BOOLEAN, target : StorePath]
  /\ \A set \in SUBSET StorePath :
       /\ InOrder(set) \in Seq(StorePath) /\ ToSet(InOrder(set)) = set
       /\ \A i, j \in DOMAIN InOrder(set) : InOrder(set)[i] = InOrder(set)[j] => i = j
       /\ \A i \in DOMAIN InOrder(set) :
            Refs[InOrder(set)[i]] \cap set \subseteq {InOrder(set)[j] : j \in 1..i}
  /\ Gone \notin Build
  /\ Workers \in Nat \ {0} /\ MaxRuns \in Nat /\ MaxChanges \in Nat

VARIABLES
  store,          \* the build each store path has
  changes,        \* how often that changed
  db,             \* the index, as committed: the rows of each path in it
  reserved,       \* who has written to it and not committed: nobody, or one
  runs,           \* how often dnar-pack was started

  pc,             \* for each dnar-pack, where it is,
  job,            \*   what it was started for: one job, when it runs,
  local,          \*   the store paths of the host, in order,
  deploy,         \*   the store paths of the new closure, in order,
  missing,        \*   those of both that are not in the index, in order,
  started,        \*   how many of these a worker has begun to read,
  running,        \*   those that one is reading,
  readFailed,     \*   whether one could not be read,
  files,          \*   what the others hold, by their place in missing,
  inserted,       \*   how many of them are written and not committed,
  new,            \*   the store paths to send, in order,
  infos           \*   and what nix told of them

storeVars == <<store, changes>>
dbVars == <<db, reserved>>
readVars == <<started, running, readFailed, files>>
indexVars == <<storeVars, dbVars, runs, pc, job, local, deploy, missing, readVars, inserted, new, infos>>

(* What ReadStorePath returns of a store path: whose it is, and what. *)
FilesOf(p) == <<p, store[p]>>

Ended == {"idle", "done", "failed"}

Goto(q, label) == pc' = [pc EXCEPT ![q] = label]

IndexInit ==
  /\ store \in [StorePath -> Build] /\ changes = 0
  /\ db = [p \in {} |-> <<>>] /\ reserved = {} /\ runs = 0
  /\ pc = [q \in Packer |-> "idle"]
  /\ job = [q \in Packer |-> {}]
  /\ local = [q \in Packer |-> <<>>] /\ deploy = [q \in Packer |-> <<>>]
  /\ missing = [q \in Packer |-> <<>>]
  /\ started = [q \in Packer |-> 0] /\ running = [q \in Packer |-> {}]
  /\ readFailed = [q \in Packer |-> FALSE] /\ files = [q \in Packer |-> <<>>]
  /\ inserted = [q \in Packer |-> 0]
  /\ new = [q \in Packer |-> <<>>] /\ infos = [q \in Packer |-> [path \in {} |-> {}]]

(* Faulty: the database is shared only while it is written. *)
SharesWhileWriting(q) == pc[q] \in {"insert", "pack"}

(* Whether the transaction of q shares the database. *)
Shares(q) == pc[q] \in {"read", "insert", "pack"}

(* The dnar-pack ends and what it had in memory is gone, with its locks and *)
(* what it had not committed.                                              *)
End(q, label) ==
  /\ Goto(q, label)
  /\ reserved' = reserved \ {q}
  /\ job' = [job EXCEPT ![q] = {}]
  /\ local' = [local EXCEPT ![q] = <<>>] /\ deploy' = [deploy EXCEPT ![q] = <<>>]
  /\ missing' = [missing EXCEPT ![q] = <<>>]
  /\ started' = [started EXCEPT ![q] = 0] /\ running' = [running EXCEPT ![q] = {}]
  /\ readFailed' = [readFailed EXCEPT ![q] = FALSE] /\ files' = [files EXCEPT ![q] = <<>>]
  /\ inserted' = [inserted EXCEPT ![q] = 0]
  /\ new' = [new EXCEPT ![q] = <<>>] /\ infos' = [infos EXCEPT ![q] = [path \in {} |-> {}]]
  /\ UNCHANGED <<storeVars, db, runs>>

FailWith(q) == End(q, "failed")

-----------------------------------------------------------------------------
(* nix-store --query --requisites: the closure of these store paths, what  *)
(* a path refers to before it.  It fails when one of them is not there.    *)

ClosedUnderRefs(set) == \A p \in set : Refs[p] \subseteq set

ClosureOf(set) ==
  {p \in StorePath : \A t \in SUBSET StorePath : set \subseteq t /\ ClosedUnderRefs(t) => p \in t}

QueryRequisites(set) == InOrder(ClosureOf(set))

Valid(set) == \A p \in ClosureOf(set) : store[p] # Gone

-----------------------------------------------------------------------------
Start(q, j) ==
  /\ pc[q] \in Ended /\ runs < MaxRuns
  /\ runs' = runs + 1
  /\ Goto(q, "gcroots")
  /\ job' = [job EXCEPT ![q] = {j}]
  /\ UNCHANGED <<storeVars, dbVars, local, deploy, missing, readVars, inserted, new, infos>>

(* Every entry must be a symbolic link, to a store path that is there. *)
ReadGCRoots(q) ==
  LET roots == UNION {GCRoots[j.host] : j \in job[q]}
      targets == {root.target : root \in roots}
  IN
  /\ pc[q] = "gcroots"
  /\ IF (\A root \in roots : root.symlink) /\ Valid(targets)
     THEN /\ local' = [local EXCEPT ![q] = QueryRequisites(targets)]
          /\ Goto(q, "requisites")
          /\ UNCHANGED <<storeVars, dbVars, runs, job, deploy, missing, readVars, inserted, new, infos>>
     ELSE FailWith(q)

QueryClosure(q) ==
  /\ pc[q] = "requisites"
  /\ IF Valid({j.path : j \in job[q]})
     THEN /\ deploy' = [deploy EXCEPT ![q] = QueryRequisites({j.path : j \in job[q]})]
          /\ Goto(q, "index")
          /\ UNCHANGED <<storeVars, dbVars, runs, job, local, missing, readVars, inserted, new, infos>>
     ELSE FailWith(q)

(* Faulty: what the host has is not indexed with the rest. *)
DeployPaths(q) == ToSet(deploy[q])

AllPaths(q) == ToSet(local[q]) \cup ToSet(deploy[q])

(* The transaction begins: with the first path looked up nobody commits    *)
(* any more, and the lookups of all see the same index.                    *)
LookUp(q) ==
  /\ pc[q] = "index"
  /\ IF Valid(AllPaths(q))
     THEN LET absent == InOrder(ClosureOf(AllPaths(q)) \ DOMAIN db) IN
          /\ missing' = [missing EXCEPT ![q] = absent]
          /\ files' = [files EXCEPT ![q] = [i \in DOMAIN absent |-> <<>>]]
          /\ Goto(q, "read")
          /\ UNCHANGED <<storeVars, dbVars, runs, job, local, deploy, started, running, readFailed,
                         inserted, new, infos>>
     ELSE FailWith(q)

-----------------------------------------------------------------------------
(* The store paths are read by workers, in order as far as they begin. *)

StartWorker(q) ==
  /\ pc[q] = "read" /\ started[q] < Len(missing[q])
  /\ Cardinality(running[q]) < Workers
  /\ started' = [started EXCEPT ![q] = @ + 1]
  /\ running' = [running EXCEPT ![q] = @ \cup {started[q] + 1}]
  /\ UNCHANGED <<storeVars, dbVars, runs, pc, job, local, deploy, missing, readFailed, files, inserted,
                 new, infos>>

WorkerEnds(q, i) ==
  /\ i \in running[q]
  /\ running' = [running EXCEPT ![q] = @ \ {i}]
  /\ UNCHANGED <<storeVars, dbVars, runs, pc, job, local, deploy, missing, started, inserted, new, infos>>

(* Faulty: the path read is the one the last worker was begun for. *)
ReadLastStarted(q, i) ==
  LET path == missing[q][started[q]] IN
  /\ pc[q] = "read" /\ WorkerEnds(q, i)
  /\ store[path] # Gone
  /\ files' = [files EXCEPT ![q][i] = FilesOf(path)]
  /\ UNCHANGED readFailed

ReadStorePath(q, i) ==
  LET path == missing[q][i] IN
  /\ pc[q] = "read" /\ WorkerEnds(q, i)
  /\ store[path] # Gone
  /\ files' = [files EXCEPT ![q][i] = FilesOf(path)]
  /\ UNCHANGED readFailed

(* A store path cannot be read; the other workers go on. *)
ReadFails(q, i) ==
  /\ pc[q] = "read" /\ WorkerEnds(q, i)
  /\ readFailed' = [readFailed EXCEPT ![q] = TRUE]
  /\ UNCHANGED files

Wait(q) ==
  /\ pc[q] = "read" /\ started[q] = Len(missing[q]) /\ running[q] = {}
  /\ IF readFailed[q] THEN FailWith(q)
     ELSE /\ Goto(q, "insert")
          /\ UNCHANGED <<storeVars, dbVars, runs, job, local, deploy, missing, readVars, inserted, new,
                         infos>>

-----------------------------------------------------------------------------
(* The rows are written and committed. *)

(* The rows of the next store path, which no other may have: path is       *)
(* UNIQUE.  The database must not be reserved by another.                  *)
CreateStorePath(q) ==
  LET i == inserted[q] + 1 IN
  /\ pc[q] = "insert" /\ i <= Len(missing[q])
  /\ reserved \subseteq {q}
  /\ IF missing[q][i] \in DOMAIN db THEN FailWith(q)
     ELSE /\ reserved' = {q}
          /\ inserted' = [inserted EXCEPT ![q] = i]
          /\ UNCHANGED <<storeVars, db, runs, pc, job, local, deploy, missing, readVars, new, infos>>

(* What has been written is committed when nobody else shares the database; *)
(* nothing can always be.                                                  *)
Commit(q) ==
  /\ pc[q] = "insert" /\ inserted[q] = Len(missing[q])
  /\ missing[q] = <<>> \/ \A r \in Packer \ {q} : ~Shares(r)
  /\ db' = [p \in DOMAIN db \cup ToSet(missing[q]) |->
              IF p \in DOMAIN db THEN db[p] ELSE files[q][CHOOSE i \in DOMAIN missing[q] : missing[q][i] = p]]
  /\ reserved' = reserved \ {q}
  /\ inserted' = [inserted EXCEPT ![q] = 0]
  /\ Goto(q, "diff")
  /\ UNCHANGED <<storeVars, runs, job, local, deploy, missing, readVars, new, infos>>

(* Faulty: whoever lacks a lock waits until it has it. *)
BusyWaits(q) == FALSE /\ FailWith(q)

(* SQLITE_BUSY: another one has the lock that q needs, now or for too long. *)
Busy(q) ==
  /\ pc[q] = "insert"
  /\ \/ inserted[q] < Len(missing[q]) /\ ~(reserved \subseteq {q})
     \/ inserted[q] = Len(missing[q]) /\ missing[q] # <<>> /\ \E r \in Packer \ {q} : Shares(r)
  /\ FailWith(q)

-----------------------------------------------------------------------------
(* What is to be sent. *)

(* Faulty: from the list of all paths, which is in another order. *)
DiffAllPaths(q) ==
  /\ pc[q] = "diff"
  /\ new' = [new EXCEPT ![q] =
       Kept(Reverse(QueryRequisites(AllPaths(q))), ToSet(deploy[q]) \ ToSet(local[q]))]
  /\ Goto(q, "infos")
  /\ UNCHANGED <<storeVars, dbVars, runs, job, local, deploy, missing, readVars, inserted, infos>>

Diff(q) ==
  /\ pc[q] = "diff"
  /\ new' = [new EXCEPT ![q] = Kept(deploy[q], ToSet(deploy[q]) \ ToSet(local[q]))]
  /\ Goto(q, "infos")
  /\ UNCHANGED <<storeVars, dbVars, runs, job, local, deploy, missing, readVars, inserted, infos>>

(* nix path-info knows the paths that are there and fails for others.  A   *)
(* path that it did not tell of ends the program when its NAR is written.  *)
QueryPathInfos(q) ==
  LET hashes == [p \in ToSet(new[q]) |-> store[p]]
      told == {map \in UNION {GetPathInfos(nix, hashes) : nix \in Implementation} :
                 {Full(p) : p \in ToSet(new[q])} \subseteq DOMAIN map}
  IN
  /\ pc[q] = "infos"
  /\ \/ /\ \A p \in ToSet(new[q]) : store[p] # Gone
        /\ \E map \in told : infos' = [infos EXCEPT ![q] = map]
        /\ Goto(q, "pack")
        /\ UNCHANGED <<storeVars, dbVars, runs, job, local, deploy, missing, readVars, inserted, new>>
     \/ FailWith(q)

(* writeDNAR, with all its queries, in a transaction of its own. *)
WriteDNAR(q) == pc[q] = "pack" /\ End(q, "done")

(* Any other error, or q is killed. *)
Kill(q) == pc[q] \notin Ended /\ FailWith(q)

-----------------------------------------------------------------------------
(* The store changes: a path is built again, with another result, or one   *)
(* that nothing refers to is collected.                                    *)
ChangeStore ==
  /\ changes < MaxChanges
  /\ \E p \in StorePath, build \in Build \cup {Gone} :
       /\ build # store[p]
       /\ build = Gone => \A r \in StorePath \ {p} : p \in Refs[r] => store[r] = Gone
       /\ build # Gone => \A r \in Refs[p] \ {p} : store[r] # Gone
       /\ store' = [store EXCEPT ![p] = build]
  /\ changes' = changes + 1
  /\ UNCHANGED <<dbVars, runs, pc, job, local, deploy, missing, readVars, inserted, new, infos>>

PackerStep(q) ==
  \/ ReadGCRoots(q) \/ QueryClosure(q) \/ LookUp(q)
  \/ StartWorker(q) \/ Wait(q)
  \/ \E i \in running[q] : ReadStorePath(q, i) \/ ReadFails(q, i)
  \/ CreateStorePath(q) \/ Commit(q) \/ Busy(q)
  \/ Diff(q) \/ QueryPathInfos(q) \/ WriteDNAR(q)

IndexNext ==
  \/ \E q \in Packer : PackerStep(q) \/ Kill(q) \/ \E j \in Job : Start(q, j)
  \/ ChangeStore

IndexSpec == IndexInit /\ [][IndexNext]_indexVars

(* Each dnar-pack goes on: SQLite does not make it wait without an end. *)
IndexFairSpec == IndexSpec /\ \A q \in Packer : WF_indexVars(PackerStep(q))

-----------------------------------------------------------------------------
(* Properties *)

(* However many dnar-pack work on it, and wherever one of them fails or is *)
(* killed, the index grows by whole sets of store paths: with each path    *)
(* there is all it refers to, the rows are its own, and they stay as they  *)
(* are (indexPaths).                                                       *)
Catalogue == INSTANCE Catalog WITH catalog <- db

Catalogues == Catalogue!Spec

(* The paths a dnar-pack has found to be missing are missing until it has  *)
(* written them: path is UNIQUE and a second row is an error (indexPaths). *)
MissingStays ==
  \A q \in Packer : pc[q] \in {"read", "insert"} => ToSet(missing[q]) \cap DOMAIN db = {}

(* When an archive is written, every store path it may tell of is in the   *)
(* index: of one that is not, GetStoreFiles says that it has no files, and *)
(* its NAR would be an empty one (main).                                   *)
AllIndexed ==
  \A q \in Packer : pc[q] = "pack" => ToSet(local[q]) \cup ToSet(deploy[q]) \subseteq DOMAIN db

(* The paths sent are those of the closure that the host misses, and what  *)
(* a path refers to is on the host or sent before it: the host can import  *)
(* them in this order (main).                                              *)
ImportableInOrder ==
  \A q \in Packer : pc[q] = "pack" =>
    /\ ToSet(new[q]) = ClosureOf({j.path : j \in job[q]}) \ ToSet(local[q])
    /\ \A i \in DOMAIN new[q] :
         Refs[new[q][i]] \subseteq ToSet(local[q]) \cup {new[q][j] : j \in 1..i}

(* Whatever Nix the sender has, and though the probes for it fail, a NAR   *)
(* message has the references of its own path, as base names, or there is  *)
(* no archive (getPathInfos).                                              *)
InfosRight ==
  \A q \in Packer : pc[q] = "pack" =>
    \A p \in ToSet(new[q]) : \E build \in Build : infos[q][Full(p)] = Info(p, build)

(* A dnar-pack ends, however the others hold the locks (indexPaths). *)
PackersEnd == \A q \in Packer : []<>(pc[q] \in Ended)

=============================================================================
