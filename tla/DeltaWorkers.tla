---------------------------- MODULE DeltaWorkers ----------------------------
(***************************************************************************)
(* How dnar-pack computes the deltas of a file's chunks: the reference is  *)
(* mapped into memory and indexed, in a cache of one that is kept from     *)
(* file to file, and workers compute the deltas of the chunks against it,  *)
(* each leaving its result in the place of its chunk.                      *)
(*                                                                         *)
(* Pack has the same file by file, without the cache and the workers: its  *)
(* ChooseReference is OpenReference here, its ComputeDelta a worker.       *)
(***************************************************************************)
EXTENDS Integers, Sequences, FiniteSets, SequencesExt

CONSTANTS
  File,           \* what can be a reference
  Plan,           \* what there is to pack: for each file its references and chunks
  Workers         \* how many workers there are at a time

ASSUME DeltaWorkersAssumption ==
  /\ Plan \subseteq Seq([refs : SUBSET File, missing : SUBSET Nat])
  /\ Workers \in Nat \ {0}

VARIABLES
  plan,           \* the files to pack
  at,             \* which of them is being packed
  pc,             \* where writeDNAR is
  opened,         \* how many mappings there have been
  mapped,         \* the mappings there are, each a number and a file
  cached,         \* the mapping the cache holds: none, or one
  opening,        \* the one that is to take its place: none, or one
  ref,            \* the one the deltas are computed against: none, or one
  waiting,        \* chunks for which no worker has begun
  reading,        \* chunks a worker reads
  diffing,        \* chunks a worker computes the delta of
  failed,         \* whether a worker has failed
  results         \* the deltas: in the place of a chunk none, or one

cacheVars == <<opened, mapped, cached, opening>>
workerVars == <<waiting, reading, diffing, failed, results>>
deltaWorkersVars == <<plan, at, pc, cacheVars, ref, workerVars>>

DeltaWorkersInit ==
  /\ plan \in Plan /\ at = 1 /\ pc = "file"
  /\ opened = 0 /\ mapped = {} /\ cached = {} /\ opening = {}
  /\ ref = {}
  /\ waiting = {} /\ reading = {} /\ diffing = {} /\ failed = FALSE
  /\ results = [i \in {} |-> {}]

this == plan[at]

-----------------------------------------------------------------------------
(* refIndexCache *)

NextFile ==
  /\ pc = "file" /\ at <= Len(plan)
  /\ pc' = "reference"
  /\ UNCHANGED <<plan, at, cacheVars, ref, workerVars>>

(* No file has votes, the one that has them is too large, or it cannot be  *)
(* mapped: the deltas of this file are not computed.                       *)
NoReference ==
  /\ pc = "reference"
  /\ ref' = {} /\ pc' = "assemble"
  /\ UNCHANGED <<plan, at, cacheVars, workerVars>>

(* The cache holds the reference of this file already. *)
ReuseReference ==
  /\ pc = "reference"
  /\ \E m \in cached : m.file \in this.refs
  /\ ref' = cached /\ pc' = "begin"
  /\ UNCHANGED <<plan, at, cacheVars, workerVars>>

OpenReference ==
  /\ pc = "reference"
  /\ \E file \in this.refs :
       /\ \A m \in cached : m.file # file
       /\ opening' = {[number |-> opened + 1, file |-> file]}
  /\ mapped' = mapped \cup opening'
  /\ opened' = opened + 1
  /\ pc' = "replace"
  /\ UNCHANGED <<plan, at, cached, ref, workerVars>>

(* Faulty: the one before it stays mapped. *)
KeepReference ==
  /\ pc = "replace"
  /\ cached' = opening /\ opening' = {} /\ ref' = opening
  /\ pc' = "begin"
  /\ UNCHANGED <<plan, at, opened, mapped, workerVars>>

(* With the new one mapped the one before it is unmapped. *)
ReplaceReference ==
  /\ pc = "replace"
  /\ mapped' = mapped \ cached
  /\ cached' = opening /\ opening' = {} /\ ref' = opening
  /\ pc' = "begin"
  /\ UNCHANGED <<plan, at, opened, workerVars>>

-----------------------------------------------------------------------------
(* The workers. *)

(* The file is opened, which may fail, for all workers to read. *)
BeginWorkers ==
  /\ pc = "begin"
  /\ \/ /\ waiting' = this.missing
        /\ results' = [i \in this.missing |-> {}]
        /\ pc' = "workers"
     \/ pc' = "return" /\ UNCHANGED <<waiting, results>>
  /\ UNCHANGED <<plan, at, cacheVars, ref, reading, diffing, failed>>

(* The next chunk gets a worker when one is free. *)
StartWorker ==
  /\ pc = "workers" /\ waiting # {}
  /\ Cardinality(reading \cup diffing) < Workers
  /\ \E i \in waiting :
       /\ \A j \in waiting : i <= j
       /\ waiting' = waiting \ {i}
       /\ reading' = reading \cup {i}
  /\ UNCHANGED <<plan, at, pc, cacheVars, ref, diffing, failed, results>>

ReadChunk(i) ==
  /\ i \in reading
  /\ reading' = reading \ {i} /\ diffing' = diffing \cup {i}
  /\ UNCHANGED <<plan, at, pc, cacheVars, ref, waiting, failed, results>>

(* The chunk cannot be read: the other workers go on. *)
ReadFails(i) ==
  /\ i \in reading
  /\ reading' = reading \ {i} /\ failed' = TRUE
  /\ UNCHANGED <<plan, at, pc, cacheVars, ref, waiting, diffing, results>>

(* What a worker has computed: the delta of chunk i against the reference. *)
DeltaOf(i) == {[chunk |-> i, file |-> m.file] : m \in ref}

(* Faulty: the result goes where that of the last worker begun belongs. *)
LeaveWithLast(i) ==
  LET last == CHOOSE j \in this.missing \ waiting : \A k \in this.missing \ waiting : k <= j IN
  /\ i \in diffing
  /\ diffing' = diffing \ {i}
  /\ results' = [results EXCEPT ![last] = DeltaOf(i)]
  /\ UNCHANGED <<plan, at, pc, cacheVars, ref, waiting, reading, failed>>

(* The delta is computed and, if it pays off, left in the chunk's place. *)
Diff(i) ==
  /\ i \in diffing
  /\ diffing' = diffing \ {i}
  /\ \/ results' = [results EXCEPT ![i] = DeltaOf(i)]
     \/ UNCHANGED results
  /\ UNCHANGED <<plan, at, pc, cacheVars, ref, waiting, reading, failed>>

(* Faulty: the first error is returned at once. *)
WaitForFirstError ==
  /\ pc = "workers"
  /\ \/ failed /\ pc' = "return"
     \/ waiting \cup reading \cup diffing = {} /\ pc' = "assemble"
  /\ UNCHANGED <<plan, at, cacheVars, ref, workerVars>>

(* Faulty: each chunk is waited for to have its delta. *)
WaitForDeltas ==
  /\ pc = "workers"
  /\ waiting = {} /\ \A i \in DOMAIN results : results[i] # {}
  /\ pc' = IF failed THEN "return" ELSE "assemble"
  /\ UNCHANGED <<plan, at, cacheVars, ref, workerVars>>

(* Every worker has ended; one that failed ends writeDNAR. *)
Wait ==
  /\ pc = "workers"
  /\ waiting \cup reading \cup diffing = {}
  /\ pc' = IF failed THEN "return" ELSE "assemble"
  /\ UNCHANGED <<plan, at, cacheVars, ref, workerVars>>

(* The chunks are described with their deltas. *)
Assemble ==
  /\ pc = "assemble"
  /\ at' = at + 1 /\ pc' = "file"
  /\ results' = [i \in {} |-> {}] /\ ref' = {}
  /\ UNCHANGED <<plan, cacheVars, waiting, reading, diffing, failed>>

EndFiles ==
  /\ pc = "file" /\ at > Len(plan)
  /\ pc' = "return"
  /\ UNCHANGED <<plan, at, cacheVars, ref, workerVars>>

(* Any other error: a query, or a write of the archive. *)
Fail ==
  /\ pc \in {"file", "assemble"}
  /\ pc' = "return"
  /\ UNCHANGED <<plan, at, cacheVars, ref, workerVars>>

(* writeDNAR returns and what the cache holds is unmapped. *)
CloseCache ==
  /\ pc = "return"
  /\ mapped' = mapped \ cached /\ cached' = {}
  /\ pc' = "returned"
  /\ UNCHANGED <<plan, at, opened, opening, ref, workerVars>>

-----------------------------------------------------------------------------
WriterStep ==
  \/ NextFile \/ NoReference \/ ReuseReference \/ OpenReference \/ ReplaceReference
  \/ BeginWorkers \/ StartWorker \/ Wait \/ Assemble \/ EndFiles \/ CloseCache

WorkerStep(i) == ReadChunk(i) \/ ReadFails(i) \/ Diff(i)

DeltaWorkersNext ==
  \/ WriterStep \/ Fail
  \/ \E i \in reading \cup diffing : WorkerStep(i)

DeltaWorkersSpec == DeltaWorkersInit /\ [][DeltaWorkersNext]_deltaWorkersVars

(* Every goroutine is scheduled. *)
DeltaWorkersFairSpec ==
  /\ DeltaWorkersSpec
  /\ WF_deltaWorkersVars(WriterStep)
  /\ WF_deltaWorkersVars(\E i \in reading \cup diffing : WorkerStep(i))

-----------------------------------------------------------------------------
(* Properties *)

(* The mapping that workers compute deltas against is there until the last *)
(* of them has ended, though one of them failed (eg.Wait, refCache.close). *)
UsesMapped == diffing # {} => ref # {} /\ ref \subseteq mapped

(* A delta in the place of a chunk is that chunk's, against a reference of *)
(* the file it is in, though the cache was filled for another file and the *)
(* workers end in any order (refIndexCache.get, deltaResults).             *)
ResultsTheirOwn ==
  pc \in {"workers", "assemble"} =>
    \A i \in DOMAIN results : \A r \in results[i] : r.chunk = i /\ r.file \in this.refs

(* No more than two references are mapped at a time, and none when         *)
(* writeDNAR has returned, by an error or not (refIndexCache).             *)
MappingsBounded == Cardinality(mapped) <= IF pc = "returned" THEN 0 ELSE 2

(* writeDNAR returns: no worker waits for another (SetLimit, Wait). *)
Returns == <>(pc = "returned")

(* delta.go:15-16: only one reference is held at a time.  It is violated.  *)
OneReferenceAtATime == Cardinality(mapped) <= 1

=============================================================================
