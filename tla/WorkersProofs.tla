--------------------------- MODULE WorkersProofs ---------------------------
(***************************************************************************)
(* The mapping that workers read outlives them, for any files, references  *)
(* and number of workers, and wherever one of them fails.                  *)
(*                                                                         *)
(* The invariant says for every place of writeDNAR which mappings there    *)
(* are: the cached one, and the one that is about to take its place.       *)
(***************************************************************************)
EXTENDS DeltaWorkers, FiniteSetTheorems, TLAPS

AtMostOne(set) == set = {} \/ \E x : set = {x}

(* The one that is cached and the one being opened are all there is. *)
MappingsInv ==
  /\ AtMostOne(cached) /\ AtMostOne(opening)
  /\ mapped = cached \cup opening /\ cached \cap opening = {}
  /\ pc # "replace" => opening = {}
  /\ pc = "replace" => opening # {} /\ \A m \in opening : m.file \in this.refs
  /\ pc = "returned" => mapped = {}

(* Deltas are computed against the cached mapping, of a file asked for. *)
RefInv ==
  pc \in {"begin", "workers"} =>
    ref = cached /\ ref # {} /\ \A m \in ref : m.file \in this.refs

(* Workers run while writeDNAR waits for them, and no longer. *)
RunningInv == pc # "workers" => waiting = {} /\ reading = {} /\ diffing = {}

ResultsInv ==
  /\ pc \in {"file", "reference", "replace", "begin"} => DOMAIN results = {}
  /\ ResultsTheirOwn

PcInv == pc \in {"file", "reference", "replace", "begin", "workers", "assemble", "return", "returned"}

WorkersInv == PcInv /\ MappingsInv /\ RefInv /\ RunningInv /\ ResultsInv

-----------------------------------------------------------------------------
(* There is nothing mapped and nobody at work at the start. *)
LEMMA WorkersInitInv == DeltaWorkersInit => WorkersInv
BY DEF DeltaWorkersInit, WorkersInv, PcInv, MappingsInv, AtMostOne, RefInv, RunningInv, ResultsInv,
       ResultsTheirOwn

(* The cache is filled or used: no worker is there. *)
LEMMA CacheKeeps ==
  ASSUME WorkersInv, NextFile \/ NoReference \/ ReuseReference
  PROVE  WorkersInv'
<1> USE DEF WorkersInv, PcInv, MappingsInv, AtMostOne, RefInv, RunningInv, ResultsInv,
            ResultsTheirOwn, cacheVars, workerVars, this
<1>1. CASE NextFile
  BY <1>1 DEF NextFile
<1>2. CASE NoReference
  BY <1>2 DEF NoReference
<1>3. CASE ReuseReference
  <2>1. PICK m \in cached : m.file \in this.refs
    BY <1>3 DEF ReuseReference
  <2>2. cached = {m}
    BY <2>1
  <2> QED BY <1>3, <2>1, <2>2 DEF ReuseReference
<1> QED BY <1>1, <1>2, <1>3

(* A new mapping is one of a file that is not cached. *)
LEMMA OpenKeeps ==
  ASSUME WorkersInv, OpenReference
  PROVE  WorkersInv'
<1>1. PICK x : opening' = {x} /\ x.file \in this.refs /\ x \notin cached
  <2>1. PICK file \in this.refs : /\ \A m \in cached : m.file # file
                                  /\ opening' = {[number |-> opened + 1, file |-> file]}
    BY DEF OpenReference
  <2>2. PICK x : x = [number |-> opened + 1, file |-> file]
    OBVIOUS
  <2> QED BY <2>1, <2>2
<1>2. /\ pc = "reference" /\ pc' = "replace" /\ mapped' = mapped \cup {x}
      /\ UNCHANGED <<plan, at, cached, ref, waiting, reading, diffing, results>>
  BY <1>1 DEF OpenReference, workerVars
<1>3. MappingsInv'
  BY <1>1, <1>2 DEF WorkersInv, MappingsInv, AtMostOne, this
<1>4. RefInv' /\ RunningInv' /\ ResultsInv' /\ PcInv'
  BY <1>2 DEF WorkersInv, RefInv, RunningInv, ResultsInv, ResultsTheirOwn, PcInv
<1> QED BY <1>3, <1>4 DEF WorkersInv

(* It takes the place of the one that was cached. *)
LEMMA ReplaceKeeps ==
  ASSUME WorkersInv, ReplaceReference
  PROVE  WorkersInv'
<1>1. /\ pc = "replace" /\ pc' = "begin"
      /\ mapped' = mapped \ cached /\ cached' = opening /\ opening' = {} /\ ref' = opening
      /\ UNCHANGED <<plan, at, waiting, reading, diffing, results>>
  BY DEF ReplaceReference, workerVars
<1>2. PICK x : opening = {x} /\ x.file \in this.refs /\ x \notin cached
  BY <1>1 DEF WorkersInv, MappingsInv, AtMostOne
<1>3. mapped' = {x}
  BY <1>1, <1>2 DEF WorkersInv, MappingsInv
<1>4. MappingsInv' /\ RefInv'
  BY <1>1, <1>2, <1>3 DEF MappingsInv, AtMostOne, RefInv, this
<1>5. RunningInv' /\ ResultsInv' /\ PcInv'
  BY <1>1 DEF WorkersInv, RunningInv, ResultsInv, ResultsTheirOwn, PcInv
<1> QED BY <1>4, <1>5 DEF WorkersInv

-----------------------------------------------------------------------------
(* The workers. *)

(* Workers begin: the places for their results are empty. *)
LEMMA BeginKeeps ==
  ASSUME WorkersInv, BeginWorkers
  PROVE  WorkersInv'
<1>1. /\ pc = "begin"
      /\ UNCHANGED <<plan, at, mapped, cached, opening, ref, reading, diffing>>
  BY DEF BeginWorkers, cacheVars
<1>2. MappingsInv' /\ RefInv' /\ PcInv'
  BY <1>1 DEF BeginWorkers, WorkersInv, MappingsInv, AtMostOne, RefInv, PcInv, this
<1>3. RunningInv' /\ ResultsInv'
  BY <1>1 DEF BeginWorkers, WorkersInv, RunningInv, ResultsInv, ResultsTheirOwn
<1> QED BY <1>2, <1>3 DEF WorkersInv

(* A worker leaves the delta of its chunk against the reference at hand, or *)
(* nothing.                                                                *)
LEMMA WorkerKeeps ==
  ASSUME WorkersInv, NEW i \in reading \cup diffing, WorkerStep(i)
  PROVE  WorkersInv'
<1>1. /\ pc = "workers" /\ UNCHANGED <<plan, at, pc, mapped, cached, opening, ref>>
  BY DEF WorkersInv, RunningInv, WorkerStep, ReadChunk, ReadFails, Diff, cacheVars
<1>2. MappingsInv' /\ RefInv' /\ PcInv' /\ RunningInv'
  BY <1>1 DEF WorkersInv, MappingsInv, AtMostOne, RefInv, PcInv, RunningInv, this
<1>3. results' = results \/ results' = [results EXCEPT ![i] = DeltaOf(i)]
  BY DEF WorkerStep, ReadChunk, ReadFails, Diff
<1>4. \A r \in DeltaOf(i) : r.chunk = i /\ r.file \in this.refs
  BY <1>1 DEF WorkersInv, RefInv, DeltaOf
<1>5. ResultsInv'
  BY <1>1, <1>3, <1>4 DEF WorkersInv, ResultsInv, ResultsTheirOwn, this
<1> QED BY <1>2, <1>5 DEF WorkersInv

(* The next worker begins, or all of them have ended. *)
LEMMA WaitKeeps ==
  ASSUME WorkersInv, StartWorker \/ Wait
  PROVE  WorkersInv'
<1>1. /\ pc = "workers" /\ UNCHANGED <<plan, at, mapped, cached, opening, ref, results>>
      /\ pc' \in {"workers", "assemble", "return"}
  BY DEF StartWorker, Wait, cacheVars, workerVars
<1>2. MappingsInv' /\ RefInv' /\ PcInv' /\ ResultsInv'
  BY <1>1 DEF WorkersInv, MappingsInv, AtMostOne, RefInv, PcInv, ResultsInv, ResultsTheirOwn, this
<1>3. RunningInv'
  BY <1>1 DEF StartWorker, Wait, WorkersInv, RunningInv, workerVars
<1> QED BY <1>2, <1>3 DEF WorkersInv

(* The end of a file, of all files, of writeDNAR. *)
LEMMA EndKeeps ==
  ASSUME WorkersInv, Assemble \/ EndFiles \/ Fail \/ CloseCache
  PROVE  WorkersInv'
<1>1. /\ pc \in {"file", "assemble", "return"} /\ pc' \in {"file", "return", "returned"}
      /\ UNCHANGED <<plan, opening, waiting, reading, diffing>>
      /\ pc' = "file" => DOMAIN results' = {}
  BY DEF WorkersInv, ResultsInv, Assemble, EndFiles, Fail, CloseCache, cacheVars, workerVars
<1>2. RefInv' /\ PcInv' /\ RunningInv' /\ ResultsInv'
  BY <1>1 DEF WorkersInv, RefInv, PcInv, RunningInv, ResultsInv, ResultsTheirOwn
<1>3. MappingsInv'
  BY <1>1 DEF WorkersInv, MappingsInv, AtMostOne, Assemble, EndFiles, Fail, CloseCache, cacheVars
<1> QED BY <1>2, <1>3 DEF WorkersInv

-----------------------------------------------------------------------------
(* Every step keeps the invariant. *)
LEMMA WorkersNextInv == WorkersInv /\ [DeltaWorkersNext]_deltaWorkersVars => WorkersInv'
<1> SUFFICES ASSUME WorkersInv, [DeltaWorkersNext]_deltaWorkersVars PROVE WorkersInv'
  OBVIOUS
<1>1. CASE NextFile \/ NoReference \/ ReuseReference
  BY <1>1, CacheKeeps
<1>2. CASE OpenReference
  BY <1>2, OpenKeeps
<1>3. CASE ReplaceReference
  BY <1>3, ReplaceKeeps
<1>4. CASE BeginWorkers
  BY <1>4, BeginKeeps
<1>5. CASE \E i \in reading \cup diffing : WorkerStep(i)
  BY <1>5, WorkerKeeps
<1>6. CASE StartWorker \/ Wait
  BY <1>6, WaitKeeps
<1>7. CASE Assemble \/ EndFiles \/ Fail \/ CloseCache
  BY <1>7, EndKeeps
<1>8. CASE UNCHANGED deltaWorkersVars
  BY <1>8 DEF deltaWorkersVars, cacheVars, workerVars, WorkersInv, PcInv, MappingsInv, AtMostOne,
              RefInv, RunningInv, ResultsInv, ResultsTheirOwn, this
<1> QED BY <1>1, <1>2, <1>3, <1>4, <1>5, <1>6, <1>7, <1>8 DEF DeltaWorkersNext, WriterStep

(* Where writeDNAR is says which mappings there are, that deltas are        *)
(* computed against the cached one, and that no worker is left where       *)
(* writeDNAR goes on (dnar.go:229-297, delta.go:30-49).                    *)
THEOREM WorkersInvariant == DeltaWorkersSpec => []WorkersInv
BY WorkersInitInv, WorkersNextInv, PTL DEF DeltaWorkersSpec

(* No worker reads a reference that has been unmapped, however many there  *)
(* are and whichever of them fails (eg.Wait, refIndexCache.close).         *)
THEOREM WorkersUseMapped == DeltaWorkersSpec => []UsesMapped
<1>1. WorkersInv => UsesMapped
  BY DEF WorkersInv, RunningInv, RefInv, MappingsInv, UsesMapped
<1> QED BY WorkersInvariant, <1>1, PTL

(* Each delta is in the place of its chunk and against a reference of its  *)
(* file, in whatever order workers end (deltaResults).                     *)
THEOREM WorkersResultsTheirOwn == DeltaWorkersSpec => []ResultsTheirOwn
<1>1. WorkersInv => ResultsTheirOwn
  BY DEF WorkersInv, ResultsInv
<1> QED BY WorkersInvariant, <1>1, PTL

(* There are never more than two mappings, and none in the end.            *)
THEOREM WorkersMappingsBounded == DeltaWorkersSpec => []MappingsBounded
<1>1. ASSUME WorkersInv PROVE MappingsBounded
  <2>1. /\ IsFiniteSet(cached) /\ Cardinality(cached) \in {0, 1}
        /\ IsFiniteSet(opening) /\ Cardinality(opening) \in {0, 1}
    <3>1. ASSUME NEW set, AtMostOne(set)
          PROVE  IsFiniteSet(set) /\ Cardinality(set) \in {0, 1}
      <4>1. CASE set = {}
        BY <4>1, FS_EmptySet
      <4>2. CASE \E x : set = {x}
        BY <4>2, FS_Singleton
      <4> QED BY <3>1, <4>1, <4>2 DEF AtMostOne
    <3> QED BY <1>1, <3>1 DEF WorkersInv, MappingsInv
  <2>2. Cardinality(cached \cup opening) <= 2
    <3>1. Cardinality(cached \cap opening) = 0
      BY <1>1, FS_EmptySet DEF WorkersInv, MappingsInv
    <3> QED BY <2>1, <3>1, FS_Union
  <2>3. mapped = cached \cup opening /\ (pc = "returned" => Cardinality(mapped) = 0)
    BY <1>1, FS_EmptySet DEF WorkersInv, MappingsInv
  <2> QED BY <2>2, <2>3 DEF MappingsBounded
<1> QED BY WorkersInvariant, <1>1, PTL

=============================================================================
