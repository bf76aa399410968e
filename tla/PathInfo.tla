------------------------------ MODULE PathInfo ------------------------------
(***************************************************************************)
(* What dnar-pack learns of store paths from nix path-info, whose output   *)
(* has a format for each implementation of Nix: a map of entries by store  *)
(* path, a map of them by base name, or an array of them.                  *)
(*                                                                         *)
(* The path of a file is the sequence of its names.                        *)
(***************************************************************************)
EXTENDS Naturals, Sequences, FiniteSets, SequencesExt

CONSTANTS
  StoreDir,       \* the name of the store
  StorePath,      \* the base names of the store paths
  Refs            \* the references of each store path

ASSUME PathInfoAssumption == Refs \in [StorePath -> SUBSET StorePath]

Full(p) == <<StoreDir, p>>

(* filepath.Base *)
Base(path) == <<path[Len(path)]>>

(* What is to be known of a store path: hash and size go together here. *)
Info(p, hash) == [narHash |-> hash, references |-> {Base(Full(r)) : r \in Refs[p]}]

-----------------------------------------------------------------------------
(* nix path-info, on the sender. *)

Implementation == {"lix", "array", "object", "v2"}

(* The entry that is printed for p; the array has the path in it. *)
Printed(p, hash, full) ==
  [path |-> Full(p), narHash |-> hash,
   references |-> {IF full THEN Full(r) ELSE Base(Full(r)) : r \in Refs[p]}]

(* The output of this implementation: hashes are those of the store paths  *)
(* asked for.  Version 2 is printed only when it is asked for.             *)
Output(nix, v2, hashes) ==
  LET shape == IF nix \in {"lix", "array"} THEN "array" ELSE IF nix = "v2" /\ v2 THEN "v2" ELSE "object"
      full == shape # "v2"
  IN  [shape |-> shape,
       entries |-> {<<IF full THEN Full(p) ELSE Base(Full(p)), Printed(p, hashes[p], full)>> :
                    p \in DOMAIN hashes}]

-----------------------------------------------------------------------------
(* probePathInfoMode: the formats it may settle for.  Either probe may     *)
(* fail to run, and the default is what is left.                           *)
Probed(nix) ==
  {"object"} \cup (IF nix = "lix" THEN {"array"} ELSE {})
             \cup (IF nix = "v2" THEN {"v2"} ELSE {})

(* Faulty: the references are kept as they are printed. *)
EntryAsPrinted(entry) == [narHash |-> entry.narHash, references |-> entry.references]

(* The references are kept as base names, which they may already be. *)
EntryOf(entry) ==
  [narHash |-> entry.narHash, references |-> {Base(r) : r \in entry.references}]

(* The store path an entry is kept under. *)
KeyOf(key, format) == IF format = "v2" THEN <<StoreDir>> \o key ELSE key

(* parsePathInfos: an output that is not of this shape cannot be decoded,  *)
(* but for an object that is taken for one without info.  The result is    *)
(* one map, or none.                                                       *)
ParsePathInfos(out, format) ==
  IF out.shape = format
  THEN {[path \in {KeyOf(e[1], format) : e \in out.entries} |->
           EntryOf((CHOOSE e \in out.entries : KeyOf(e[1], format) = path)[2])]}
  ELSE IF out.shape = "object" /\ format = "v2" THEN {[path \in {} |-> {}]} ELSE {}

(* getPathInfos: the maps it may return.  nix is not asked about nothing. *)
GetPathInfos(nix, hashes) ==
  IF DOMAIN hashes = {} THEN {[path \in {} |-> {}]}
  ELSE UNION {ParsePathInfos(Output(nix, format = "v2", hashes), format) : format \in Probed(nix)}

=============================================================================
