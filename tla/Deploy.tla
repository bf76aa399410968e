------------------------------- MODULE Deploy -------------------------------
(***************************************************************************)
(* A deployment: dnar-pack on one host writes an archive into a pipe out   *)
(* of which dnar-unpack on another one reads it, and what that writes goes *)
(* through a pipe to nix-store --import.                                   *)
(*                                                                         *)
(* The gcroots dnar-pack takes the store paths of the host from are kept   *)
(* by hand: the host may have collected one of these, or have another      *)
(* build of it.                                                            *)
(***************************************************************************)
EXTENDS Pack, Unpack

VARIABLES
  imported,     \* the NARs nix-store has taken
  import        \* whether it is "running", "complete" or "stopped"

importVars == <<imported, import>>
deployVars == <<packVars, unpackVars, importVars>>

DeployInit ==
  /\ UnpackInit /\ \E w \in World : PackInitIn(w) /\ target = w.host
  /\ imported = <<>> /\ import = "running"

PackEnded == phase \in {"done", "failed"}
UnpackEnded == uphase \in {"complete", "truncated", "error", "failed"}

-----------------------------------------------------------------------------
(* nix-store --import takes a store path once it has read its NAR and the  *)
(* trailer, and goes on until it reads the end of the stream.              *)

ImportPath ==
  /\ import = "running" /\ Len(imported) < Len(out) /\ Len(imported) < flushed
  /\ imported' = Append(imported, out[Len(imported) + 1])
  /\ UNCHANGED import

ImportEnd ==
  /\ import = "running" /\ Len(imported) = Len(out) /\ Len(imported) < flushed
  /\ import' = "complete"
  /\ UNCHANGED imported

(* The pipe is closed and the end has not come. *)
ImportTruncated ==
  /\ import = "running" /\ UnpackEnded /\ Len(imported) = flushed
  /\ import' = "stopped"
  /\ UNCHANGED imported

ImportStep == ImportPath \/ ImportEnd \/ ImportTruncated

-----------------------------------------------------------------------------
(* All programs have ended. *)
Ended == PackEnded /\ UnpackEnded /\ import # "running" /\ UNCHANGED deployVars

DoPack == PackNext /\ UNCHANGED <<unpackVars, importVars>>
DoUnpack == (UnpackStep(PackEnded) \/ UnpackFail) /\ UNCHANGED <<packVars, importVars>>
DoImport == ImportStep /\ UNCHANGED <<packVars, unpackVars>>

DeployNext == DoPack \/ DoUnpack \/ DoImport \/ Ended

DeploySpec == DeployInit /\ [][DeployNext]_deployVars

(* No program waits for anything but the one before it and the disk. *)
DeployFairSpec ==
  /\ DeploySpec
  /\ WF_deployVars(PackStep /\ UNCHANGED <<unpackVars, importVars>>)
  /\ WF_deployVars(UnpackStep(PackEnded) /\ UNCHANGED <<packVars, importVars>>)
  /\ WF_deployVars(DoImport)

-----------------------------------------------------------------------------
(* What is confused with what.  Three matches that the code takes for full *)
(* ones are not.                                                           *)

(* A file whose name starts like that of a directory that is matched in    *)
(* full, and follows it, is taken for one of its files.                    *)
HasMatchedSibling(sp) ==
  \E i \in DOMAIN db[sp], j \in DOMAIN db[sp] :
    LET dir == db[sp][i]
        other == db[sp][j]
    IN  /\ i < j /\ dir.type = "directory"
        /\ LocalFilesByHash(dir.hash) # {}
        /\ StringPrefix(dir.path, other.path) /\ ~IsPrefix(dir.path, other.path)

(* What the index matches with a directory is not the same directory: the  *)
(* hash of a directory does not cover all that a NAR has of it.            *)
HasOtherDirectory(sp) ==
  \E i \in DOMAIN db[sp] :
    /\ db[sp][i].type = "directory"
    /\ \E f \in LocalFilesByHash(db[sp][i].hash) :
         LET path == db[sp][i].path IN
         NodesAt(indexed[f[1]], EntryOf(f).path, path) # NodesAt(indexed[sp], path, path)

(* What the index matches with a file is no file. *)
HasOtherFile(sp) ==
  \E i \in DOMAIN db[sp] :
    /\ db[sp][i].type = "regular"
    /\ \E f \in LocalFilesByHash(db[sp][i].hash) : FileRow(f).type # "regular"

Confused(sp) == HasMatchedSibling(sp) \/ HasOtherDirectory(sp) \/ HasOtherFile(sp)

(* A store path is not what the index says of it: not where it is packed,  *)
(* or not on the host that the index takes it to be on.                    *)
Changed(sp) ==
  \/ indexed[sp] # disk[sp]
  \/ sp \in local /\ target[sp] # indexed[sp]

(* The store paths that a NAR message is made of: its own, the inputs it   *)
(* names, and those a payload was read from, which may be another one that *)
(* has the same chunk.                                                     *)
DescriptorsOf(msg) ==
  UNION {ToSet(file.chunks) : file \in {g \in ToSet(msg.files) : g.type = "regular"}}

InputsOf(msg) ==
  {file.from : file \in {g \in ToSet(msg.files) : g.type = "directory" /\ g.from # NoDirectory}}
    \cup {c.index : c \in {d \in DescriptorsOf(msg) : d.chunk # "ca"}}

SourcesOf(msg) ==
  {msg.path} \cup {inputFiles[i][1] : i \in InputsOf(msg)}
    \cup {chunkDeps[c.index].file[1] : c \in {d \in DescriptorsOf(msg) : d.chunk = "ca"}}

FromChanged(msg) == \E sp \in SourcesOf(msg) : Changed(sp)

-----------------------------------------------------------------------------
(* Properties *)

(* Type correctness of what the programs keep. *)
TypeOK ==
  /\ PackTypeOK
  /\ uphase \in {"narHeader", "nars", "chunks", "eof", "nextNar", "write",
                 "complete", "truncated", "error", "failed"}
  /\ pos \in 0..Len(archive) /\ want \in Nat
  /\ un \in 1..Len(nars) + 1
  /\ flushed \in Len(imported)..Len(out) + 1

(* A deployment delivers the closures' missing paths bit for bit and in    *)
(* order (writeDNAR, nixStoreExportMain), or it stops: no interleaving,    *)
(* failure, end of a pipe or flush of a buffer after a panic lets the host *)
(* take a prefix for the whole, or a NAR with another's bytes for its own. *)
Promise == INSTANCE Delivery WITH
  promised <- [i \in DOMAIN new |-> [path |-> new[i], nodes |-> NarOf(disk[new[i]])]],
  delivered <- imported,
  status <- import

Delivers == Promise!Spec

(* The same of every store, but for the paths confused and those made of   *)
(* one that has changed: nothing but the three confusions, and an index or *)
(* gcroots out of date, makes the host take another NAR for one it was     *)
(* sent, and only where it is made of what is out of date.                 *)
OnlyConfusedDiffer ==
  \A i \in DOMAIN out :
    /\ out[i].path = new[i]
    /\ \/ out[i].nodes = NarOf(disk[new[i]])
       \/ Confused(new[i]) \/ FromChanged(nars[i])

(* An archive that dnar-pack wrote is one that dnar-unpack takes, unless   *)
(* files are confused or have changed: every index resolves, every range   *)
(* can be read and the sizes add up.                                       *)
OnlyConfusedFail == uphase = "error" => Confused(nars[un].path) \/ FromChanged(nars[un])

(* No message says what it is: the reader takes each one for what it was   *)
(* written as only because both count alike, and it misses one only when   *)
(* dnar-pack has failed (sendStreamHeader, readNARs, readChunks, readEOF). *)
StreamsFit ==
  /\ pos < Len(archive) =>
       /\ uphase = "narHeader" => Message.msg = "header"
       /\ uphase = "nars" => Message.msg = (IF want > 0 THEN "nar" ELSE "header")
       /\ uphase = "chunks" => Message.msg = (IF want > 0 THEN "chunk" ELSE "trailer")
       /\ uphase # "eof"
  /\ uphase = "truncated" => phase = "failed"

(* Whatever is packed, and whatever fails: nix-store takes the store paths *)
(* in the order they are sent in, which is that of their references, and   *)
(* ends as if all had come only when all have (deferred Flush, panics).    *)
WholeOrStopped ==
  /\ Len(imported) <= Len(new)
  /\ \A i \in DOMAIN imported : imported[i].path = new[i]
  /\ import = "complete" => Len(imported) = Len(new)

(* All programs end: none waits for a message that is not to come, and     *)
(* nix-store for nothing that stayed in the buffer of dnar-unpack.         *)
Terminates == <>(PackEnded /\ UnpackEnded /\ import # "running")

-----------------------------------------------------------------------------
(* What the repository says, and the code does not do.  Each is violated.  *)

(* dnar.go:175-178: of the files of a store path, those "from" a directory *)
(* matched in full, and no others, are left out of its NAR message.        *)
OnlyItsFilesSkipped ==
  \A i \in DOMAIN archive : archive[i].msg = "nar" =>
    \A e \in ToSet(disk[archive[i].path]) : \E file \in ToSet(archive[i].files) :
      \/ file.path = e.path
      \/ file.type = "directory" /\ file.from # NoDirectory /\ Below(file.path, e.path)

(* dedup.md:20-22: a directory reused is fully identical to the one sent.  *)
ReusedDirectoriesIdentical ==
  phase # "failed" =>
    \A i \in DOMAIN archive : archive[i].msg = "nar" =>
      \A dir \in {g \in ToSet(archive[i].files) : g.type = "directory" /\ g.from # NoDirectory} :
        LET f == inputFiles[dir.from] IN
        NodesAt(indexed[f[1]], EntryOf(f).path, dir.path)
          = NodesAt(indexed[archive[i].path], dir.path, dir.path)

(* dedup.md:15-16: a file whose hash matches has its contents reused in    *)
(* full: dnar-unpack writes it.                                            *)
MatchedFilesReused ==
  uphase = "error" => ~(ufile.type = "regular" /\ ufile.chunks # <<>> /\ uchunk.chunk = "fd")

(* dnar.proto:54: what is read from an input is verified to be what the    *)
(* digest of the chunk says.                                               *)
DigestsVerified ==
  [][WriteFD /\ uphase' = "write" =>
       SubSeq(content', Len(content) + 1, Len(content')) = uchunk.digest]_deployVars

(* delta.md:13-14: the file picked as the reference is the one that shares *)
(* the most content with what is being packed.                             *)
ReferenceSharesMost ==
  LET Shared(f) == Cardinality({k \in DOMAIN chunks :
                     \E m \in LocalChunksByHash(chunks[k].hash) : m.file = f})
  IN  \A f \in ref, g \in LocalFiles : FitsAsReference(g) => Shared(g) <= Shared(f)

=============================================================================
