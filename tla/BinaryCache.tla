----------------------------- MODULE BinaryCache -----------------------------
(***************************************************************************)
(* dnar-unpack binary-cache: an archive is unpacked into a directory with  *)
(* the layout of a binary cache, a NAR and then its narinfo at a time.     *)
(*                                                                         *)
(* The directory outlives the program.  A run may stop at any step, by an  *)
(* error or killed, and later runs find what it left.  Whoever copies from *)
(* the cache, at any time, reads a narinfo first and the NAR it names      *)
(* later.                                                                  *)
(***************************************************************************)
EXTENDS ChunkStore, FiniteSets, SequencesExt

CONSTANTS
  Path,         \* store paths
  Archive,      \* what there is to unpack: [chunks, nars] records
  MaxRuns       \* how often dnar-unpack is started, at most

(* A NAR is written in pieces: those of its own, which the NAR format and  *)
(* the inputs make up, and payloads of the archive.                        *)
Own(bytes) == [own |-> TRUE, bytes |-> bytes, index |-> 0]
Payload(index) == [own |-> FALSE, bytes |-> <<>>, index |-> index]

(* The bytes of a NAR message's pieces, with these payloads. *)
BytesOf(m, chunks) ==
  FlattenSeq([i \in DOMAIN m.pieces |->
    IF m.pieces[i].own THEN m.pieces[i].bytes ELSE chunks[m.pieces[i].index]])

ASSUME BinaryCacheAssumption ==
  /\ MaxRuns \in Nat
  /\ \A a \in Archive :
       /\ a.chunks \in Seq(Seq(Byte))
       /\ a.nars \in Seq(ToSet(a.nars))
       /\ \A m \in ToSet(a.nars) :
            /\ m.path \in Path
            /\ m.pieces \in Seq([own : BOOLEAN, bytes : Seq(Byte), index : Nat])
       /\ \A i, j \in DOMAIN a.nars : a.nars[i].path = a.nars[j].path => i = j

VARIABLES
  cacheInfo,    \* nix-cache-info: "absent", "empty" or "whole"
  nar,          \* the files nar/*.nar: bytes, for some of the paths
  info,         \* the files *.narinfo: lines, for some of the paths

  pc,           \* where dnar-unpack is
  arch,         \* the archive it unpacks
  n,            \* the NAR being written
  piece,        \* the piece of it being written
  line,         \* the line of its narinfo being written
  runs,         \* how often it was started

  seen,         \* the narinfo a reader has read: none, or one
  took          \* what it copied with it: none, or one

cacheVars == <<cacheInfo, nar, info>>
runVars == <<pc, arch, n, piece, line, runs>>
readerVars == <<seen, took>>
binaryCacheVars == <<chunkStoreVars, cacheVars, runVars, readerVars>>

Ended == {"idle", "complete", "stopped"}

BinaryCacheInit ==
  /\ OpenTempChunkStore
  /\ cacheInfo = "absent" /\ nar = [p \in {} |-> <<>>] /\ info = [p \in {} |-> <<>>]
  /\ pc = "idle" /\ arch \in Archive /\ n = 1 /\ piece = 1 /\ line = 1 /\ runs = 0
  /\ seen = {} /\ took = {}

(* The function f with the value v at x, whether or not it had one. *)
With(f, x, v) == [y \in DOMAIN f \cup {x} |-> IF y = x THEN v ELSE f[y]]

-----------------------------------------------------------------------------
(* Reading the archive. *)

Start(a) ==
  /\ pc \in Ended /\ runs < MaxRuns
  /\ arch' = a /\ runs' = runs + 1
  /\ pc' = "chunks" /\ n' = 1 /\ piece' = 1 /\ line' = 1
  /\ Reopen
  /\ UNCHANGED <<cacheVars, readerVars>>

ReadChunkMessage ==
  /\ pc = "chunks" /\ Len(entries) < Len(arch.chunks)
  /\ WriteChunk(arch.chunks[Len(entries) + 1])
  /\ UNCHANGED <<cacheVars, runVars, readerVars>>

MapChunks ==
  /\ pc = "chunks" /\ Len(entries) = Len(arch.chunks)
  /\ Map
  /\ pc' = "create"
  /\ UNCHANGED <<cacheVars, arch, n, piece, line, runs, readerVars>>

-----------------------------------------------------------------------------
(* Writing the cache. *)

(* nix-cache-info is written only where there is none: os.WriteFile makes  *)
(* the file first and fills it then.                                       *)
Create ==
  /\ pc = "create"
  /\ IF cacheInfo = "absent" THEN cacheInfo' = "empty" /\ pc' = "cacheInfo"
                             ELSE pc' = "nar" /\ UNCHANGED cacheInfo
  /\ UNCHANGED <<chunkStoreVars, nar, info, arch, n, piece, line, runs, readerVars>>

WriteCacheInfo ==
  /\ pc = "cacheInfo"
  /\ cacheInfo' = "whole" /\ pc' = "nar"
  /\ UNCHANGED <<chunkStoreVars, nar, info, arch, n, piece, line, runs, readerVars>>

msgNar == arch.nars[n]

(* Faulty: what an earlier run left is added to. *)
AppendToNAR ==
  /\ pc = "nar" /\ n <= Len(arch.nars)
  /\ nar' = IF msgNar.path \in DOMAIN nar THEN nar ELSE With(nar, msgNar.path, <<>>)
  /\ pc' = "pieces" /\ piece' = 1
  /\ UNCHANGED <<chunkStoreVars, cacheInfo, info, arch, n, line, runs, readerVars>>

(* os.Create: the file of an earlier run is cut to nothing. *)
CreateNAR ==
  /\ pc = "nar" /\ n <= Len(arch.nars)
  /\ nar' = With(nar, msgNar.path, <<>>)
  /\ pc' = "pieces" /\ piece' = 1
  /\ UNCHANGED <<chunkStoreVars, cacheInfo, info, arch, n, line, runs, readerVars>>

(* A payload the archive does not have ends the run with an error. *)
WritePiece ==
  /\ pc = "pieces" /\ piece <= Len(msgNar.pieces)
  /\ LET this == msgNar.pieces[piece]
         bytes == IF this.own THEN this.bytes ELSE ReadChunk(this.index)
     IN  IF this.own \/ this.index \in DOMAIN entries
         THEN /\ nar' = [nar EXCEPT ![msgNar.path] = @ \o bytes]
              /\ piece' = piece + 1
              /\ UNCHANGED pc
         ELSE pc' = "stopped" /\ UNCHANGED <<nar, piece>>
  /\ UNCHANGED <<chunkStoreVars, cacheInfo, info, arch, n, line, runs, readerVars>>

(* The lines of a narinfo, in the order in which they are written. *)
Keys == <<"StorePath", "URL", "Compression", "NarHash", "NarSize", "References">>

LineOf(m, key) ==
  CASE key \in {"StorePath", "URL"} -> m.path
    [] key = "Compression"          -> "none"
    [] key = "NarHash"              -> m.hash
    [] key = "NarSize"              -> Len(m.hash)
    [] key = "References"           -> m.refs

(* Faulty: the narinfo of an earlier run is written over and not cut. *)
CreateNARInfoUncut ==
  /\ pc = "pieces" /\ piece > Len(msgNar.pieces)
  /\ info' = IF msgNar.path \in DOMAIN info THEN info
             ELSE With(info, msgNar.path, [key \in {} |-> {}])
  /\ pc' = "lines" /\ line' = 1
  /\ UNCHANGED <<chunkStoreVars, cacheInfo, nar, arch, n, piece, runs, readerVars>>

CreateNARInfo ==
  /\ pc = "pieces" /\ piece > Len(msgNar.pieces)
  /\ info' = With(info, msgNar.path, [key \in {} |-> {}])
  /\ pc' = "lines" /\ line' = 1
  /\ UNCHANGED <<chunkStoreVars, cacheInfo, nar, arch, n, piece, runs, readerVars>>

WriteLine ==
  /\ pc = "lines" /\ line <= Len(Keys)
  /\ info' = [info EXCEPT ![msgNar.path] = With(@, Keys[line], LineOf(msgNar, Keys[line]))]
  /\ line' = line + 1
  /\ UNCHANGED <<chunkStoreVars, cacheInfo, nar, pc, arch, n, piece, runs, readerVars>>

(* Faulty: the same NAR again. *)
EndNARInfoStays ==
  /\ pc = "lines" /\ line > Len(Keys)
  /\ pc' = "nar"
  /\ UNCHANGED <<chunkStoreVars, cacheVars, arch, n, piece, line, runs, readerVars>>

EndNARInfo ==
  /\ pc = "lines" /\ line > Len(Keys)
  /\ n' = n + 1 /\ pc' = "nar"
  /\ UNCHANGED <<chunkStoreVars, cacheVars, arch, piece, line, runs, readerVars>>

Complete ==
  /\ pc = "nar" /\ n > Len(arch.nars)
  /\ pc' = "complete"
  /\ UNCHANGED <<chunkStoreVars, cacheVars, arch, n, piece, line, runs, readerVars>>

(* A read of the archive or a write may fail, or dnar-unpack be killed, at *)
(* any time: what it has written stays.                                    *)
Stop ==
  /\ pc \notin Ended
  /\ pc' = "stopped"
  /\ UNCHANGED <<chunkStoreVars, cacheVars, arch, n, piece, line, runs, readerVars>>

-----------------------------------------------------------------------------
(* Whoever copies from the cache: nix copy takes a narinfo that has these  *)
(* lines, references or not, and then a NAR of that hash.                  *)

Accepted(lines) == {"StorePath", "URL", "NarHash", "NarSize"} \subseteq DOMAIN lines

OfferOf(lines) ==
  [path |-> lines["StorePath"], content |-> lines["NarHash"],
   refs |-> IF "References" \in DOMAIN lines THEN lines["References"] ELSE {}]

(* Whether the NAR these lines name is there, with their hash and size. *)
Verified(lines) ==
  /\ lines["URL"] \in DOMAIN nar
  /\ nar[lines["URL"]] = lines["NarHash"]
  /\ Len(nar[lines["URL"]]) = lines["NarSize"]

ReadInfo(p) ==
  /\ p \in DOMAIN info /\ Accepted(info[p])
  /\ seen' = {info[p]} /\ took' = {}
  /\ UNCHANGED <<chunkStoreVars, cacheVars, runVars>>

TakeNar ==
  /\ \E lines \in seen : took' = IF Verified(lines) THEN {OfferOf(lines)} ELSE {}
  /\ seen' = {}
  /\ UNCHANGED <<chunkStoreVars, cacheVars, runVars>>

-----------------------------------------------------------------------------
UnpackerStep ==
  \/ ReadChunkMessage \/ MapChunks \/ Create \/ WriteCacheInfo
  \/ CreateNAR \/ WritePiece \/ CreateNARInfo \/ WriteLine \/ EndNARInfo \/ Complete

ReaderStep == TakeNar \/ \E p \in Path : ReadInfo(p)

BinaryCacheNext ==
  \/ \E a \in Archive : Start(a)
  \/ UnpackerStep \/ Stop
  \/ ReaderStep

BinaryCacheSpec == BinaryCacheInit /\ [][BinaryCacheNext]_binaryCacheVars

(* A run that is not stopped goes on: it waits for nobody. *)
BinaryCacheFairSpec == BinaryCacheSpec /\ WF_binaryCacheVars(UnpackerStep)

-----------------------------------------------------------------------------
(* Properties *)

OfferIn(m) == [path |-> m.path, content |-> m.hash, refs |-> m.refs]

Sent == UNION {{OfferIn(m) : m \in ToSet(a.nars)} : a \in Archive}

(* What the cache would hand out for p if it were read now. *)
Offers(p) ==
  {OfferOf(lines) : lines \in {l \in {info[q] : q \in DOMAIN info \cap {p}} :
                                 Accepted(l) /\ Verified(l)}}

(* A store path is offered only when its NAR is written in full, and stays *)
(* withdrawn from the first byte of a new one until that one's narinfo is  *)
(* there: stopped anywhere and started again with whatever archive, no run *)
(* turns the cache from one offer to another directly (binaryCacheMain).   *)
Publisher == INSTANCE Publication WITH offered <- [p \in Path |-> Offers(p)]

Publishes == Publisher!Spec

(* A run that completes leaves the cache with every NAR of its archive and *)
(* its references, whatever the runs stopped before it had left there; a   *)
(* NAR that is not what its hash says is not offered (binaryCacheMain).    *)
CompletedWhole ==
  pc = "complete" =>
    /\ cacheInfo # "absent"
    /\ \A m \in ToSet(arch.nars) :
         Offers(m.path) = IF BytesOf(m, arch.chunks) = m.hash THEN {OfferIn(m)} ELSE {}

(* What a reader copies is a NAR that an archive brought, with that NAR's  *)
(* references or with none, though the cache was written to between its    *)
(* reading of the narinfo and of the NAR (WriteNARInfo).                   *)
TookSent == \A t \in took : \E offer \in Sent : t = offer \/ t = Publisher!Untold(offer)

(* A run ends, unless it is never started (binaryCacheMain). *)
RunsEnd == []<>(pc \in Ended)

=============================================================================
