----------------------------- MODULE StreamProofs -----------------------------
(***************************************************************************)
(* dnar-unpack takes every message for what dnar-pack wrote it as, for     *)
(* every store and however the two and nix-store interleave.               *)
(*                                                                         *)
(* No message says what it is.  The writer's invariant is the place of     *)
(* each message in the archive, the reader's what it has still to read up  *)
(* to the end of the stream it is in, and that of nix-store how much of    *)
(* what is written in full can have come out of the pipe.                  *)
(***************************************************************************)
EXTENDS Deploy, PackProofs

(* The chunks that the second header announces. *)
ChunkCount == archive[Len(new) + 2].length

(* Where each message is. *)
Place(i) ==
  /\ i = 1 => archive[i].msg = "header" /\ archive[i].length = Len(new)
  /\ i \in 2..Len(new) + 1 => archive[i].msg = "nar" /\ archive[i].path = new[i - 1]
  /\ i = Len(new) + 2 => archive[i].msg = "header" /\ archive[i].length \in Nat
  /\ i > Len(new) + 2 =>
       /\ i <= Len(new) + 2 + ChunkCount => archive[i].msg = "chunk"
       /\ i > Len(new) + 2 + ChunkCount =>
            archive[i].msg = "trailer" /\ i = Len(new) + 3 + ChunkCount

(* How much of the archive each phase has written. *)
WrittenInv ==
  /\ phase = "start" => Len(archive) = 0 /\ np = 1
  /\ phase \in {"nars", "files", "reference", "chunks"} => Len(archive) = np
  /\ phase = "payloads" =>
       /\ Len(archive) \in Len(new) + 2..Len(new) + 2 + Len(chunkDeps)
       /\ ChunkCount = Len(chunkDeps)
  /\ phase = "done" => Len(archive) > Len(new) + 2 /\ Len(archive) = Len(new) + 3 + ChunkCount

ArchiveInv == WrittenInv /\ \A i \in 1..Len(archive) : Place(i)

(* What is still to be read of the stream the reader is in. *)
ReaderInv ==
  /\ pos \in 0..Len(archive) /\ want \in Nat
  /\ uphase \in {"narHeader", "nars", "chunks", "eof", "nextNar", "write",
                 "complete", "truncated", "error", "failed"}
  /\ uphase = "narHeader" => pos = 0
  /\ uphase = "nars" => pos >= 1 /\ pos + want = Len(new) + 1
  /\ uphase = "chunks" => pos >= Len(new) + 2 /\ pos + want = Len(new) + 2 + ChunkCount
  /\ uphase = "eof" => pos >= Len(new) + 3 /\ pos = Len(new) + 3 + ChunkCount
  /\ uphase = "truncated" => phase = "failed"

(* The NARs read are the first of those to send, in order, and so are      *)
(* those written and those taken by nix-store; the end follows the last.   *)
NarsInv ==
  /\ IsSeq(nars) /\ Len(nars) <= Len(new)
  /\ \A j \in 1..Len(nars) : nars[j].path = new[j]
  /\ uphase = "narHeader" => Len(nars) = 0
  /\ uphase = "nars" => Len(nars) = pos - 1
  /\ uphase \in {"chunks", "eof", "nextNar", "write", "complete"} => Len(nars) = Len(new)

OutInv ==
  /\ IsSeq(out) /\ un = Len(out) + 1 /\ un <= Len(nars) + 1
  /\ \A j \in 1..Len(out) : out[j].path = new[j]
  /\ uphase = "write" => un <= Len(nars)
  /\ flushed \in 0..Len(out) + 1
  /\ flushed = Len(out) + 1 => uphase = "complete"
  /\ uphase = "complete" => un = Len(nars) + 1

ImportInv ==
  /\ IsSeq(imported) /\ Len(imported) <= Len(out) /\ Len(imported) <= flushed
  /\ \A j \in 1..Len(imported) : imported[j].path = new[j]
  /\ import = "complete" => uphase = "complete" /\ Len(imported) = Len(out)

HostInv == NarsInv /\ OutInv /\ ImportInv

StreamInv == PackInv /\ ArchiveInv /\ ReaderInv /\ HostInv

-----------------------------------------------------------------------------
(* The writer. *)

(* A message appended takes the next place. *)
LEMMA PlacesKept ==
  ASSUME PackInv, ArchiveInv, UNCHANGED new, NEW m, archive' = Append(archive, m),
         NEW k, k = Len(archive) + 1, Place(k)'
  PROVE  \A i \in 1..Len(archive') : Place(i)'
<1>1. /\ Len(archive) \in Nat /\ DOMAIN archive = 1..Len(archive) /\ Len(new) \in Nat
      /\ Len(archive') = Len(archive) + 1
      /\ \A i \in 1..Len(archive) : archive'[i] = archive[i]
  BY AppendIs, SeqIs, LengthOfNew DEF PackInv, ListsInv, Extends
<1>2. ASSUME NEW i \in 1..Len(archive)
      PROVE  Place(i)'
  <2>1. Place(i) /\ archive'[i] = archive[i] /\ i \in Nat
    BY <1>1 DEF ArchiveInv
  <2>2. i > Len(new) + 2 => ChunkCount' = ChunkCount
    <3>1. i > Len(new) + 2 => Len(new) + 2 \in 1..Len(archive)
      BY <1>1
    <3> QED BY <1>1, <3>1 DEF ChunkCount
  <2> QED BY <2>1, <2>2 DEF Place
<1>3. ASSUME NEW i \in 1..Len(archive')
      PROVE  Place(i)'
  <2>1. i \in 1..Len(archive) \/ i = k
    BY <1>1
  <2> QED BY <1>2, <2>1
<1> QED BY <1>3

(* The numbers of what the writer counts. *)
LEMMA CountsAre ==
  ASSUME PackInv
  PROVE  /\ IsSeq(archive) /\ Len(archive) \in Nat /\ Len(new) \in Nat
         /\ Len(chunkDeps) \in Nat /\ np \in 1..Len(new) + 1
BY SeqIs, LengthOfNew DEF PackInv, ListsInv, PhaseInv

(* A step that writes a message writes the one whose turn it is. *)
LEMMA MessageInPlace ==
  ASSUME PackInv, ArchiveInv,
         SendNarHeader \/ EndNar \/ SendChunkHeader \/ SendChunk \/ SendTrailer
  PROVE  ArchiveInv'
<1>. PICK k : k = Len(archive) + 1
  OBVIOUS
<1>0. /\ IsSeq(archive) /\ Len(archive) \in Nat /\ Len(new) \in Nat
      /\ Len(chunkDeps) \in Nat /\ np \in 1..Len(new) + 1 /\ new' = new /\ chunkDeps' = chunkDeps
      /\ WrittenInv
  BY CountsAre DEF SendNarHeader, EndNar, SendChunkHeader, SendChunk, SendTrailer, inputVars,
                   depVars, ArchiveInv
<1>1. ASSUME NEW m, archive' = Append(archive, m), Place(k)', WrittenInv'
      PROVE  ArchiveInv'
  <2>1. \A i \in 1..Len(archive') : Place(i)'
    BY <1>0, <1>1, PlacesKept
  <2> QED BY <1>1, <2>1 DEF ArchiveInv
<1>2. ASSUME NEW m, archive' = Append(archive, m)
      PROVE  /\ Len(archive') = k /\ archive'[k] = m
             /\ \A i \in 1..Len(archive) : archive'[i] = archive[i]
  BY <1>0, <1>2, AppendIs, SeqIs DEF Extends
<1>3. CASE SendNarHeader
  <2>1. PICK m : /\ archive' = Append(archive, m) /\ m.msg = "header" /\ m.length = Len(new)
                 /\ phase = "start" /\ phase' = "nars" /\ np' = np
    BY <1>3 DEF SendNarHeader, StreamHeader
  <2>2. k = 1 /\ Len(archive') = k /\ archive'[k] = m /\ np = 1
    BY <1>0, <1>2, <2>1 DEF WrittenInv
  <2>3. Place(k)' /\ WrittenInv'
    BY <1>0, <2>1, <2>2 DEF Place, WrittenInv
  <2> QED BY <1>1, <2>1, <2>3
<1>4. CASE EndNar
  <2>1. PICK m : /\ archive' = Append(archive, m) /\ m.msg = "nar" /\ m.path = new[np]
                 /\ phase = "files" /\ phase' = "nars" /\ np' = np + 1
    BY <1>4 DEF EndNar, NAR
  <2>2. k = np + 1 /\ Len(archive') = k /\ archive'[k] = m /\ np <= Len(new)
    BY <1>0, <1>2, <2>1 DEF WrittenInv, PackInv, PhaseInv
  <2>3. Place(k)' /\ WrittenInv'
    BY <1>0, <2>1, <2>2 DEF Place, WrittenInv
  <2> QED BY <1>1, <2>1, <2>3
<1>5. CASE SendChunkHeader
  <2>1. PICK m : /\ archive' = Append(archive, m) /\ m.msg = "header"
                 /\ m.length = Len(chunkDeps) /\ phase = "nars" /\ np > Len(new)
                 /\ phase' = "payloads"
    BY <1>5 DEF SendChunkHeader, StreamHeader
  <2>2. k = Len(new) + 2 /\ Len(archive') = k /\ archive'[k] = m
    BY <1>0, <1>2, <2>1 DEF WrittenInv
  <2>3. ChunkCount' = Len(chunkDeps)
    BY <1>0, <2>1, <2>2 DEF ChunkCount
  <2>4. Place(k)' /\ WrittenInv'
    BY <1>0, <2>1, <2>2, <2>3 DEF Place, WrittenInv
  <2> QED BY <1>1, <2>1, <2>4
<1>6. CASE SendChunk
  <2>1. PICK m : /\ archive' = Append(archive, m) /\ m.msg = "chunk"
                 /\ phase = "payloads" /\ phase' = "payloads"
                 /\ Len(archive) - Len(new) - 2 < Len(chunkDeps)
    BY <1>6 DEF SendChunk, CAChunk, PayloadsSent
  <2>2. /\ k > Len(new) + 2 /\ k <= Len(new) + 2 + Len(chunkDeps)
        /\ Len(archive') = k /\ archive'[k] = m /\ ChunkCount = Len(chunkDeps)
    BY <1>0, <1>2, <2>1 DEF WrittenInv
  <2>3. ChunkCount' = Len(chunkDeps)
    BY <1>0, <1>2, <2>1, <2>2 DEF ChunkCount
  <2>4. Place(k)' /\ WrittenInv'
    BY <1>0, <2>1, <2>2, <2>3 DEF Place, WrittenInv
  <2> QED BY <1>1, <2>1, <2>4
<1>7. CASE SendTrailer
  <2>1. PICK m : /\ archive' = Append(archive, m) /\ m.msg = "trailer"
                 /\ phase = "payloads" /\ phase' = "done"
                 /\ Len(archive) - Len(new) - 2 = Len(chunkDeps)
    BY <1>7 DEF SendTrailer, PathTrailer, PayloadsSent
  <2>2. /\ k > Len(new) + 2 /\ k = Len(new) + 3 + Len(chunkDeps)
        /\ Len(archive') = k /\ archive'[k] = m /\ ChunkCount = Len(chunkDeps)
    <3>1. Len(archive) = Len(new) + 2 + Len(chunkDeps)
      BY <1>0, <2>1
    <3>2. Len(archive') = k /\ archive'[k] = m
      BY <1>2, <2>1
    <3>3. ChunkCount = Len(chunkDeps)
      BY <1>0, <2>1 DEF WrittenInv
    <3> QED BY <1>0, <3>1, <3>2, <3>3
  <2>3. ChunkCount' = Len(chunkDeps)
    BY <1>0, <1>2, <2>1, <2>2 DEF ChunkCount
  <2>4. Place(k)' /\ WrittenInv'
    BY <1>0, <2>1, <2>2, <2>3 DEF Place, WrittenInv
  <2> QED BY <1>1, <2>1, <2>4
<1> QED BY <1>3, <1>4, <1>5, <1>6, <1>7

(* A step that writes none leaves the archive in the phase it is in. *)
LEMMA NoMessage ==
  ASSUME PackInv, ArchiveInv, UNCHANGED <<archive, new>>,
         \/ phase' = "failed"
         \/ /\ phase \in {"nars", "files", "reference", "chunks"} /\ np' = np
            /\ phase' \in {"nars", "files", "reference", "chunks"}
  PROVE  ArchiveInv'
<1>1. WrittenInv'
  BY DEF ArchiveInv, WrittenInv
<1>2. \A i \in 1..Len(archive') : Place(i)'
  BY DEF ArchiveInv, Place, ChunkCount
<1> QED BY <1>1, <1>2 DEF ArchiveInv

(* The writer keeps the messages in their places. *)
LEMMA WriterKeeps ==
  ASSUME PackInv, ArchiveInv, PackNext
  PROVE  ArchiveInv'
<1>1. CASE SendNarHeader \/ EndNar \/ SendChunkHeader \/ SendChunk \/ SendTrailer
  BY <1>1, MessageInPlace
<1>2. CASE FileUnreadable \/ PackFail
  BY <1>2, NoMessage DEF FileUnreadable, PackFail, Abort, inputVars
<1>3. CASE \/ BeginNar \/ SkipFile \/ PackSymlink \/ PackDirectory \/ LookUpChunks
           \/ ChooseReference \/ EndFile
           \/ \E f \in LocalFiles : PackMatchedDirectory(f) \/ PackMatchedFile(f)
  <2>1. /\ UNCHANGED <<archive, new, np>>
        /\ phase \in {"nars", "files", "reference", "chunks"}
        /\ phase' \in {"nars", "files", "reference", "chunks"}
    BY <1>3 DEF BeginNar, SkipFile, PackSymlink, PackDirectory, LookUpChunks, ChooseReference,
                EndFile, PackMatchedDirectory, PackMatchedFile, AtFile, inputVars
  <2> QED BY <2>1, NoMessage
<1>4. CASE \E k \in todo : ComputeDelta(k)
  BY <1>4, NoMessage DEF ComputeDelta, inputVars
<1>5. CASE DescribeMatchedChunk
  BY <1>5, NoMessage DEF DescribeMatchedChunk, AtChunk, inputVars
<1>6. CASE DescribeDelta
  BY <1>6, NoMessage DEF DescribeDelta, AtChunk, inputVars
<1>7. CASE DescribeCAChunk
  BY <1>7, NoMessage DEF DescribeCAChunk, AtChunk, inputVars
<1> QED BY <1>1, <1>2, <1>3, <1>4, <1>5, <1>6, <1>7 DEF PackNext, PackStep

(* What is written stays. *)
LEMMA ArchiveGrows ==
  ASSUME PackInv, PackNext
  PROVE  Extends(archive, archive') /\ UNCHANGED new /\ phase # "failed"
<1>1. IsSeq(archive)
  BY CountsAre
<1>2. CASE SendNarHeader \/ EndNar \/ SendChunkHeader \/ SendChunk \/ SendTrailer
  <2>1. /\ UNCHANGED new /\ phase # "failed" /\ \E m : archive' = Append(archive, m)
    BY <1>2 DEF SendNarHeader, EndNar, SendChunkHeader, SendChunk, SendTrailer, inputVars
  <2> QED BY <1>1, <2>1, AppendIs
<1>3. CASE FileUnreadable \/ PackFail
  BY <1>1, <1>3, SameIsPrefix DEF FileUnreadable, PackFail, Abort, inputVars
<1>4. CASE \/ BeginNar \/ SkipFile \/ PackSymlink \/ PackDirectory \/ LookUpChunks
           \/ ChooseReference \/ EndFile
           \/ \E f \in LocalFiles : PackMatchedDirectory(f) \/ PackMatchedFile(f)
  <2>1. UNCHANGED <<archive, new>> /\ phase # "failed"
    BY <1>4 DEF BeginNar, SkipFile, PackSymlink, PackDirectory, LookUpChunks, ChooseReference,
                EndFile, PackMatchedDirectory, PackMatchedFile, AtFile, inputVars
  <2> QED BY <1>1, <2>1, SameIsPrefix
<1>5. CASE \/ \E k \in todo : ComputeDelta(k)
           \/ DescribeMatchedChunk \/ DescribeDelta \/ DescribeCAChunk
  <2>1. UNCHANGED <<archive, new>> /\ phase # "failed"
    BY <1>5 DEF ComputeDelta, DescribeMatchedChunk, DescribeDelta, DescribeCAChunk, AtChunk,
                inputVars
  <2> QED BY <1>1, <2>1, SameIsPrefix
<1> QED BY <1>2, <1>3, <1>4, <1>5 DEF PackNext, PackStep

-----------------------------------------------------------------------------
(* The reader. *)

(* A step of the writer takes nothing from the reader. *)
LEMMA ReaderWaits ==
  ASSUME PackInv, ArchiveInv, ReaderInv, HostInv, PackNext, UNCHANGED <<unpackVars, importVars>>
  PROVE  ReaderInv' /\ HostInv'
<1>1. /\ UNCHANGED <<uphase, pos, want, nars, un, out, flushed, imported, import, new>>
      /\ Extends(archive, archive') /\ phase # "failed"
  BY ArchiveGrows DEF unpackVars, readVars, writeVars, importVars
<1>2. /\ Len(archive) \in Nat /\ DOMAIN archive = 1..Len(archive) /\ Len(new) \in Nat
      /\ IsSeq(archive') /\ Len(archive') \in Nat
  <2>1. PackInv'
    BY PackNextInv
  <2> QED BY <2>1, CountsAre, SeqIs DEF PackInv, ListsInv
<1>3. uphase = "chunks" \/ uphase = "eof" => ChunkCount' = ChunkCount
  <2>1. uphase = "chunks" \/ uphase = "eof" => Len(new) + 2 \in DOMAIN archive
    BY <1>2 DEF ReaderInv
  <2> QED BY <1>1, <2>1 DEF ChunkCount, Extends
<1>4. ReaderInv'
  BY <1>1, <1>2, <1>3 DEF ReaderInv, Extends
<1>5. HostInv'
  BY <1>1 DEF HostInv, NarsInv, OutInv, ImportInv, IsSeq
<1> QED BY <1>4, <1>5

(* The message read is in its place. *)
LEMMA MessageIs ==
  ASSUME PackInv, ArchiveInv, ReaderInv, pos < Len(archive)
  PROVE  Place(pos + 1) /\ pos + 1 \in 1..Len(archive) /\ Len(archive) \in Nat /\ Len(new) \in Nat
BY CountsAre DEF ArchiveInv, ReaderInv

(* A step that reads a message. *)
LEMMA ReadKeeps ==
  ASSUME PackInv, ArchiveInv, ReaderInv, HostInv, UNCHANGED <<packVars, importVars>>,
         ReadNarHeader \/ ReadNAR \/ ReadChunkHeader \/ ReadChunk \/ ReadTrailer
  PROVE  ReaderInv' /\ HostInv'
<1>1. /\ UNCHANGED <<archive, new, phase, un, out, flushed, imported, import>>
      /\ pos < Len(archive) /\ pos' = pos + 1
      /\ uphase \in {"narHeader", "nars", "chunks"} /\ uphase' \in {"nars", "chunks", "eof"}
  BY DEF packVars, inputVars, importVars, writeVars, Read,
         ReadNarHeader, ReadNAR, ReadChunkHeader, ReadChunk, ReadTrailer
<1>2. /\ Place(pos + 1) /\ pos + 1 \in 1..Len(archive)
      /\ Len(archive) \in Nat /\ Len(new) \in Nat /\ ChunkCount' = ChunkCount
  BY <1>1, MessageIs DEF ChunkCount
<1>3. Len(nars) \in Nat /\ IsSeq(nars) /\ Len(out) \in Nat /\ IsSeq(out) /\ IsSeq(imported)
  BY SeqIs DEF HostInv, NarsInv, OutInv, ImportInv
<1>4. ImportInv'
  BY <1>1 DEF HostInv, OutInv, ImportInv, IsSeq
<1>5. ASSUME UNCHANGED nars
      PROVE  OutInv'
  BY <1>1, <1>3, <1>5 DEF HostInv, OutInv, IsSeq
<1>6. CASE ReadNarHeader
  <2>1. /\ uphase = "narHeader" /\ uphase' = "nars" /\ want' = archive[pos + 1].length
        /\ UNCHANGED nars
    BY <1>6 DEF ReadNarHeader, Message
  <2>2. ReaderInv' /\ NarsInv'
    BY <1>1, <1>2, <1>3, <2>1 DEF ReaderInv, HostInv, NarsInv, Place, IsSeq
  <2> QED BY <1>4, <1>5, <2>1, <2>2 DEF HostInv
<1>7. CASE ReadNAR
  <2>1. PICK m : /\ uphase = "nars" /\ uphase' = "nars" /\ want > 0 /\ want' = want - 1
                 /\ nars' = Append(nars, m) /\ m = archive[pos + 1]
    BY <1>7 DEF ReadNAR, Message
  <2>2. /\ IsSeq(nars') /\ Len(nars') = Len(nars) + 1 /\ nars'[Len(nars) + 1] = m
        /\ \A j \in 1..Len(nars) : nars'[j] = nars[j]
    BY <1>3, <2>1, AppendIs, SeqIs DEF Extends
  <2>3. Len(nars) = pos - 1 /\ pos + want = Len(new) + 1 /\ pos >= 1 /\ want \in Nat /\ pos \in Nat
    BY <1>3, <2>1 DEF HostInv, NarsInv, ReaderInv
  <2>4. m.path = new[Len(nars) + 1]
    <3>1. pos + 1 \in 2..Len(new) + 1 /\ pos + 1 - 1 = Len(nars) + 1
      <4>1. want \in Nat /\ want > 0 /\ Len(new) \in Nat /\ pos + want = Len(new) + 1
        BY <1>2, <2>1, <2>3
      <4>2. pos \in Nat /\ pos >= 1 /\ Len(nars) = pos - 1
        BY <2>3
      <4> QED BY <4>1, <4>2
    <3>2. \A i \in 2..Len(new) + 1 : Place(i) => archive[i].path = new[i - 1]
      BY DEF Place
    <3>3. PICK i : i = pos + 1
      OBVIOUS
    <3>4. i \in 2..Len(new) + 1 /\ i - 1 = Len(nars) + 1
      <4>1. pos + 1 \in 2..Len(new) + 1
        BY <3>1
      <4>2. i - 1 = pos /\ Len(nars) + 1 = pos
        BY <2>3, <3>3
      <4> QED BY <3>3, <4>1, <4>2
    <3>5. Place(i)
      <4>1. Place(pos + 1)
        BY <1>2
      <4> QED BY <4>1, <3>3
    <3>6. archive[i].path = new[i - 1]
      BY <3>2, <3>4, <3>5
    <3> QED BY <2>1, <3>3, <3>4, <3>6
  <2>5. ReaderInv'
    BY <1>1, <1>2, <2>1, <2>3 DEF ReaderInv
  <2>6. NarsInv'
    <3>1. \A j \in 1..Len(nars') : nars'[j].path = new[j]
      <4> SUFFICES ASSUME NEW j \in 1..Len(nars')
                   PROVE  nars'[j].path = new[j]
        OBVIOUS
      <4>1. CASE j = Len(nars) + 1
        BY <2>2, <2>4, <4>1
      <4>2. CASE j \in 1..Len(nars)
        BY <2>2, <4>2 DEF HostInv, NarsInv
      <4> QED BY <1>3, <2>2, <4>1, <4>2
    <3>2. Len(nars') <= Len(new) /\ Len(nars') = pos' - 1 /\ uphase' = "nars"
      BY <1>1, <1>2, <1>3, <2>1, <2>2, <2>3
    <3> QED BY <1>1, <2>2, <3>1, <3>2 DEF NarsInv
  <2>7. OutInv'
    BY <1>1, <1>3, <2>1, <2>2 DEF HostInv, OutInv, IsSeq
  <2> QED BY <1>4, <2>5, <2>6, <2>7 DEF HostInv
<1>8. CASE ReadChunkHeader
  <2>1. /\ uphase = "nars" /\ uphase' = "chunks" /\ want = 0
        /\ want' = archive[pos + 1].length /\ UNCHANGED nars
    BY <1>8 DEF ReadChunkHeader, Message
  <2>2. pos + 1 = Len(new) + 2
    BY <1>2, <2>1 DEF ReaderInv
  <2>3. want' = ChunkCount /\ want' \in Nat
    BY <1>2, <2>1, <2>2 DEF Place, ChunkCount
  <2>4. ReaderInv'
    BY <1>1, <1>2, <2>1, <2>2, <2>3 DEF ReaderInv
  <2>5. NarsInv'
    BY <1>1, <1>2, <1>3, <2>1, <2>2 DEF ReaderInv, HostInv, NarsInv, IsSeq
  <2> QED BY <1>4, <1>5, <2>1, <2>4, <2>5 DEF HostInv
<1>9. CASE ReadChunk
  <2>1. /\ uphase = "chunks" /\ uphase' = "chunks" /\ want > 0 /\ want' = want - 1
        /\ UNCHANGED nars
    BY <1>9 DEF ReadChunk
  <2>2. ReaderInv'
    BY <1>1, <1>2, <2>1 DEF ReaderInv
  <2>3. NarsInv'
    BY <1>1, <1>3, <2>1 DEF HostInv, NarsInv, IsSeq
  <2> QED BY <1>4, <1>5, <2>1, <2>2, <2>3 DEF HostInv
<1>10. CASE ReadTrailer
  <2>1. /\ uphase = "chunks" /\ uphase' = "eof" /\ want = 0 /\ want' = want /\ UNCHANGED nars
    BY <1>10 DEF ReadTrailer
  <2>2. ReaderInv'
    <3>1. pos >= Len(new) + 2 /\ pos + want = Len(new) + 2 + ChunkCount /\ pos \in Nat
      BY <1>2, <2>1 DEF ReaderInv
    <3>2. ChunkCount \in Nat
      BY <1>2, <3>1 DEF ArchiveInv, Place, ChunkCount
    <3>3. pos' >= Len(new) + 3 /\ pos' = Len(new) + 3 + ChunkCount /\ pos' \in 0..Len(archive)
      BY <1>1, <1>2, <2>1, <3>1, <3>2
    <3> QED BY <1>1, <1>2, <2>1, <3>3 DEF ReaderInv
  <2>3. NarsInv'
    BY <1>1, <1>3, <2>1 DEF HostInv, NarsInv, IsSeq
  <2> QED BY <1>4, <1>5, <2>1, <2>2, <2>3 DEF HostInv
<1> QED BY <1>6, <1>7, <1>8, <1>9, <1>10

(* The end of the archive is met early only when its writer has failed. *)
LEMMA EndKeeps ==
  ASSUME PackInv, ArchiveInv, ReaderInv, HostInv, UNCHANGED <<packVars, importVars>>,
         ReadEOF(PackEnded) \/ ReadTruncated(PackEnded)
  PROVE  ReaderInv' /\ HostInv'
<1>1. /\ UNCHANGED <<archive, new, phase, pos, want, nars, un, out, flushed, imported, import>>
      /\ PackEnded /\ pos = Len(archive)
      /\ \/ uphase = "eof" /\ uphase' = "nextNar"
         \/ uphase \in {"narHeader", "nars", "chunks"} /\ uphase' = "truncated"
  BY DEF packVars, inputVars, importVars, readVars, writeVars, ReadEOF, ReadTruncated, AtEOF
<1>2. Len(archive) \in Nat /\ Len(new) \in Nat /\ WrittenInv
  BY CountsAre DEF ArchiveInv
<1>3. uphase \in {"narHeader", "nars", "chunks"} => phase = "failed"
  <2> SUFFICES ASSUME uphase \in {"narHeader", "nars", "chunks"}, phase = "done"
               PROVE  FALSE
    BY <1>1 DEF PackEnded
  <2>1. Len(archive) > Len(new) + 2 /\ Len(archive) = Len(new) + 3 + ChunkCount
    BY <1>2 DEF WrittenInv
  <2>2. ChunkCount \in Nat
    BY <1>2, <2>1 DEF ArchiveInv, Place, ChunkCount
  <2>3. pos \in Nat /\ want \in Nat /\ pos > Len(new) + 2 /\ pos = Len(new) + 3 + ChunkCount
    BY <1>1, <1>2, <2>1 DEF ReaderInv
  <2> QED BY <1>2, <2>2, <2>3 DEF ReaderInv
<1>4. ReaderInv'
  BY <1>1, <1>3 DEF ReaderInv
<1>5. HostInv'
  BY <1>1 DEF HostInv, NarsInv, OutInv, ImportInv, IsSeq
<1> QED BY <1>4, <1>5

(* Writing reads nothing more of the archive, and nothing is flushed that  *)
(* is not written in full.                                                 *)
LEMMA WriteKeeps ==
  ASSUME PackInv, ArchiveInv, ReaderInv, HostInv, UNCHANGED <<packVars, importVars>>,
         \/ BeginWrite \/ WriteCA \/ WriteFD \/ WriteDelta \/ EndRegular
         \/ WriteDirectory \/ CopyDirectory \/ WriteSymlink \/ EndWrite
         \/ FlushFull \/ EndStream \/ UnpackFail
  PROVE  ReaderInv' /\ HostInv'
<1>1. /\ UNCHANGED <<archive, new, phase, imported, import>>
      /\ Len(nars) \in Nat /\ Len(out) \in Nat /\ IsSeq(nars) /\ IsSeq(out) /\ IsSeq(imported)
      /\ Len(imported) \in Nat
  BY SeqIs DEF packVars, inputVars, importVars, HostInv, NarsInv, OutInv, ImportInv
<1>2. ASSUME UNCHANGED readVars, uphase' \in {"nextNar", "write", "complete", "error", "failed"}
      PROVE  ReaderInv'
  BY <1>1, <1>2 DEF ReaderInv, readVars
<1>3. ASSUME UNCHANGED readVars,
             \/ uphase' \in {"error", "failed"}
             \/ /\ uphase \in {"nextNar", "write"}
                /\ uphase' \in {"nextNar", "write", "complete"}
      PROVE  NarsInv'
  BY <1>1, <1>3 DEF HostInv, NarsInv, readVars, IsSeq
<1>4. flushed \in Nat /\ (uphase # "complete" => flushed <= Len(out))
  BY <1>1 DEF HostInv, OutInv
<1>5. ASSUME UNCHANGED <<readVars, un, out>>, uphase \notin {"complete"},
             uphase' \in {"error", "failed"}, flushed' \in flushed..Len(out)
      PROVE  ReaderInv' /\ HostInv'
  <2>1. OutInv'
    BY <1>1, <1>4, <1>5 DEF HostInv, OutInv, readVars, IsSeq
  <2>2. ImportInv'
    <3>1. import # "complete"
      BY <1>5 DEF HostInv, ImportInv
    <3> QED BY <1>1, <1>4, <1>5, <3>1 DEF HostInv, ImportInv, IsSeq
  <2> QED BY <1>2, <1>3, <1>5, <2>1, <2>2 DEF HostInv
<1>6. ASSUME UNCHANGED <<readVars, un, out, flushed>>, uphase \in {"nextNar", "write"},
             \/ uphase' = "write" /\ un <= Len(nars)
             \/ uphase' = uphase
      PROVE  ReaderInv' /\ HostInv'
  <2>1. OutInv'
    BY <1>1, <1>4, <1>6 DEF HostInv, OutInv, readVars, IsSeq
  <2>2. ImportInv'
    BY <1>1, <1>6 DEF HostInv, ImportInv, IsSeq
  <2> QED BY <1>2, <1>3, <1>6, <2>1, <2>2 DEF HostInv
<1>7. ASSUME Fail, uphase = "write"
      PROVE  ReaderInv' /\ HostInv'
  BY <1>1, <1>4, <1>5, <1>7 DEF Fail
<1>8. ASSUME NEW blocks, WriteBlocks(blocks), uphase = "write"
      PROVE  ReaderInv' /\ HostInv'
  BY <1>6, <1>7, <1>8 DEF WriteBlocks
<1>9. ASSUME NEW more, WriteNodes(more), uphase = "write"
      PROVE  ReaderInv' /\ HostInv'
  BY <1>6, <1>9 DEF WriteNodes
<1>10. CASE BeginWrite
  BY <1>6, <1>10 DEF BeginWrite
<1>11. CASE WriteCA
  BY <1>7, <1>8, <1>11 DEF WriteCA, AtChunkOf, AtFileOf
<1>12. CASE WriteFD
  BY <1>7, <1>8, <1>12 DEF WriteFD, AtChunkOf, AtFileOf
<1>13. CASE WriteDelta
  BY <1>7, <1>8, <1>13 DEF WriteDelta, PatchWith, AtChunkOf, AtFileOf
<1>14. CASE EndRegular
  BY <1>7, <1>9, <1>14 DEF EndRegular, AtFileOf
<1>15. CASE WriteDirectory
  BY <1>9, <1>15 DEF WriteDirectory, AtFileOf
<1>16. CASE CopyDirectory
  BY <1>7, <1>9, <1>16 DEF CopyDirectory, AtFileOf
<1>17. CASE WriteSymlink
  BY <1>9, <1>17 DEF WriteSymlink, AtFileOf
<1>18. CASE EndWrite
  <2>1. PICK n : /\ out' = Append(out, n) /\ n.path = nars[un].path
                 /\ uphase = "write" /\ uphase' = "nextNar" /\ un' = un + 1
                 /\ UNCHANGED <<readVars, flushed>>
    BY <1>18 DEF EndWrite
  <2>2. /\ IsSeq(out') /\ Len(out') = Len(out) + 1 /\ out'[Len(out) + 1] = n
        /\ \A j \in 1..Len(out) : out'[j] = out[j]
    BY <1>1, <2>1, AppendIs, SeqIs DEF Extends
  <2>3. n.path = new[Len(out) + 1] /\ un = Len(out) + 1 /\ un <= Len(nars)
    BY <1>1, <2>1 DEF HostInv, NarsInv, OutInv
  <2>4. \A j \in 1..Len(out') : out'[j].path = new[j]
    <3> SUFFICES ASSUME NEW j \in 1..Len(out')
                 PROVE  out'[j].path = new[j]
      OBVIOUS
    <3>1. CASE j = Len(out) + 1
      BY <2>2, <2>3, <3>1
    <3>2. CASE j \in 1..Len(out)
      BY <2>2, <3>2 DEF HostInv, OutInv
    <3> QED BY <1>1, <2>2, <3>1, <3>2
  <2>5. OutInv'
    <3>1. flushed' \in 0..Len(out') + 1 /\ flushed' # Len(out') + 1
      BY <1>1, <1>4, <2>1, <2>2
    <3>2. un' = Len(out') + 1 /\ un' <= Len(nars') + 1
      BY <1>1, <2>1, <2>2, <2>3 DEF readVars
    <3> QED BY <1>1, <2>1, <2>2, <2>4, <3>1, <3>2 DEF OutInv
  <2>6. ImportInv'
    <3>1. import # "complete"
      BY <2>1 DEF HostInv, ImportInv
    <3> QED BY <1>1, <2>1, <2>2, <3>1 DEF HostInv, ImportInv, IsSeq
  <2> QED BY <1>2, <1>3, <2>1, <2>5, <2>6 DEF HostInv
<1>19. CASE FlushFull
  <2>1. /\ UNCHANGED <<uphase, readVars, un, out>> /\ uphase \in {"nextNar", "write"}
        /\ flushed' \in flushed + 1..Len(out)
    BY <1>19 DEF FlushFull
  <2>2. OutInv'
    BY <1>1, <1>4, <2>1 DEF HostInv, OutInv, readVars, IsSeq
  <2>3. ImportInv'
    <3>1. import # "complete"
      BY <2>1 DEF HostInv, ImportInv
    <3> QED BY <1>1, <1>4, <2>1, <3>1 DEF HostInv, ImportInv, IsSeq
  <2> QED BY <1>2, <1>3, <2>1, <2>2, <2>3 DEF HostInv
<1>20. CASE EndStream
  <2>1. /\ UNCHANGED <<readVars, un, out>> /\ uphase = "nextNar" /\ uphase' = "complete"
        /\ un > Len(nars) /\ flushed' = Len(out) + 1
    BY <1>20 DEF EndStream
  <2>2. OutInv'
    BY <1>1, <1>4, <2>1 DEF HostInv, OutInv, readVars, IsSeq
  <2>3. ImportInv'
    <3>1. import # "complete"
      BY <2>1 DEF HostInv, ImportInv
    <3> QED BY <1>1, <1>4, <2>1, <3>1 DEF HostInv, ImportInv, IsSeq
  <2> QED BY <1>2, <1>3, <2>1, <2>2, <2>3 DEF HostInv
<1>21. CASE UnpackFail
  BY <1>5, <1>21 DEF UnpackFail
<1> QED
  BY <1>10, <1>11, <1>12, <1>13, <1>14, <1>15, <1>16, <1>17, <1>18, <1>19, <1>20, <1>21

(* nix-store takes what is in the pipe, and the end only after all of it. *)
LEMMA ImportKeeps ==
  ASSUME ReaderInv, HostInv, ImportStep, UNCHANGED <<packVars, unpackVars>>
  PROVE  ReaderInv' /\ HostInv'
<1>1. /\ UNCHANGED <<archive, new, phase, uphase, pos, want, nars, un, out, flushed>>
      /\ Len(imported) \in Nat /\ IsSeq(imported) /\ Len(out) \in Nat /\ IsSeq(out)
      /\ flushed \in Nat
  BY SeqIs DEF packVars, inputVars, unpackVars, readVars, writeVars, HostInv, OutInv, ImportInv
<1>2. ReaderInv' /\ NarsInv' /\ OutInv'
  <2>1. ChunkCount' = ChunkCount
    BY <1>1 DEF ChunkCount
  <2> QED BY <1>1, <2>1 DEF ReaderInv, HostInv, NarsInv, OutInv, IsSeq
<1>3. CASE ImportPath
  <2>1. PICK n : /\ imported' = Append(imported, n) /\ n = out[Len(imported) + 1]
                 /\ UNCHANGED import /\ import = "running"
                 /\ Len(imported) < Len(out) /\ Len(imported) < flushed
    BY <1>3 DEF ImportPath
  <2>2. /\ IsSeq(imported') /\ Len(imported') = Len(imported) + 1
        /\ imported'[Len(imported) + 1] = n
        /\ \A j \in 1..Len(imported) : imported'[j] = imported[j]
    BY <1>1, <2>1, AppendIs, SeqIs DEF Extends
  <2>3. n.path = new[Len(imported) + 1]
    BY <1>1, <2>1 DEF HostInv, OutInv
  <2>4. \A j \in 1..Len(imported') : imported'[j].path = new[j]
    <3> SUFFICES ASSUME NEW j \in 1..Len(imported')
                 PROVE  imported'[j].path = new[j]
      OBVIOUS
    <3>1. CASE j = Len(imported) + 1
      BY <2>2, <2>3, <3>1
    <3>2. CASE j \in 1..Len(imported)
      BY <2>2, <3>2 DEF HostInv, ImportInv
    <3> QED BY <1>1, <2>2, <3>1, <3>2
  <2>5. ImportInv'
    BY <1>1, <2>1, <2>2, <2>4 DEF ImportInv
  <2> QED BY <1>2, <2>5 DEF HostInv
<1>4. CASE ImportEnd
  <2>1. UNCHANGED imported /\ Len(imported) = Len(out) /\ Len(imported) < flushed
    BY <1>4 DEF ImportEnd
  <2>2. flushed = Len(out) + 1
    BY <1>1, <2>1 DEF HostInv, OutInv
  <2>3. uphase = "complete"
    BY <2>2 DEF HostInv, OutInv
  <2> QED BY <1>1, <1>2, <2>1, <2>3 DEF HostInv, ImportInv, IsSeq
<1>5. CASE ImportTruncated
  BY <1>1, <1>2, <1>5 DEF ImportTruncated, HostInv, ImportInv, IsSeq
<1> QED BY <1>3, <1>4, <1>5 DEF ImportStep

-----------------------------------------------------------------------------
(* The deployment. *)

(* Nothing has been written or read at the start. *)
LEMMA DeployInitInv == DeployInit => PackInit /\ StreamInv
<1> SUFFICES ASSUME DeployInit PROVE PackInit /\ StreamInv
  OBVIOUS
<1>1. PackInit /\ UnpackInit /\ imported = <<>> /\ import = "running"
  BY DEF DeployInit, PackInit
<1>2. PackInv
  BY <1>1, PackInitInv
<1>3. archive = <<>> /\ phase = "start" /\ np = 1
  BY <1>1 DEF PackInit, PackInitIn
<1>4. IsSeq(<<>>) /\ Len(<<>>) = 0 /\ 1..0 = {} /\ Len(new) \in Nat
  BY <1>2, EmptyIsSeq, CountsAre
<1>5. ArchiveInv
  BY <1>3, <1>4 DEF ArchiveInv, WrittenInv
<1>6. ReaderInv
  BY <1>1, <1>3, <1>4 DEF ReaderInv, UnpackInit
<1>7. HostInv
  BY <1>1, <1>4 DEF HostInv, NarsInv, OutInv, ImportInv, UnpackInit
<1> QED BY <1>1, <1>2, <1>5, <1>6, <1>7 DEF StreamInv

(* Every step is one of dnar-pack, or leaves what it has alone. *)
LEMMA DeployNextPacks == [DeployNext]_deployVars => [PackNext]_packVars
BY DEF DeployNext, DoPack, DoUnpack, DoImport, Ended, deployVars

(* Every step keeps the invariant. *)
LEMMA DeployNextInv == StreamInv /\ [DeployNext]_deployVars => StreamInv'
<1> SUFFICES ASSUME StreamInv, [DeployNext]_deployVars PROVE StreamInv'
  OBVIOUS
<1>1. PackInv /\ ArchiveInv /\ ReaderInv /\ HostInv
  BY DEF StreamInv
<1>2. PackInv'
  BY <1>1, DeployNextPacks, PackNextInv
<1>3. ASSUME UNCHANGED packVars
      PROVE  ArchiveInv'
  BY <1>1, <1>3 DEF packVars, inputVars, depVars, ArchiveInv, WrittenInv, Place, ChunkCount
<1>4. CASE DoPack
  BY <1>1, <1>2, <1>4, WriterKeeps, ReaderWaits DEF DoPack, StreamInv
<1>5. CASE DoUnpack
  <2>1. UNCHANGED <<packVars, importVars>> /\ (UnpackStep(PackEnded) \/ UnpackFail)
    BY <1>5 DEF DoUnpack
  <2>2. ArchiveInv'
    BY <1>3, <2>1
  <2>3. ReaderInv' /\ HostInv'
    BY <1>1, <2>1, ReadKeeps, EndKeeps, WriteKeeps DEF UnpackStep
  <2> QED BY <1>2, <2>2, <2>3 DEF StreamInv
<1>6. CASE DoImport
  BY <1>1, <1>2, <1>3, <1>6, ImportKeeps DEF DoImport, StreamInv
<1>7. CASE Ended \/ UNCHANGED deployVars
  <2>1. UNCHANGED <<packVars, unpackVars, importVars>>
    BY <1>7 DEF Ended, deployVars
  <2>2. ReaderInv' /\ HostInv'
    BY <1>1, <2>1 DEF packVars, inputVars, unpackVars, readVars, writeVars, importVars,
                      ReaderInv, ChunkCount, HostInv, NarsInv, OutInv, ImportInv, IsSeq
  <2> QED BY <1>2, <1>3, <2>1, <2>2 DEF StreamInv
<1> QED BY <1>4, <1>5, <1>6, <1>7 DEF DeployNext

(* The messages are in their places, the reader knows what is left of the  *)
(* stream it is in, and what is written, flushed and taken are the first   *)
(* of the NARs to send, in order (dnar.go:35-90, read.go:19-146,           *)
(* nix-store-export.go:49-121).                                            *)
THEOREM StreamInvariant == DeploySpec => []StreamInv
BY DeployInitInv, DeployNextInv, PTL DEF DeploySpec

(* A deployment is a run of dnar-pack, whatever the programs after it do:  *)
(* all that is proved of dnar-pack alone holds of it.                      *)
THEOREM DeployPacks == DeploySpec => PackSpec
BY DeployInitInv, DeployNextPacks, PTL DEF DeploySpec, PackSpec

(* dnar-unpack takes every message for what dnar-pack wrote it as, for     *)
(* every store and however the two are scheduled, and it meets the end of  *)
(* the pipe early only when dnar-pack has failed (readNARs, readChunks).   *)
THEOREM DeployStreamsFit == DeploySpec => []StreamsFit
<1>1. StreamInv => StreamsFit
  <2> SUFFICES ASSUME StreamInv PROVE StreamsFit
    OBVIOUS
  <2>1. PackInv /\ ArchiveInv /\ ReaderInv
    BY DEF StreamInv
  <2>2. CASE pos < Len(archive)
    <3>1. /\ Place(pos + 1) /\ pos + 1 \in 1..Len(archive)
          /\ Len(archive) \in Nat /\ Len(new) \in Nat
      BY <2>1, <2>2, MessageIs
    <3>2. pos \in Nat /\ want \in Nat
      BY <2>1, <3>1 DEF ReaderInv
    <3>3. uphase = "narHeader" => Message.msg = "header"
      BY <2>1, <3>1 DEF ReaderInv, Place, Message
    <3>4. uphase = "nars" => Message.msg = (IF want > 0 THEN "nar" ELSE "header")
      BY <2>1, <3>1, <3>2 DEF ReaderInv, Place, Message
    <3>5. uphase \in {"chunks", "eof"} => ChunkCount \in Nat
      BY <2>1, <3>1 DEF ArchiveInv, ReaderInv, Place, ChunkCount
    <3>6. uphase = "chunks" => Message.msg = (IF want > 0 THEN "chunk" ELSE "trailer")
      BY <2>1, <3>1, <3>2, <3>5 DEF ReaderInv, Place, Message
    <3>7. uphase # "eof"
      BY <2>1, <3>1, <3>2, <3>5 DEF ReaderInv, Place
    <3> QED BY <2>1, <3>3, <3>4, <3>6, <3>7 DEF StreamsFit, ReaderInv
  <2> QED BY <2>1, <2>2 DEF StreamsFit, ReaderInv
<1> QED BY <1>1, StreamInvariant, PTL

(* What nix-store takes to be complete is all that was to be sent, in      *)
(* order, whatever fails and whenever a buffer is flushed.                 *)
THEOREM DeployWholeOrStopped == DeploySpec => []WholeOrStopped
<1>1. StreamInv => WholeOrStopped
  <2> SUFFICES ASSUME StreamInv PROVE WholeOrStopped
    OBVIOUS
  <2>1. HostInv /\ Len(new) \in Nat
    BY CountsAre DEF StreamInv
  <2>2. Len(nars) \in Nat /\ Len(out) \in Nat /\ Len(imported) \in Nat
        /\ DOMAIN imported = 1..Len(imported)
    BY <2>1, SeqIs DEF HostInv, NarsInv, OutInv, ImportInv
  <2>3. Len(imported) <= Len(new) /\ (import = "complete" => Len(imported) = Len(new))
    BY <2>1, <2>2 DEF HostInv, NarsInv, OutInv, ImportInv
  <2> QED BY <2>1, <2>2, <2>3 DEF WholeOrStopped, HostInv, ImportInv
<1> QED BY <1>1, StreamInvariant, PTL

(* The three programs keep the types of their state.                       *)
THEOREM DeployTypeCorrect == DeploySpec => []TypeOK
<1>1. StreamInv => TypeOK
  <2> SUFFICES ASSUME StreamInv PROVE TypeOK
    OBVIOUS
  <2>1. PackTypeOK
    BY DEF StreamInv, PackInv, ListsInv, PhaseInv, ChunksInv, PackTypeOK
  <2>2. Len(nars) \in Nat /\ Len(out) \in Nat /\ Len(imported) \in Nat
    BY SeqIs DEF StreamInv, HostInv, NarsInv, OutInv, ImportInv
  <2> QED BY <2>1, <2>2 DEF TypeOK, StreamInv, ReaderInv, HostInv, OutInv, ImportInv
<1> QED BY <1>1, StreamInvariant, PTL

=============================================================================
