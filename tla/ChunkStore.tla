------------------------------ MODULE ChunkStore ------------------------------
(***************************************************************************)
(* The temporary chunk store of internal/chunk_store: the payloads of an   *)
(* archive, written one after the other into one file that is mapped into  *)
(* memory when the last one is there.  A chunk is known by its number.     *)
(***************************************************************************)
EXTENDS Integers, Sequences

CONSTANT Byte     \* what a payload is made of

VARIABLES
  file,           \* the bytes of the temporary file
  size,           \* where the next chunk goes
  entries,        \* the size and the offset of each chunk
  buf,            \* the file as it is mapped, empty until it is
  given           \* history: the payloads handed to WriteChunk, in order

chunkStoreVars == <<file, size, entries, buf, given>>

OpenTempChunkStore ==
  /\ file = <<>> /\ size = 0 /\ entries = <<>> /\ buf = <<>>
  /\ given = <<>>

(* Faulty: the offset is not kept. *)
WriteChunkAtStart(data) ==
  /\ entries' = Append(entries, [size |-> Len(data), offset |-> 0])
  /\ size' = size + Len(data)
  /\ file' = file \o data
  /\ given' = Append(given, data)
  /\ UNCHANGED buf

WriteChunk(data) ==
  /\ entries' = Append(entries, [size |-> Len(data), offset |-> size])
  /\ size' = size + Len(data)
  /\ file' = file \o data
  /\ given' = Append(given, data)
  /\ UNCHANGED buf

(* An empty file cannot be mapped and need not be. *)
Map ==
  /\ buf' = IF size = 0 THEN <<>> ELSE SubSeq(file, 1, size)
  /\ UNCHANGED <<file, size, entries, given>>

ReadChunk(i) == SubSeq(buf, entries[i].offset + 1, entries[i].offset + entries[i].size)

(* The next run of the program makes a store of its own. *)
Reopen ==
  /\ file' = <<>> /\ size' = 0 /\ entries' = <<>> /\ buf' = <<>>
  /\ given' = <<>>

-----------------------------------------------------------------------------
ChunkStoreNext ==
  \/ \E data \in Seq(Byte) : WriteChunk(data) /\ buf = <<>>
  \/ Map
  \/ Reopen

ChunkStoreSpec == OpenTempChunkStore /\ [][ChunkStoreNext]_chunkStoreVars

-----------------------------------------------------------------------------
(* Properties *)

(* Once the store is mapped, every number up to that of the last payload   *)
(* stands for the payload that was written under it, an empty one          *)
(* included: no chunk reads into another one (WriteChunk, ReadChunk).      *)
ChunksKept ==
  buf = file => /\ DOMAIN entries = DOMAIN given
                /\ \A i \in DOMAIN given : ReadChunk(i) = given[i]

=============================================================================
