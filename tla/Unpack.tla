------------------------------- MODULE Unpack -------------------------------
(***************************************************************************)
(* dnar-unpack --format nix-store-export: the archive is read to its end,  *)
(* its payloads into the temporary chunk store, and only then is every     *)
(* NAR written, from the payloads and from what the host already has.      *)
(*                                                                         *)
(* The archive comes through a pipe: it is read as it is written.  A step  *)
(* is one message read or one file, directory or chunk written.            *)
(***************************************************************************)
EXTENDS Dnar

VARIABLES
  target,       \* the store of the host: a path it does not have is <<>>
  uphase,       \* where dnar-unpack is
  pos,          \* the messages read
  want,         \* how many messages of this stream are still to be read
  nars,         \* the NAR messages
  store,        \* the payloads, in the temporary chunk store
  inputs,       \* the trailer's files
  un,           \* the NAR being written
  uf,           \* the file of it being written
  uc,           \* the chunk of that file being written
  content,      \* what has been written of that file
  nodes,        \* what has been written of the NAR
  out,          \* the NARs written in full, each with its export trailer
  flushed       \* how many of them, and the end after them, are in the pipe

readVars == <<pos, want, nars, store, inputs>>
writeVars == <<un, uf, uc, content, nodes, out, flushed>>
unpackVars == <<target, uphase, readVars, writeVars>>

(* Blocks that are in no file: of a delta patched into the wrong base, or  *)
(* read as if it were a chunk.                                             *)
Garbage(size) == [i \in 1..size |-> Nil]

UnpackInit ==
  /\ uphase = "narHeader"
  /\ pos = 0 /\ want = 0
  /\ nars = <<>> /\ store = <<>> /\ inputs = <<>>
  /\ un = 1 /\ uf = 1 /\ uc = 1
  /\ content = <<>> /\ nodes = <<>> /\ out = <<>> /\ flushed = 0

-----------------------------------------------------------------------------
(* Reading the archive. *)

(* The next message is there and has been read. *)
Read(msg) ==
  /\ pos < Len(archive) /\ archive[pos + 1].msg = msg
  /\ pos' = pos + 1
  /\ UNCHANGED <<target, writeVars>>

Message == archive[pos + 1]

ReadNarHeader ==
  /\ uphase = "narHeader" /\ Read("header")
  /\ want' = Message.length
  /\ uphase' = "nars"
  /\ UNCHANGED <<nars, store, inputs>>

ReadNAR ==
  /\ uphase = "nars" /\ want > 0 /\ Read("nar")
  /\ nars' = Append(nars, Message)
  /\ want' = want - 1
  /\ UNCHANGED <<uphase, store, inputs>>

ReadChunkHeader ==
  /\ uphase = "nars" /\ want = 0 /\ Read("header")
  /\ want' = Message.length
  /\ uphase' = "chunks"
  /\ UNCHANGED <<nars, store, inputs>>

ReadChunk ==
  /\ uphase = "chunks" /\ want > 0 /\ Read("chunk")
  /\ store' = Append(store, Message.data)
  /\ want' = want - 1
  /\ UNCHANGED <<uphase, nars, inputs>>

(* A file of the trailer becomes its store path and its path in there. *)
ReadTrailer ==
  /\ uphase = "chunks" /\ want = 0 /\ Read("trailer")
  /\ inputs' = [i \in DOMAIN Message.files |->
                  <<Message.paths[Message.files[i].storePath], Message.files[i].path>>]
  /\ uphase' = "eof"
  /\ UNCHANGED <<want, nars, store>>

(* The writer of the pipe has ended: nothing follows what has been written. *)
AtEOF(closed) == closed /\ pos = Len(archive)

ReadEOF(closed) ==
  /\ uphase = "eof" /\ AtEOF(closed)
  /\ uphase' = "nextNar"
  /\ UNCHANGED <<target, readVars, writeVars>>

(* Faulty: the end is not looked for before the first message. *)
ReadTruncatedLater(closed) ==
  /\ uphase \in {"nars", "chunks"} /\ AtEOF(closed)
  /\ uphase' = "truncated"
  /\ UNCHANGED <<target, readVars, writeVars>>

(* The archive ends where a message should follow. *)
ReadTruncated(closed) ==
  /\ uphase \in {"narHeader", "nars", "chunks"} /\ AtEOF(closed)
  /\ uphase' = "truncated"
  /\ UNCHANGED <<target, readVars, writeVars>>

-----------------------------------------------------------------------------
(* Writing the NARs. *)

BeginWrite ==
  /\ uphase = "nextNar" /\ un <= Len(nars)
  /\ uphase' = "write"
  /\ uf' = 1 /\ uc' = 1 /\ content' = <<>> /\ nodes' = <<>>
  /\ UNCHANGED <<target, readVars, un, out, flushed>>

ufile == nars[un].files[uf]
uchunk == ufile.chunks[uc]

AtFileOf(type) ==
  /\ uphase = "write" /\ uf <= Len(nars[un].files)
  /\ ufile.type = type

AtChunkOf(kind) ==
  /\ AtFileOf("regular") /\ uc <= Len(ufile.chunks)
  /\ uchunk.chunk = kind

(* The entries the host has at a file of the trailer: one or none. *)
EntriesAt(input) ==
  {e \in ToSet(target[input[1]]) : e.path = input[2]}

(* A panic: what is buffered of the export is written out all the same. *)
Fail ==
  /\ uphase' = "error" /\ flushed' = Len(out)
  /\ UNCHANGED <<target, readVars, un, uf, uc, content, nodes, out>>

(* The NAR writer takes no more of a file than its header announced. *)
WriteBlocks(blocks) ==
  IF Len(content) + Len(blocks) > ufile.size THEN Fail
  ELSE /\ content' = content \o blocks
       /\ uc' = uc + 1
       /\ UNCHANGED <<target, uphase, readVars, un, uf, nodes, out, flushed>>

(* The bytes of a delta are those of no file. *)
BytesOf(payload) ==
  IF payload.kind = "verbatim" THEN payload.blocks ELSE Garbage(1)

WriteCA ==
  /\ AtChunkOf("ca")
  /\ IF uchunk.index \in DOMAIN store THEN WriteBlocks(BytesOf(store[uchunk.index]))
                                      ELSE Fail

(* What there is to read of an entry from offset: nothing of a directory,  *)
(* of which the first byte already fails.                                  *)
Readable(e, offset, size) ==
  \/ size = 0
  \/ e.type = "regular" /\ offset + size <= Len(e.content)

(* What the host has at the range of an input: one sequence of blocks, or  *)
(* none when it cannot be read in full.                                    *)
InputRange(c) ==
  {ReadAt(e.content, c.offset, c.size) :
     e \in {d \in EntriesAt(inputs[c.index]) : Readable(d, c.offset, c.size)}}

WriteFD ==
  /\ AtChunkOf("fd")
  /\ IF InputRange(uchunk) = {} THEN Fail
     ELSE \E blocks \in InputRange(uchunk) : WriteBlocks(blocks)

(* A delta makes its result out of the base it was computed from; out of   *)
(* another one it makes something of the same size, or it fails.           *)
PatchWith(base, payload) ==
  IF payload = DeltaOf(base, payload.blocks) /\ Len(payload.blocks) = uchunk.resultSize
  THEN WriteBlocks(payload.blocks)
  ELSE WriteBlocks(Garbage(uchunk.resultSize)) \/ Fail

WriteDelta ==
  /\ AtChunkOf("delta")
  /\ IF InputRange(uchunk) = {} \/ uchunk.deltaIndex \notin DOMAIN store THEN Fail
     ELSE \E base \in InputRange(uchunk) : PatchWith(base, store[uchunk.deltaIndex])

NextFile == uf' = uf + 1 /\ uc' = 1 /\ content' = <<>>

WriteNodes(more) ==
  /\ NextFile
  /\ nodes' = nodes \o more
  /\ UNCHANGED <<target, uphase, readVars, un, out, flushed>>

(* The last chunk is written.  What the header announced must be there. *)
EndRegular ==
  /\ AtFileOf("regular") /\ uc > Len(ufile.chunks)
  /\ IF Len(content) = ufile.size
     THEN WriteNodes(<<[path |-> ufile.path, type |-> "regular", content |-> content,
                        exec |-> ufile.exec, target |-> Nil]>>)
     ELSE Fail

WriteDirectory ==
  /\ AtFileOf("directory") /\ ufile.from = NoDirectory
  /\ WriteNodes(<<[path |-> ufile.path, type |-> "directory", content |-> <<>>,
                   exec |-> FALSE, target |-> Nil]>>)

(* Faulty: the whole store path of the input is copied. *)
CopyStorePath ==
  /\ AtFileOf("directory") /\ ufile.from # NoDirectory
  /\ LET input == inputs[ufile.from] IN
     IF EntriesAt(input) = {} THEN Fail
     ELSE WriteNodes(NodesAt(target[input[1]], <<>>, ufile.path))

(* All there is at an input is copied, whatever it is. *)
CopyDirectory ==
  /\ AtFileOf("directory") /\ ufile.from # NoDirectory
  /\ LET input == inputs[ufile.from] IN
     IF EntriesAt(input) = {} THEN Fail
     ELSE WriteNodes(NodesAt(target[input[1]], input[2], ufile.path))

WriteSymlink ==
  /\ AtFileOf("symlink")
  /\ WriteNodes(<<[path |-> ufile.path, type |-> "symlink", content |-> <<>>,
                   exec |-> FALSE, target |-> ufile.target]>>)

EndWrite ==
  /\ uphase = "write" /\ uf > Len(nars[un].files)
  /\ out' = Append(out, [path |-> nars[un].path, nodes |-> nodes])
  /\ un' = un + 1 /\ uphase' = "nextNar"
  /\ nodes' = <<>>
  /\ UNCHANGED <<target, readVars, uf, uc, content, flushed>>

(* bufio.Writer writes out what it holds when a write finds it full. *)
FlushFull ==
  /\ uphase \in {"nextNar", "write"} /\ flushed < Len(out)
  /\ flushed' \in flushed + 1..Len(out)
  /\ UNCHANGED <<target, uphase, readVars, un, uf, uc, content, nodes, out>>

(* The end follows the last NAR, and all is written out. *)
EndStream ==
  /\ uphase = "nextNar" /\ un > Len(nars)
  /\ uphase' = "complete" /\ flushed' = Len(out) + 1
  /\ UNCHANGED <<target, readVars, un, uf, uc, content, nodes, out>>

(* Faulty: the end is written by a deferred call, like the buffer. *)
UnpackFailEnded ==
  /\ uphase \notin {"complete", "truncated", "error", "failed"}
  /\ uphase' = "failed" /\ flushed' \in flushed..Len(out) + 1
  /\ UNCHANGED <<target, readVars, un, uf, uc, content, nodes, out>>

(* A read of the pipe, a read of the store or a write may fail, or         *)
(* dnar-unpack be killed, at any time: the buffer is written out or lost.  *)
UnpackFail ==
  /\ uphase \notin {"complete", "truncated", "error", "failed"}
  /\ uphase' = "failed" /\ flushed' \in flushed..Len(out)
  /\ UNCHANGED <<target, readVars, un, uf, uc, content, nodes, out>>

-----------------------------------------------------------------------------
(* closed: whether whoever writes the archive has ended. *)
UnpackStep(closed) ==
  \/ ReadNarHeader \/ ReadNAR \/ ReadChunkHeader \/ ReadChunk \/ ReadTrailer
  \/ ReadEOF(closed) \/ ReadTruncated(closed)
  \/ BeginWrite \/ WriteCA \/ WriteFD \/ WriteDelta \/ EndRegular
  \/ WriteDirectory \/ CopyDirectory \/ WriteSymlink \/ EndWrite
  \/ FlushFull \/ EndStream

=============================================================================
