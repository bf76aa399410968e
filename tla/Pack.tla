-------------------------------- MODULE Pack --------------------------------
(***************************************************************************)
(* dnar-pack's writeDNAR: the store paths the host does not have are       *)
(* written to an archive file by file, each file by reference to what the  *)
(* host has where the index finds it there.                                *)
(*                                                                         *)
(* The loops of the code are loops of actions: one step is one store file, *)
(* one delta computed, one chunk described or one message sent.            *)
(***************************************************************************)
EXTENDS Dnar

CONSTANTS
  RefSizeFactor,  \* how many times larger than the file a reference may be,
  RefSizeFloor,   \*   and the size it may have however small the file is
  World           \* what there may be to pack, and for whom

ASSUME PackAssumption ==
  /\ RefSizeFactor \in Nat
  /\ RefSizeFloor \in Nat
  /\ World \subseteq [disk: [StorePath -> Tree], indexed: [StorePath -> Tree],
                      local: SUBSET StorePath, new: Seq(StorePath),
                      host: [StorePath -> Tree]]
  /\ \A w \in World : ToSet(w.new) \cap w.local = {}

VARIABLES
  disk,           \* the store dnar-pack runs on: a path that is not there is <<>>
  indexed,        \* what each path was when it was indexed
  db,             \* the index: the rows of every store path
  local,          \* the store paths of the host, from its gcroots
  new,            \* the store paths to send

  phase,          \* where writeDNAR is
  np,             \* the store path being written
  nf,             \* the store file being written, a row of that path
  files,          \* the files of the NAR message so far
  recursiveDir,   \* the last directory matched in full: none, or its path
  chunks,         \* the chunks of the file being written, and their matches
  ref,            \* the file deltas are computed against: none, or one
  todo,           \* chunks whose delta is not computed yet
  paid,           \* chunks whose delta is smaller than they are
  descs,          \* the descriptors of the file's chunks so far

  inputPaths,     \* the store paths of the trailer
  inputFiles,     \* the files of the trailer
  chunkDeps       \* the payloads to send

inputVars == <<disk, indexed, db, local, new>>
fileVars == <<chunks, ref, todo, paid, descs>>
narVars == <<files, recursiveDir>>
depVars == <<inputPaths, inputFiles, chunkDeps>>
packVars == <<archive, inputVars, phase, np, nf, narVars, fileVars, depVars>>

-----------------------------------------------------------------------------
(* The index.  A store file is the store path and the number of its row. *)

FileRow(f) == db[f[1]][f[2]]

LocalFiles == UNION {{sp} \X DOMAIN db[sp] : sp \in local}

(* GetLocalFileByHash: the files of the host with this hash, whatever they *)
(* are.  The code takes any one of them.  A NULL hash equals nothing.      *)
LocalFilesByHash(hash) == {f \in LocalFiles : hash # Nil /\ FileRow(f).hash = hash}

(* The chunks of the host with this hash. *)
LocalChunksByHash(hash) ==
  UNION {{[file |-> f, size |-> c.size, offset |-> c.offset] :
            c \in {d \in ToSet(FileRow(f).chunks) : d.hash = hash}} : f \in LocalFiles}

(* GetStoreChunksWithLocalMatch: the chunks of a file, each matched with   *)
(* any one of the chunks of the host that are equal to it, or with none    *)
(* when the host has no such chunk.                                        *)
MatchesOf(c) ==
  IF LocalChunksByHash(c.hash) = {} THEN {{}} ELSE {{m} : m \in LocalChunksByHash(c.hash)}

MatchedChunks(cs) ==
  LET matches == {m \in [DOMAIN cs -> UNION {MatchesOf(cs[k]) : k \in DOMAIN cs}] :
                    \A k \in DOMAIN cs : m[k] \in MatchesOf(cs[k])}
  IN  {[k \in DOMAIN cs |-> [hash |-> cs[k].hash, size |-> cs[k].size,
                             offset |-> cs[k].offset, match |-> m[k]]] : m \in matches}

Matched(c) == c.match # {}

-----------------------------------------------------------------------------
(* The lists an archive's indexes point into. *)

IndexIn(list, x) == CHOOSE i \in DOMAIN list : list[i] = x

(* Faulty: a file met again moves to the end. *)
AppendLatest(list, x) == Append(SelectSeq(list, LAMBDA y : y # x), x)

AppendNew(list, x) == IF x \in ToSet(list) THEN list ELSE Append(list, x)

(* addInputStoreFile, with the store path of the file when the file is new. *)
AddInputStoreFile(f) ==
  /\ inputFiles' = AppendNew(inputFiles, f)
  /\ inputPaths' = IF f \in ToSet(inputFiles) THEN inputPaths
                                              ELSE AppendNew(inputPaths, f[1])

ChunkPayload(f, c) ==
  [kind |-> "chunk", file |-> f, hash |-> c.hash, size |-> c.size, offset |-> c.offset]

DeltaPayload(base, result) == [kind |-> "delta", base |-> base, result |-> result]

(* The payloads that hold the chunk with this hash, at most one. *)
PayloadsOf(hash) ==
  {i \in DOMAIN chunkDeps : chunkDeps[i].kind = "chunk" /\ chunkDeps[i].hash = hash}

(* Faulty: a chunk is sent as often as it is met. *)
AddEveryChunk(f, c) == chunkDeps' = Append(chunkDeps, ChunkPayload(f, c))

(* addChunkDep: a chunk is sent once, whichever file it was first met in. *)
AddChunkDep(f, c) ==
  chunkDeps' = IF PayloadsOf(c.hash) = {} THEN Append(chunkDeps, ChunkPayload(f, c))
                                          ELSE chunkDeps

-----------------------------------------------------------------------------
(* A path indexed once is never read again, whatever becomes of it. *)
PackInitIn(w) ==
  /\ disk = w.disk /\ indexed = w.indexed
  /\ db = [sp \in StorePath |-> RowsOf(w.indexed[sp])]
  /\ local = w.local /\ new = w.new
  /\ archive = <<>>
  /\ phase = "start" /\ np = 1 /\ nf = 1
  /\ files = <<>> /\ recursiveDir = {}
  /\ chunks = <<>> /\ ref = {} /\ todo = {} /\ paid = {} /\ descs = <<>>
  /\ inputPaths = <<>> /\ inputFiles = <<>> /\ chunkDeps = <<>>

PackInit == \E w \in World : PackInitIn(w)

(* The number of NARs, once nix path-info has told of all of them. *)
SendNarHeader ==
  /\ phase = "start"
  /\ archive' = Append(archive, StreamHeader(Len(new)))
  /\ phase' = "nars"
  /\ UNCHANGED <<inputVars, np, nf, narVars, fileVars, depVars>>

(* Faulty: the files of a store path are counted on from those of the last. *)
BeginNarWithoutReset ==
  /\ phase = "nars" /\ np <= Len(new)
  /\ phase' = "files"
  /\ UNCHANGED <<archive, inputVars, np, nf, narVars, fileVars, depVars>>

BeginNar ==
  /\ phase = "nars" /\ np <= Len(new)
  /\ phase' = "files" /\ nf' = 1
  /\ UNCHANGED <<archive, inputVars, np, narVars, fileVars, depVars>>

-----------------------------------------------------------------------------
(* The loop over the store files of a store path. *)

rows == db[new[np]]
row == rows[nf]

Skipped == \E p \in recursiveDir : StringPrefix(p, row.path)

(* The next store file is one that a directory matched in full covers. *)
SkipFile ==
  /\ phase = "files" /\ nf <= Len(rows)
  /\ Skipped
  /\ nf' = nf + 1
  /\ UNCHANGED <<archive, inputVars, phase, np, narVars, fileVars, depVars>>

AtFile(type) ==
  /\ phase = "files" /\ nf <= Len(rows) /\ ~Skipped
  /\ row.type = type

AddFile(file) == files' = Append(files, file) /\ nf' = nf + 1

PackSymlink ==
  /\ AtFile("symlink")
  /\ AddFile(SymlinkFile(row.path, row.target))
  /\ UNCHANGED <<archive, inputVars, phase, np, recursiveDir, fileVars, depVars>>

(* The host has a directory with this hash: it is copied from there. *)
PackMatchedDirectory(f) ==
  /\ AtFile("directory")
  /\ f \in LocalFilesByHash(row.hash)
  /\ recursiveDir' = {row.path}
  /\ AddInputStoreFile(f)
  /\ AddFile(DirectoryFile(row.path, IndexIn(inputFiles', f)))
  /\ UNCHANGED <<archive, inputVars, phase, np, fileVars, chunkDeps>>

PackDirectory ==
  /\ AtFile("directory")
  /\ LocalFilesByHash(row.hash) = {}
  /\ AddFile(DirectoryFile(row.path, NoDirectory))
  /\ UNCHANGED <<archive, inputVars, phase, np, recursiveDir, fileVars, depVars>>

(* The host has a file with this hash: it is written from there. *)
PackMatchedFile(f) ==
  /\ AtFile("regular")
  /\ f \in LocalFilesByHash(row.hash)
  /\ AddInputStoreFile(f)
  /\ AddFile(RegularFile(row, <<FD(IndexIn(inputFiles', f), FileRow(f).size, 0,
                                   FileRow(f).hash)>>))
  /\ UNCHANGED <<archive, inputVars, phase, np, recursiveDir, fileVars, chunkDeps>>

(* The file is written chunk by chunk, the chunks the host has from there. *)
LookUpChunks ==
  /\ AtFile("regular")
  /\ LocalFilesByHash(row.hash) = {}
  /\ chunks' \in MatchedChunks(row.chunks)
  /\ phase' = "reference"
  /\ UNCHANGED <<archive, inputVars, np, nf, narVars, ref, todo, paid, descs, depVars>>

-----------------------------------------------------------------------------
(* A file written chunk by chunk. *)

Voted(k, f) == \E m \in chunks[k].match : m.file = f

Votes(f) == Cardinality({k \in DOMAIN chunks : Voted(k, f)})

(* The files most chunks are matched in.  The code takes one of them in    *)
(* the order in which Go ranges over a map, which is any.                  *)
MostPopular ==
  {f \in LocalFiles : /\ \E k \in DOMAIN chunks : Voted(k, f)
                      /\ \A g \in LocalFiles : Votes(g) <= Votes(f)}

SizeCap ==
  IF row.size * RefSizeFactor < RefSizeFloor THEN RefSizeFloor ELSE row.size * RefSizeFactor

FitsAsReference(f) == FileRow(f).size > 0 /\ FileRow(f).size <= SizeCap

(* What a store file is now, and what it was when it was indexed. *)
OnDisk(f) == {e \in ToSet(disk[f[1]]) : e.path = FileRow(f).path}

EntryOf(f) == indexed[f[1]][f[2]]

ContentOf(f) == EntryOf(f).content

(* The contents of a file that is still one: one sequence of blocks, or none. *)
FileOnDisk(f) == {e.content : e \in {d \in OnDisk(f) : d.type = "regular"}}

thisFile == <<new[np], nf>>

(* A reference is used when there is one, it is not too large and it can   *)
(* be mapped; then the file is opened, and every chunk the host misses     *)
(* waits for its delta.                                                    *)
ChooseReference ==
  /\ phase = "reference"
  /\ \/ ref' = {}
     \/ /\ OnDisk(thisFile) # {}
        /\ \E f \in MostPopular : FitsAsReference(f) /\ FileOnDisk(f) # {} /\ ref' = {f}
  /\ todo' = IF ref' = {} THEN {}
             ELSE {k \in DOMAIN chunks : ~Matched(chunks[k]) /\ chunks[k].size # 0}
  /\ phase' = "chunks"
  /\ paid' = {} /\ descs' = <<>>
  /\ UNCHANGED <<archive, inputVars, np, nf, narVars, chunks, depVars>>

(* What is read of a file in full at the place of a chunk: one sequence of *)
(* blocks, or none when the file is not there or too short.                *)
RangeOnDisk(f, c) ==
  {ReadAt(blocks, c.offset, c.size) :
     blocks \in {b \in FileOnDisk(f) : c.offset + c.size <= Len(b)}}

(* A worker has computed the delta of chunk k, which pays off or does not. *)
ComputeDelta(k) ==
  /\ phase = "chunks" /\ k \in todo
  /\ RangeOnDisk(thisFile, chunks[k]) # {}
  /\ todo' = todo \ {k}
  /\ \/ paid' = paid \cup {k}
     \/ UNCHANGED paid
  /\ UNCHANGED <<archive, inputVars, phase, np, nf, narVars, chunks, ref, descs, depVars>>

(* The next chunk to be described, once every worker has ended. *)
AtChunk(k) ==
  /\ phase = "chunks" /\ todo = {}
  /\ k = Len(descs) + 1 /\ k <= Len(chunks)

(* Faulty: the offset is that of the chunk in the file being packed. *)
DescribeMatchWithOwnOffset ==
  LET k == Len(descs) + 1
      c == chunks[k] IN
  /\ AtChunk(k)
  /\ \E m \in c.match :
       /\ AddInputStoreFile(m.file)
       /\ descs' = Append(descs, FD(IndexIn(inputFiles', m.file), m.size, c.offset, c.hash))
  /\ UNCHANGED <<archive, inputVars, phase, np, nf, narVars, chunks, ref, todo, paid, chunkDeps>>

DescribeMatchedChunk ==
  LET k == Len(descs) + 1
      c == chunks[k] IN
  /\ AtChunk(k)
  /\ \E m \in c.match :
       /\ AddInputStoreFile(m.file)
       /\ descs' = Append(descs, FD(IndexIn(inputFiles', m.file), m.size, m.offset, c.hash))
  /\ UNCHANGED <<archive, inputVars, phase, np, nf, narVars, chunks, ref, todo, paid, chunkDeps>>

(* Faulty: the result is said to have the size of the reference. *)
DescribeDeltaOfReferenceSize ==
  LET k == Len(descs) + 1
      c == chunks[k] IN
  /\ AtChunk(k) /\ ~Matched(c) /\ k \in paid
  /\ \E f \in ref : \E base \in FileOnDisk(f), result \in RangeOnDisk(thisFile, c) :
       /\ AddInputStoreFile(f)
       /\ chunkDeps' = Append(chunkDeps, DeltaPayload(base, result))
       /\ descs' = Append(descs, Delta(IndexIn(inputFiles', f), FileRow(f).size, 0,
                                       FileRow(f).hash, Len(chunkDeps'), FileRow(f).size))
  /\ UNCHANGED <<archive, inputVars, phase, np, nf, narVars, chunks, ref, todo, paid>>

DescribeDelta ==
  LET k == Len(descs) + 1
      c == chunks[k] IN
  /\ AtChunk(k) /\ ~Matched(c) /\ k \in paid
  /\ \E f \in ref : \E base \in FileOnDisk(f), result \in RangeOnDisk(thisFile, c) :
       /\ AddInputStoreFile(f)
       /\ chunkDeps' = Append(chunkDeps, DeltaPayload(base, result))
       /\ descs' = Append(descs, Delta(IndexIn(inputFiles', f), FileRow(f).size, 0,
                                       FileRow(f).hash, Len(chunkDeps'), c.size))
  /\ UNCHANGED <<archive, inputVars, phase, np, nf, narVars, chunks, ref, todo, paid>>

DescribeCAChunk ==
  LET k == Len(descs) + 1
      c == chunks[k] IN
  /\ AtChunk(k) /\ ~Matched(c) /\ k \notin paid
  /\ AddChunkDep(thisFile, c)
  /\ \E i \in DOMAIN chunkDeps' :
       /\ chunkDeps'[i].kind = "chunk" /\ chunkDeps'[i].hash = c.hash
       /\ descs' = Append(descs, CA(i))
  /\ UNCHANGED <<archive, inputVars, phase, np, nf, narVars, chunks, ref, todo, paid,
                 inputPaths, inputFiles>>

EndFile ==
  /\ phase = "chunks" /\ todo = {} /\ Len(descs) = Len(chunks)
  /\ AddFile(RegularFile(row, descs))
  /\ phase' = "files"
  /\ chunks' = <<>> /\ ref' = {} /\ todo' = {} /\ paid' = {} /\ descs' = <<>>
  /\ UNCHANGED <<archive, inputVars, np, recursiveDir, depVars>>

-----------------------------------------------------------------------------
(* The messages. *)

EndNar ==
  /\ phase = "files" /\ nf > Len(rows)
  /\ archive' = Append(archive, NAR(new[np], files))
  /\ phase' = "nars" /\ np' = np + 1 /\ files' = <<>> /\ recursiveDir' = {}
  /\ UNCHANGED <<inputVars, nf, fileVars, depVars>>

(* Faulty: the chunks are counted, and the deltas are not. *)
SendChunkHeaderOfChunks ==
  /\ phase = "nars" /\ np > Len(new)
  /\ archive' = Append(archive, StreamHeader(
                  Cardinality({i \in DOMAIN chunkDeps : chunkDeps[i].kind = "chunk"})))
  /\ phase' = "payloads"
  /\ UNCHANGED <<inputVars, np, nf, narVars, fileVars, depVars>>

SendChunkHeader ==
  /\ phase = "nars" /\ np > Len(new)
  /\ archive' = Append(archive, StreamHeader(Len(chunkDeps)))
  /\ phase' = "payloads"
  /\ UNCHANGED <<inputVars, np, nf, narVars, fileVars, depVars>>

(* The NARs and the two headers come first, then the payloads one by one. *)
PayloadsSent == Len(archive) - Len(new) - 2

(* The blocks read for a chunk as it is sent.  A file that has become too  *)
(* short yields what there still is of it, and zeros.                      *)
BlocksRead(payload) ==
  RangeOnDisk(payload.file, payload)
    \cup {[i \in 1..payload.size |-> Nil] :
            b \in {d \in FileOnDisk(payload.file) : payload.offset + payload.size > Len(d)}}

DataOf(payload) ==
  IF payload.kind = "delta" THEN {DeltaOf(payload.base, payload.result)}
  ELSE {Verbatim(blocks) : blocks \in BlocksRead(payload)}

SendChunk ==
  /\ phase = "payloads" /\ PayloadsSent < Len(chunkDeps)
  /\ \E data \in DataOf(chunkDeps[PayloadsSent + 1]) : archive' = Append(archive, CAChunk(data))
  /\ UNCHANGED <<inputVars, phase, np, nf, narVars, fileVars, depVars>>

SendTrailer ==
  /\ phase = "payloads" /\ PayloadsSent = Len(chunkDeps)
  /\ archive' = Append(archive, PathTrailer(inputPaths,
                  [i \in DOMAIN inputFiles |->
                     FileDescriptor(IndexIn(inputPaths, inputFiles[i][1]),
                                    FileRow(inputFiles[i]).path)]))
  /\ phase' = "done"
  /\ UNCHANGED <<inputVars, np, nf, narVars, fileVars, depVars>>

Abort ==
  /\ phase' = "failed" /\ np' = 1 /\ nf' = 1
  /\ files' = <<>> /\ recursiveDir' = {}
  /\ chunks' = <<>> /\ ref' = {} /\ todo' = {} /\ paid' = {} /\ descs' = <<>>
  /\ inputPaths' = <<>> /\ inputFiles' = <<>> /\ chunkDeps' = <<>>
  /\ UNCHANGED <<archive, inputVars>>

(* The file or a chunk of it is not there to be read any more, by a worker *)
(* or to be sent: of a file that has become too short the read may meet    *)
(* the end at once.                                                        *)
FileUnreadable ==
  /\ \/ /\ phase = "reference" /\ OnDisk(thisFile) = {}
        /\ \E f \in MostPopular : FitsAsReference(f) /\ FileOnDisk(f) # {}
     \/ /\ phase = "chunks"
        /\ \E k \in todo : RangeOnDisk(thisFile, chunks[k]) = {}
     \/ /\ phase = "payloads" /\ PayloadsSent < Len(chunkDeps)
        /\ LET payload == chunkDeps[PayloadsSent + 1] IN
           payload.kind = "chunk" /\ RangeOnDisk(payload.file, payload) = {}
  /\ Abort

(* Any read, query or write may fail, or dnar-pack be killed: it ends, and *)
(* the archive stays as far as it was written.                             *)
PackFail == phase \notin {"done", "failed"} /\ Abort

-----------------------------------------------------------------------------
PackStep ==
  \/ SendNarHeader \/ BeginNar \/ SkipFile \/ PackSymlink \/ PackDirectory
  \/ \E f \in LocalFiles : PackMatchedDirectory(f) \/ PackMatchedFile(f)
  \/ LookUpChunks \/ ChooseReference
  \/ \E k \in todo : ComputeDelta(k)
  \/ DescribeMatchedChunk \/ DescribeDelta \/ DescribeCAChunk \/ EndFile
  \/ EndNar \/ SendChunkHeader \/ SendChunk \/ SendTrailer
  \/ FileUnreadable

PackNext == PackStep \/ PackFail

PackSpec == PackInit /\ [][PackNext]_packVars

-----------------------------------------------------------------------------
(* Properties *)

(* Type correctness of what dnar-pack keeps. *)
PackTypeOK ==
  /\ phase \in {"start", "nars", "files", "reference", "chunks", "payloads", "done", "failed"}
  /\ np \in 1..Len(new) + 1 /\ nf \in Nat
  /\ phase \in {"files", "reference", "chunks"} => np <= Len(new) /\ nf \in 1..Len(rows) + 1
  /\ ToSet(inputFiles) \subseteq LocalFiles
  /\ ref \subseteq LocalFiles
  /\ todo \cup paid \subseteq DOMAIN chunks

(* The files of the NAR messages sent so far and of the one being written. *)
FilesWritten ==
  (UNION {ToSet(archive[i].files) : i \in {j \in DOMAIN archive : archive[j].msg = "nar"}})
    \cup ToSet(files)

(* The descriptors of the chunks of these files. *)
ChunksWritten ==
  (UNION {ToSet(file.chunks) : file \in {g \in FilesWritten : g.type = "regular"}})
    \cup ToSet(descs)

InputResolves(c) ==
  LET f == inputFiles[c.index] IN
  /\ c.index \in DOMAIN inputFiles
  /\ f[1] \in local
  /\ EntryOf(f).type = "regular" =>
       /\ c.offset + c.size <= Len(ContentOf(f))
       /\ c.digest = ReadAt(ContentOf(f), c.offset, c.size)

PayloadResolves(index, kind) ==
  index \in DOMAIN chunkDeps /\ chunkDeps[index].kind = kind

Resolves(c) ==
  /\ c.chunk = "ca" => PayloadResolves(c.index, "chunk")
  /\ c.chunk = "fd" => InputResolves(c)
  /\ c.chunk = "delta" =>
       /\ InputResolves(c)
       /\ PayloadResolves(c.deltaIndex, "delta")
       /\ chunkDeps[c.deltaIndex].base \in FileOnDisk(inputFiles[c.index])

(* Whatever has been added since to the trailer's files and to the         *)
(* payloads, every descriptor written points at what it was written for: a *)
(* range of a file of the host that was, when it was indexed, what the     *)
(* digest says, or a payload of its kind, and a delta at the base it was   *)
(* computed from (addInputStoreFile, addChunkDep, addDeltaPayload).        *)
ReferencesResolve == phase # "failed" => \A c \in ChunksWritten : Resolves(c)

(* The payloads these descriptors point at. *)
PayloadsUsed ==
  {c.index : c \in {d \in ChunksWritten : d.chunk = "ca"}}
    \cup {c.deltaIndex : c \in {d \in ChunksWritten : d.chunk = "delta"}}

(* No chunk is sent twice, none is sent that the host has, and none is     *)
(* sent that no file is made of.                                           *)
NothingSentInVain ==
  /\ \A i \in DOMAIN chunkDeps : chunkDeps[i].kind = "chunk" =>
       /\ LocalChunksByHash(chunkDeps[i].hash) = {}
       /\ PayloadsOf(chunkDeps[i].hash) = {i}
  /\ phase = "done" => PayloadsUsed = DOMAIN chunkDeps

(* What an index already written stands for never changes: the two lists   *)
(* and the archive only grow while it is written.                          *)
IndexesStable ==
  [][phase' # "failed" =>
       /\ IsPrefix(inputFiles, inputFiles') /\ IsPrefix(inputPaths, inputPaths')
       /\ IsPrefix(chunkDeps, chunkDeps')
       /\ IsPrefix(archive, archive')]_packVars

=============================================================================
