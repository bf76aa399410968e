----------------------------- MODULE PackProofs -----------------------------
(***************************************************************************)
(* What dnar-pack writes refers to what it was meant to, for every store,  *)
(* every choice of matches and every order in which workers end.           *)
(*                                                                         *)
(* The invariant relates three growing lists, the trailer's files, the     *)
(* payloads and what has been written of the NARs, while the phase says    *)
(* which of the three the next step may add to.                            *)
(***************************************************************************)
EXTENDS Pack, TLAPS

(* A sequence, of whatever it holds. *)
IsSeq(s) == s \in Seq(ToSet(s))

(* t is s with more after it. *)
Extends(s, t) == Len(s) <= Len(t) /\ \A i \in DOMAIN s : i \in DOMAIN t /\ t[i] = s[i]

InputsInv ==
  /\ indexed \in [StorePath -> Tree]
  /\ db = [sp \in StorePath |-> RowsOf(indexed[sp])]
  /\ local \subseteq StorePath
  /\ new \in Seq(StorePath)

ListsInv ==
  /\ IsSeq(archive) /\ IsSeq(files) /\ IsSeq(descs)
  /\ IsSeq(inputPaths) /\ IsSeq(inputFiles) /\ IsSeq(chunkDeps)
  /\ ToSet(inputFiles) \subseteq LocalFiles

PhaseInv ==
  /\ phase \in {"start", "nars", "files", "reference", "chunks", "payloads", "done", "failed"}
  /\ np \in 1..Len(new) + 1 /\ nf \in Nat
  /\ phase \in {"files", "reference", "chunks"} => np <= Len(new) /\ nf \in 1..Len(rows) + 1
  /\ phase \in {"reference", "chunks"} => nf <= Len(rows)
  /\ phase \notin {"files", "reference", "chunks"} => files = <<>>
  /\ phase # "chunks" => descs = <<>> /\ todo = {} /\ paid = {}

(* A chunk is matched with one the host has, or the host has none. *)
ChunksInv ==
  /\ Len(chunks) \in Nat /\ DOMAIN chunks = 1..Len(chunks)
  /\ ref \subseteq LocalFiles
  /\ todo \cup paid \subseteq DOMAIN chunks
  /\ \A k \in DOMAIN chunks :
       /\ chunks[k].match \subseteq LocalChunksByHash(chunks[k].hash)
       /\ chunks[k].match = {} => LocalChunksByHash(chunks[k].hash) = {}

PayloadsInv ==
  /\ \A i \in DOMAIN chunkDeps : chunkDeps[i].kind = "chunk" =>
       /\ LocalChunksByHash(chunkDeps[i].hash) = {}
       /\ PayloadsOf(chunkDeps[i].hash) = {i}
  /\ phase # "failed" => PayloadsUsed = DOMAIN chunkDeps

PackInv ==
  InputsInv /\ ListsInv /\ PhaseInv /\ ChunksInv /\ PayloadsInv /\ ReferencesResolve

-----------------------------------------------------------------------------
(* Sequences that grow. *)

(* The empty sequence. *)
LEMMA EmptyIsSeq == IsSeq(<<>>) /\ ToSet(<<>>) = {} /\ Len(<<>>) = 0 /\ DOMAIN <<>> = {}
BY DEF IsSeq, ToSet

(* The length and the domain of a sequence. *)
LEMMA SeqIs ==
  ASSUME NEW s, IsSeq(s)
  PROVE  Len(s) \in Nat /\ DOMAIN s = 1..Len(s)
BY DEF IsSeq

(* Appending keeps the beginning and adds one element at the end. *)
LEMMA AppendIs ==
  ASSUME NEW s, IsSeq(s), NEW e
  PROVE  /\ IsSeq(Append(s, e)) /\ ToSet(Append(s, e)) = ToSet(s) \cup {e}
         /\ Len(Append(s, e)) = Len(s) + 1 /\ DOMAIN Append(s, e) = 1..Len(s) + 1
         /\ Append(s, e)[Len(s) + 1] = e
         /\ Extends(s, Append(s, e)) /\ IsPrefix(s, Append(s, e))
<1> DEFINE S == ToSet(s) \cup {e}
           t == Append(s, e)
<1>1. s \in Seq(S) /\ e \in S /\ s \in Seq(ToSet(s)) /\ DOMAIN s = 1..Len(s)
  BY DEF IsSeq
<1>2. /\ t \in Seq(S) /\ Len(t) = Len(s) + 1 /\ DOMAIN t = 1..Len(s) + 1
      /\ t[Len(s) + 1] = e /\ \A i \in 1..Len(s) : t[i] = s[i]
  <2> HIDE DEF S
  <2> QED BY <1>1
<1>3. ToSet(t) = S
  <2>1. ToSet(t) \subseteq S
    BY <1>1, <1>2 DEF ToSet
  <2>2. S \subseteq ToSet(t)
    BY <1>1, <1>2 DEF ToSet
  <2> QED BY <2>1, <2>2
<1>4. Extends(s, t)
  BY <1>1, <1>2 DEF Extends
<1>5. SubSeq(s, 1, Len(s)) = SubSeq(t, 1, Len(s))
  <2> HIDE DEF S, t
  <2> QED BY <1>1, <1>2
<1> QED BY <1>2, <1>3, <1>4, <1>5 DEF IsSeq, IsPrefix

(* A sequence starts with itself. *)
LEMMA SameIsPrefix ==
  ASSUME NEW s, IsSeq(s)
  PROVE  Extends(s, s) /\ IsPrefix(s, s)
BY SeqIs DEF Extends, IsPrefix

(* A list to which an element is added once keeps its beginning and has    *)
(* the element at its index (addInputStorePathID, addInputStoreFile).      *)
LEMMA AppendNewIs ==
  ASSUME NEW s, IsSeq(s), NEW e
  PROVE  /\ IsSeq(AppendNew(s, e)) /\ ToSet(AppendNew(s, e)) = ToSet(s) \cup {e}
         /\ Extends(s, AppendNew(s, e)) /\ IsPrefix(s, AppendNew(s, e))
         /\ IndexIn(AppendNew(s, e), e) \in DOMAIN AppendNew(s, e)
         /\ AppendNew(s, e)[IndexIn(AppendNew(s, e), e)] = e
<1>1. CASE e \in ToSet(s)
  <2>1. \E i \in DOMAIN s : s[i] = e
    BY <1>1 DEF ToSet
  <2> QED BY <1>1, <2>1, SameIsPrefix DEF AppendNew, IndexIn
<1>2. CASE e \notin ToSet(s)
  <2>1. AppendNew(s, e) = Append(s, e)
    BY <1>2 DEF AppendNew
  <2>2. \E i \in DOMAIN Append(s, e) : Append(s, e)[i] = e
    BY AppendIs, SeqIs
  <2> QED BY <2>1, <2>2, AppendIs DEF IndexIn
<1> QED BY <1>1, <1>2

(* One block of a file. *)
LEMMA OneOfSeq ==
  ASSUME NEW S, NEW s \in Seq(S), NEW k \in 1..Len(s)
  PROVE  SubSeq(s, k, k) = <<s[k]>>
<1>1. /\ SubSeq(s, k, k) \in Seq(S) /\ Len(SubSeq(s, k, k)) = 1
      /\ SubSeq(s, k, k)[1] = s[k]
  OBVIOUS
<1>2. \A t \in Seq(S) : Len(t) = 1 => t = <<t[1]>>
  OBVIOUS
<1> QED BY <1>1, <1>2

-----------------------------------------------------------------------------
(* The index. *)

(* The index has as many rows of a path as the path has entries. *)
LEMMA RowsIs ==
  ASSUME InputsInv, NEW sp \in StorePath
  PROVE  Len(db[sp]) \in Nat /\ DOMAIN db[sp] = 1..Len(db[sp])
<1>1. indexed[sp] \in Seq(Entry) /\ db[sp] = RowsOf(indexed[sp])
  BY DEF InputsInv, Tree
<1>2. DOMAIN db[sp] = 1..Len(indexed[sp]) /\ Len(indexed[sp]) \in Nat
  BY <1>1 DEF RowsOf
<1>3. Len(db[sp]) = Len(indexed[sp])
  BY <1>2
<1> QED BY <1>2, <1>3

(* The chunks of a row are a sequence. *)
LEMMA RowIs ==
  ASSUME InputsInv, NEW sp \in StorePath, NEW i \in 1..Len(db[sp])
  PROVE  \E n \in Nat : DOMAIN db[sp][i].chunks = 1..n
<1>1. indexed[sp] \in Seq(Entry) /\ db[sp] = RowsOf(indexed[sp]) /\ i \in DOMAIN db[sp]
  BY RowsIs DEF InputsInv, Tree
<1>2. i \in DOMAIN indexed[sp] /\ db[sp][i].chunks = Chunks(indexed[sp][i])
  BY <1>1 DEF RowsOf
<1>3. indexed[sp][i].content \in Seq(Block)
  <2>1. indexed[sp][i] \in Entry
    BY <1>1, <1>2
  <2> QED BY <2>1 DEF Entry
<1> QED BY <1>2, <1>3 DEF Chunks

(* The digest of a file is over its contents. *)
LEMMA DigestOfFile ==
  ASSUME NEW t, NEW i, NEW dirs, t[i].type = "regular"
  PROVE  DigestOf(t, i, dirs) = t[i].content
BY Zenon DEF DigestOf

(* The size of a file is that of its contents. *)
LEMMA SizeOfFile ==
  ASSUME NEW e, e.type = "regular"
  PROVE  SizeOf(e) = Len(e.content)
BY Zenon DEF SizeOf

(* A file of the host is an entry of its store, and its row says what the  *)
(* entry is.                                                               *)
LEMMA LocalFileIs ==
  ASSUME InputsInv, NEW f \in LocalFiles
  PROVE  /\ f[1] \in local /\ EntryOf(f) \in Entry
         /\ FileRow(f).size = SizeOf(EntryOf(f)) /\ FileRow(f).chunks = Chunks(EntryOf(f))
         /\ EntryOf(f).type = "regular" => FileRow(f).hash = ContentOf(f)
<1>1. PICK sp \in local : f \in {sp} \X DOMAIN db[sp]
  BY DEF LocalFiles
<1>2. /\ f[1] = sp /\ f[2] \in DOMAIN db[sp] /\ sp \in StorePath
  BY <1>1 DEF InputsInv
<1>3. indexed[sp] \in Seq(Entry) /\ db[sp] = RowsOf(indexed[sp])
  BY <1>2 DEF InputsInv, Tree
<1>4. /\ f[2] \in DOMAIN indexed[sp]
      /\ FileRow(f).size = SizeOf(EntryOf(f)) /\ FileRow(f).chunks = Chunks(EntryOf(f))
      /\ FileRow(f).hash = DigestOf(indexed[sp], f[2], DirectoryDigests(indexed[sp]))
  BY <1>2, <1>3 DEF RowsOf, FileRow, EntryOf
<1>5. EntryOf(f) \in Entry
  BY <1>2, <1>3, <1>4 DEF EntryOf
<1>6. EntryOf(f).type = "regular" => FileRow(f).hash = ContentOf(f)
  BY <1>2, <1>4, DigestOfFile DEF EntryOf, ContentOf
<1> QED BY <1>1, <1>2, <1>4, <1>5, <1>6

(* The row of a file tells its size and its contents. *)
LEMMA WholeFileIs ==
  ASSUME InputsInv, NEW f \in LocalFiles, EntryOf(f).type = "regular"
  PROVE  /\ 0 + FileRow(f).size <= Len(ContentOf(f))
         /\ FileRow(f).hash = ReadAt(ContentOf(f), 0, FileRow(f).size)
<1>1. /\ ContentOf(f) \in Seq(Block) /\ FileRow(f).hash = ContentOf(f)
      /\ FileRow(f).size = Len(ContentOf(f))
  BY LocalFileIs, SizeOfFile DEF Entry, ContentOf
<1>2. SubSeq(ContentOf(f), 0 + 1, 0 + Len(ContentOf(f))) = ContentOf(f)
  BY <1>1
<1> QED BY <1>1, <1>2 DEF ReadAt

(* A chunk found by its hash has the contents the hash is of. *)
LEMMA LocalChunkIs ==
  ASSUME InputsInv, NEW hash, NEW m \in LocalChunksByHash(hash)
  PROVE  /\ m.file \in LocalFiles
         /\ m.offset + m.size <= Len(ContentOf(m.file))
         /\ hash = ReadAt(ContentOf(m.file), m.offset, m.size)
<1>1. PICK f \in LocalFiles :
        m \in {[file |-> f, size |-> c.size, offset |-> c.offset] :
                 c \in {d \in ToSet(FileRow(f).chunks) : d.hash = hash}}
  BY DEF LocalChunksByHash
<1>2. PICK c \in ToSet(FileRow(f).chunks) :
        c.hash = hash /\ m = [file |-> f, size |-> c.size, offset |-> c.offset]
  BY <1>1
<1>3. /\ FileRow(f).chunks = Chunks(EntryOf(f)) /\ EntryOf(f).content \in Seq(Block)
  BY LocalFileIs DEF Entry
<1>4. PICK k \in DOMAIN EntryOf(f).content :
        c = [hash |-> <<EntryOf(f).content[k]>>, size |-> 1, offset |-> k - 1]
  BY <1>3 DEF ToSet, Chunks
<1>5. /\ m.file = f /\ m.size = 1 /\ m.offset = k - 1 /\ hash = <<ContentOf(f)[k]>>
      /\ ContentOf(f) \in Seq(Block) /\ k \in 1..Len(ContentOf(f))
  BY <1>2, <1>3, <1>4 DEF ContentOf
<1>6. SubSeq(ContentOf(f), k, k) = <<ContentOf(f)[k]>>
  <2> DEFINE s == ContentOf(f)
  <2>1. s \in Seq(Block) /\ k \in 1..Len(s)
    BY <1>5
  <2>2. SubSeq(s, k, k) = <<s[k]>>
    <3> HIDE DEF s
    <3> QED BY <2>1, OneOfSeq
  <2> QED BY <2>2
<1>7. m.offset + 1 = k /\ m.offset + m.size = k /\ k <= Len(ContentOf(f))
  BY <1>5
<1>8. ReadAt(ContentOf(m.file), m.offset, m.size) = SubSeq(ContentOf(f), k, k)
  BY <1>5, <1>7 DEF ReadAt
<1> QED BY <1>5, <1>6, <1>7, <1>8

-----------------------------------------------------------------------------
(* The descriptors. *)

(* A descriptor written stays good while both lists grow. *)
LEMMA StillResolves ==
  ASSUME UNCHANGED inputVars, Extends(inputFiles, inputFiles'), Extends(chunkDeps, chunkDeps'),
         NEW c, Resolves(c)
  PROVE  Resolves(c)'
<1>1. UNCHANGED <<disk, indexed, db, local>>
  BY DEF inputVars
<1>2. InputResolves(c) => InputResolves(c)' /\ inputFiles'[c.index] = inputFiles[c.index]
  <2>1. InputResolves(c) =>
          /\ c.index \in DOMAIN inputFiles' /\ inputFiles'[c.index] = inputFiles[c.index]
    BY DEF InputResolves, Extends
  <2> QED BY <1>1, <2>1 DEF InputResolves, EntryOf, ContentOf
<1>3. c.chunk = "ca" => (PayloadResolves(c.index, "chunk"))'
  BY DEF Resolves, PayloadResolves, Extends
<1>4. c.chunk = "delta" => /\ InputResolves(c)' /\ (PayloadResolves(c.deltaIndex, "delta"))'
                           /\ (chunkDeps[c.deltaIndex].base \in FileOnDisk(inputFiles[c.index]))'
  <2> SUFFICES ASSUME c.chunk = "delta"
               PROVE  /\ InputResolves(c)' /\ (PayloadResolves(c.deltaIndex, "delta"))'
                      /\ (chunkDeps[c.deltaIndex].base \in FileOnDisk(inputFiles[c.index]))'
    OBVIOUS
  <2>1. InputResolves(c)' /\ inputFiles'[c.index] = inputFiles[c.index]
    BY <1>2 DEF Resolves
  <2>2. /\ (PayloadResolves(c.deltaIndex, "delta"))'
        /\ chunkDeps'[c.deltaIndex] = chunkDeps[c.deltaIndex]
    BY DEF Resolves, PayloadResolves, Extends
  <2>3. chunkDeps[c.deltaIndex].base \in FileOnDisk(inputFiles[c.index])
    BY DEF Resolves
  <2> QED BY <1>1, <2>1, <2>2, <2>3 DEF FileOnDisk, OnDisk, FileRow
<1> QED BY <1>2, <1>3, <1>4 DEF Resolves

(* A range of the file just added, or found, in the trailer's files. *)
LEMMA NewInputResolves ==
  ASSUME InputsInv, ListsInv, UNCHANGED inputVars, NEW f \in LocalFiles,
         inputFiles' = AppendNew(inputFiles, f),
         NEW c, c.index = IndexIn(inputFiles', f),
         EntryOf(f).type = "regular" =>
           /\ c.offset + c.size <= Len(ContentOf(f))
           /\ c.digest = ReadAt(ContentOf(f), c.offset, c.size)
  PROVE  InputResolves(c)' /\ inputFiles'[c.index] = f
<1>1. c.index \in DOMAIN inputFiles' /\ inputFiles'[c.index] = f
  BY AppendNewIs DEF ListsInv
<1>2. UNCHANGED <<indexed, local>> /\ f[1] \in local
  BY LocalFileIs DEF inputVars
<1> QED BY <1>1, <1>2 DEF InputResolves, EntryOf, ContentOf

(* What is written grows by what a step adds to it. *)
FilesSent ==
  UNION {ToSet(archive[i].files) : i \in {j \in DOMAIN archive : archive[j].msg = "nar"}}

ChunksOf(S) == UNION {ToSet(file.chunks) : file \in {g \in S : g.type = "regular"}}

(* What has been written is what has been sent and what is at hand. *)
LEMMA WrittenIs ==
  FilesWritten = FilesSent \cup ToSet(files) /\ ChunksWritten = ChunksOf(FilesWritten) \cup ToSet(descs)
BY DEF FilesWritten, ChunksWritten, FilesSent, ChunksOf

(* One more file adds its chunks, if it is a regular one. *)
LEMMA ChunksOfMore ==
  ASSUME NEW S, NEW file
  PROVE  /\ file.type # "regular" => ChunksOf(S \cup {file}) = ChunksOf(S)
         /\ file.type = "regular" => ChunksOf(S \cup {file}) = ChunksOf(S) \cup ToSet(file.chunks)
BY DEF ChunksOf

(* A file added to the NAR being written is written. *)
LEMMA FilesGrow ==
  ASSUME UNCHANGED archive, IsSeq(files), NEW file, files' = Append(files, file)
  PROVE  FilesWritten' = FilesWritten \cup {file}
<1>1. ToSet(files') = ToSet(files) \cup {file}
  BY AppendIs
<1> QED BY <1>1 DEF FilesWritten

(* Files are written into the NAR or sent with it, and nowhere else. *)
LEMMA SameWritten ==
  ASSUME UNCHANGED <<archive, files>>
  PROVE  FilesWritten' = FilesWritten
BY DEF FilesWritten

(* A message that is no NAR adds nothing to the files, and a NAR what was  *)
(* in files until then.                                                    *)
LEMMA SentGrows ==
  ASSUME IsSeq(archive), NEW m, archive' = Append(archive, m)
  PROVE  /\ m.msg # "nar" => FilesSent' = FilesSent
         /\ m.msg = "nar" => FilesSent' = FilesSent \cup ToSet(m.files)
<1>1. /\ DOMAIN archive = 1..Len(archive) /\ Len(archive) \in Nat
      /\ DOMAIN archive' = 1..Len(archive) + 1 /\ archive'[Len(archive) + 1] = m
      /\ \A i \in DOMAIN archive : archive'[i] = archive[i]
  BY SeqIs, AppendIs DEF Extends
<1>2. CASE m.msg # "nar"
  <2>1. {j \in DOMAIN archive' : archive'[j].msg = "nar"}
          = {j \in DOMAIN archive : archive[j].msg = "nar"}
    BY <1>1, <1>2
  <2> QED BY <1>1, <1>2, <2>1 DEF FilesSent
<1>3. CASE m.msg = "nar"
  <2>1. {j \in DOMAIN archive' : archive'[j].msg = "nar"}
          = {j \in DOMAIN archive : archive[j].msg = "nar"} \cup {Len(archive) + 1}
    BY <1>1, <1>3
  <2> QED BY <1>1, <1>3, <2>1 DEF FilesSent
<1> QED BY <1>2, <1>3

-----------------------------------------------------------------------------
(* What a step keeps, by what it adds. *)

(* What the host has does not change. *)
LEMMA HostSame ==
  ASSUME InputsInv, UNCHANGED inputVars
  PROVE  /\ InputsInv' /\ LocalFiles' = LocalFiles
         /\ \A hash : (LocalChunksByHash(hash))' = LocalChunksByHash(hash)
<1>1. UNCHANGED <<indexed, db, local, new>>
  BY DEF inputVars
<1>2. LocalFiles' = LocalFiles
  BY <1>1 DEF LocalFiles
<1> QED BY <1>1, <1>2 DEF InputsInv, LocalChunksByHash, FileRow

(* The descriptors written are good when those added are. *)
LEMMA ReferencesKept ==
  ASSUME PackInv, UNCHANGED inputVars, phase # "failed",
         Extends(inputFiles, inputFiles'), Extends(chunkDeps, chunkDeps'),
         NEW N, ChunksWritten' \subseteq ChunksWritten \cup N, \A c \in N : Resolves(c)'
  PROVE  ReferencesResolve'
<1>1. \A c \in ChunksWritten : Resolves(c)
  BY DEF PackInv, ReferencesResolve
<1>2. \A c \in ChunksWritten : Resolves(c)'
  BY <1>1, StillResolves
<1> QED BY <1>2 DEF ReferencesResolve

(* The payloads stay those used when nothing is added to them, and only    *)
(* ranges of inputs to what is written.                                    *)
LEMMA PayloadsKept ==
  ASSUME PackInv, UNCHANGED <<inputVars, chunkDeps>>, phase # "failed",
         NEW N, ChunksWritten' = ChunksWritten \cup N, \A c \in N : c.chunk = "fd"
  PROVE  PayloadsInv'
<1>1. PayloadsUsed' = PayloadsUsed
  BY DEF PayloadsUsed
<1>2. PayloadsInv /\ InputsInv
  BY DEF PackInv
<1>3. \A hash : (PayloadsOf(hash))' = PayloadsOf(hash)
  BY DEF PayloadsOf
<1>4. \A hash : (LocalChunksByHash(hash))' = LocalChunksByHash(hash)
  BY <1>2, HostSame
<1>5. \A i \in DOMAIN chunkDeps' : chunkDeps'[i].kind = "chunk" =>
         /\ (LocalChunksByHash(chunkDeps[i].hash))' = {}
         /\ (PayloadsOf(chunkDeps[i].hash))' = {i}
  BY <1>2, <1>3, <1>4 DEF PayloadsInv
<1> QED BY <1>1, <1>2, <1>5 DEF PayloadsInv

(* A step that adds nothing to the lists and to what is written. *)
LEMMA NothingAdded ==
  ASSUME PackInv, UNCHANGED <<inputVars, depVars>>, phase # "failed",
         ChunksWritten' = ChunksWritten
  PROVE  /\ InputsInv' /\ PayloadsInv' /\ ReferencesResolve'
         /\ IsSeq(inputPaths)' /\ IsSeq(inputFiles)' /\ IsSeq(chunkDeps)'
         /\ (ToSet(inputFiles) \subseteq LocalFiles)'
<1>1. UNCHANGED <<inputPaths, inputFiles, chunkDeps>> /\ InputsInv /\ ListsInv
  BY DEF PackInv, depVars
<1>2. Extends(inputFiles, inputFiles') /\ Extends(chunkDeps, chunkDeps')
  BY <1>1, SameIsPrefix DEF ListsInv
<1>3. PICK N : N = {}
  OBVIOUS
<1>4. InputsInv' /\ LocalFiles' = LocalFiles
  BY <1>1, HostSame
<1>5. PayloadsInv'
  <2>1. ChunksWritten' = ChunksWritten \cup N /\ \A c \in N : c.chunk = "fd"
    BY <1>3
  <2> QED BY <1>1, <2>1, PayloadsKept
<1>6. ReferencesResolve'
  <2>1. ChunksWritten' \subseteq ChunksWritten \cup N /\ \A c \in N : Resolves(c)'
    BY <1>3
  <2> QED BY <1>2, <2>1, ReferencesKept
<1> QED BY <1>1, <1>4, <1>5, <1>6 DEF ListsInv

(* A step that takes a file of the host for what it writes. *)
LEMMA InputAdded ==
  ASSUME InputsInv, ListsInv, UNCHANGED inputVars, NEW f \in LocalFiles, AddInputStoreFile(f)
  PROVE  /\ Extends(inputFiles, inputFiles') /\ IsPrefix(inputFiles, inputFiles')
         /\ IsPrefix(inputPaths, inputPaths')
         /\ IsSeq(inputPaths)' /\ IsSeq(inputFiles)'
         /\ (ToSet(inputFiles) \subseteq LocalFiles)'
<1>1. inputFiles' = AppendNew(inputFiles, f) /\ IsSeq(inputFiles) /\ IsSeq(inputPaths)
      /\ (inputPaths' = inputPaths \/ inputPaths' = AppendNew(inputPaths, f[1]))
  BY DEF AddInputStoreFile, ListsInv
<1>2. IsSeq(inputPaths') /\ IsPrefix(inputPaths, inputPaths')
  BY <1>1, AppendNewIs, SameIsPrefix
<1>3. /\ IsSeq(inputFiles') /\ ToSet(inputFiles') = ToSet(inputFiles) \cup {f}
      /\ Extends(inputFiles, inputFiles') /\ IsPrefix(inputFiles, inputFiles')
  BY <1>1, AppendNewIs
<1>4. LocalFiles' = LocalFiles /\ ToSet(inputFiles) \subseteq LocalFiles
  BY HostSame DEF ListsInv
<1> QED BY <1>2, <1>3, <1>4 DEF IsSeq

-----------------------------------------------------------------------------
(* What the steps add to what is written. *)

(* Descriptors are those of the files written and of the one at hand. *)
LEMMA SameChunks ==
  ASSUME FilesWritten' = FilesWritten, ToSet(descs') = ToSet(descs)
  PROVE  ChunksWritten' = ChunksWritten
BY DEF ChunksWritten

(* A message that is no NAR has no descriptors. *)
LEMMA MessageSent ==
  ASSUME IsSeq(archive), NEW m, m.msg # "nar", archive' = Append(archive, m),
         UNCHANGED <<files, descs>>
  PROVE  ChunksWritten' = ChunksWritten /\ IsSeq(archive)'
<1>1. FilesSent' = FilesSent /\ IsSeq(archive')
  BY SentGrows, AppendIs
<1>2. FilesWritten' = FilesWritten
  BY <1>1 DEF FilesWritten, FilesSent
<1> QED BY <1>1, <1>2, SameChunks DEF IsSeq

(* A directory or a link adds no descriptors. *)
LEMMA OtherFileAdded ==
  ASSUME IsSeq(files), NEW file, file.type # "regular", files' = Append(files, file),
         UNCHANGED <<archive, descs>>
  PROVE  ChunksWritten' = ChunksWritten /\ IsSeq(files)'
<1>1. FilesWritten' = FilesWritten \cup {file} /\ IsSeq(files')
  BY FilesGrow, AppendIs
<1> QED BY <1>1 DEF ChunksWritten, IsSeq

(* A regular file adds its descriptors. *)
LEMMA RegularFileAdded ==
  ASSUME IsSeq(files), NEW file, file.type = "regular", files' = Append(files, file),
         UNCHANGED <<archive, descs>>
  PROVE  ChunksWritten' = ChunksWritten \cup ToSet(file.chunks) /\ IsSeq(files)'
<1>1. FilesWritten' = FilesWritten \cup {file} /\ IsSeq(files')
  BY FilesGrow, AppendIs
<1>2. ChunksOf(FilesWritten \cup {file}) = ChunksOf(FilesWritten) \cup ToSet(file.chunks)
  BY ChunksOfMore
<1> QED BY <1>1, <1>2 DEF ChunksWritten, ChunksOf, IsSeq

(* The descriptors of a file become those of its chunks. *)
LEMMA DescribedFileAdded ==
  ASSUME IsSeq(files), NEW file, file.type = "regular", file.chunks = descs,
         files' = Append(files, file), descs' = <<>>, UNCHANGED archive
  PROVE  ChunksWritten' = ChunksWritten /\ IsSeq(files)'
<1>1. FilesWritten' = FilesWritten \cup {file} /\ IsSeq(files')
  BY FilesGrow, AppendIs
<1>2. ChunksOf(FilesWritten \cup {file}) = ChunksOf(FilesWritten) \cup ToSet(file.chunks)
  BY ChunksOfMore
<1>3. ToSet(descs') = {}
  BY EmptyIsSeq
<1> QED BY <1>1, <1>2, <1>3 DEF ChunksWritten, ChunksOf, IsSeq

(* One more chunk of the file at hand is described. *)
LEMMA DescriptorAdded ==
  ASSUME IsSeq(descs), NEW d, descs' = Append(descs, d), UNCHANGED <<archive, files>>
  PROVE  ChunksWritten' = ChunksWritten \cup {d} /\ IsSeq(descs)'
<1>1. FilesWritten' = FilesWritten
  BY SameWritten
<1>2. ToSet(descs') = ToSet(descs) \cup {d} /\ IsSeq(descs')
  BY AppendIs
<1> QED BY <1>1, <1>2 DEF ChunksWritten, IsSeq

-----------------------------------------------------------------------------
(* The messages. *)

(* The matches stay matches while the host stays the same. *)
LEMMA ChunksSame ==
  ASSUME InputsInv, ChunksInv, UNCHANGED <<inputVars, fileVars>>
  PROVE  ChunksInv'
<1>1. UNCHANGED <<chunks, ref, todo, paid>>
  BY DEF fileVars
<1>2. LocalFiles' = LocalFiles /\ \A hash : (LocalChunksByHash(hash))' = LocalChunksByHash(hash)
  BY HostSame
<1>3. \A k \in DOMAIN chunks' :
        /\ chunks'[k].match \subseteq (LocalChunksByHash(chunks[k].hash))'
        /\ chunks'[k].match = {} => (LocalChunksByHash(chunks[k].hash))' = {}
  BY <1>1, <1>2 DEF ChunksInv
<1> QED BY <1>1, <1>2, <1>3 DEF ChunksInv

(* The number of store paths to send. *)
LEMMA LengthOfNew == InputsInv => Len(new) \in Nat
BY DEF InputsInv

(* Headers, payloads and the trailer: the archive grows, and none of what  *)
(* descriptors point at changes.                                           *)
LEMMA MessageKeeps ==
  ASSUME PackInv, SendNarHeader \/ SendChunkHeader \/ SendChunk \/ SendTrailer
  PROVE  PackInv'
<1>1. /\ InputsInv /\ ListsInv /\ PhaseInv /\ ChunksInv
      /\ UNCHANGED <<inputVars, np, nf, narVars, fileVars, depVars>>
  BY DEF PackInv, SendNarHeader, SendChunkHeader, SendChunk, SendTrailer
<1>2. /\ phase \in {"start", "nars", "payloads"} /\ phase' \in {"nars", "payloads", "done"}
  BY DEF SendNarHeader, SendChunkHeader, SendChunk, SendTrailer
<1>3. PICK m : m.msg # "nar" /\ archive' = Append(archive, m)
  BY DEF SendNarHeader, SendChunkHeader, SendChunk, SendTrailer, StreamHeader, CAChunk, PathTrailer
<1>4. ChunksWritten' = ChunksWritten /\ IsSeq(archive)'
  BY <1>1, <1>3, MessageSent DEF ListsInv, narVars, fileVars
<1>5. /\ InputsInv' /\ PayloadsInv' /\ ReferencesResolve'
      /\ IsSeq(inputPaths)' /\ IsSeq(inputFiles)' /\ IsSeq(chunkDeps)'
      /\ (ToSet(inputFiles) \subseteq LocalFiles)'
  BY <1>1, <1>2, <1>4, NothingAdded
<1>6. ListsInv'
  BY <1>1, <1>4, <1>5 DEF ListsInv, narVars, fileVars, IsSeq
<1>7. PhaseInv'
  BY <1>1, <1>2 DEF PhaseInv, inputVars, narVars, fileVars
<1>8. ChunksInv'
  BY <1>1, ChunksSame
<1> QED BY <1>5, <1>6, <1>7, <1>8 DEF PackInv

(* Sending a NAR moves its files from the one at hand to those sent. *)
LEMMA EndNarKeeps ==
  ASSUME PackInv, EndNar
  PROVE  PackInv'
<1>1. /\ InputsInv /\ ListsInv /\ PhaseInv /\ ChunksInv
      /\ UNCHANGED <<inputVars, nf, fileVars, depVars>>
      /\ phase = "files" /\ phase' = "nars" /\ np' = np + 1 /\ files' = <<>>
  BY DEF PackInv, EndNar
<1>2. archive' = Append(archive, NAR(new[np], files))
  BY DEF EndNar
<1>3. FilesSent' = FilesSent \cup ToSet(files) /\ IsSeq(archive')
  BY <1>1, <1>2, SentGrows, AppendIs DEF NAR, ListsInv
<1>4. ChunksWritten' = ChunksWritten
  <2>1. FilesWritten' = FilesWritten
    BY <1>1, <1>3, EmptyIsSeq DEF FilesWritten, FilesSent
  <2> QED BY <1>1, <2>1, SameChunks DEF fileVars
<1>5. /\ InputsInv' /\ PayloadsInv' /\ ReferencesResolve'
      /\ IsSeq(inputPaths)' /\ IsSeq(inputFiles)' /\ IsSeq(chunkDeps)'
      /\ (ToSet(inputFiles) \subseteq LocalFiles)'
  BY <1>1, <1>4, NothingAdded
<1>6. ListsInv'
  BY <1>1, <1>3, <1>5, EmptyIsSeq DEF ListsInv, fileVars, IsSeq
<1>7. PhaseInv'
  BY <1>1, LengthOfNew DEF PhaseInv, inputVars, fileVars
<1>8. ChunksInv'
  BY <1>1, ChunksSame
<1> QED BY <1>5, <1>6, <1>7, <1>8 DEF PackInv

(* A step from one file or store path to the next. *)
LEMMA NextKeeps ==
  ASSUME PackInv, BeginNar \/ SkipFile
  PROVE  PackInv'
<1>1. /\ InputsInv /\ ListsInv /\ PhaseInv /\ ChunksInv
      /\ UNCHANGED <<archive, inputVars, np, narVars, fileVars, depVars>>
  BY DEF PackInv, BeginNar, SkipFile
<1>2. /\ phase \in {"nars", "files"} /\ phase' = "files"
  BY DEF BeginNar, SkipFile
<1>3. ChunksWritten' = ChunksWritten
  BY <1>1, SameWritten, SameChunks DEF narVars, fileVars
<1>4. /\ InputsInv' /\ PayloadsInv' /\ ReferencesResolve'
      /\ IsSeq(inputPaths)' /\ IsSeq(inputFiles)' /\ IsSeq(chunkDeps)'
      /\ (ToSet(inputFiles) \subseteq LocalFiles)'
  BY <1>1, <1>2, <1>3, NothingAdded
<1>5. ListsInv'
  BY <1>1, <1>4 DEF ListsInv, narVars, fileVars, IsSeq
<1>6. PhaseInv'
  <2>1. UNCHANGED rows
    BY <1>1 DEF rows, inputVars
  <2>2. np <= Len(new) /\ np \in 1..Len(new) + 1
    BY <1>1 DEF PhaseInv, BeginNar, SkipFile
  <2>3. new[np] \in StorePath
    BY <1>1, <2>2 DEF InputsInv
  <2>4. Len(rows) \in Nat
    BY <1>1, <2>3, RowsIs DEF rows
  <2> QED BY <1>1, <2>1, <2>2, <2>4 DEF PhaseInv, BeginNar, SkipFile, inputVars, narVars, fileVars
<1>7. ChunksInv'
  BY <1>1, ChunksSame
<1> QED BY <1>4, <1>5, <1>6, <1>7 DEF PackInv

-----------------------------------------------------------------------------
(* The files. *)

(* The number of store files of the path being written. *)
LEMMA RowsLength ==
  ASSUME InputsInv, PhaseInv, phase \in {"files", "reference", "chunks"}
  PROVE  Len(rows) \in Nat
BY RowsIs DEF InputsInv, PhaseInv, rows

(* A file written in one step. *)
LEMMA FilePhase ==
  ASSUME InputsInv, PhaseInv, nf \in 1..Len(rows), phase = "files",
         nf' = nf + 1, UNCHANGED <<inputVars, phase, np, fileVars>>
  PROVE  PhaseInv'
<1>1. Len(rows) \in Nat
  BY RowsLength
<1>2. rows' = rows /\ new' = new
  BY DEF rows, inputVars
<1> QED BY <1>1, <1>2 DEF PhaseInv, fileVars

(* A file is met inside the loop over the files of a path. *)
LEMMA AtFileIs ==
  ASSUME PhaseInv, NEW type, AtFile(type)
  PROVE  nf \in 1..Len(rows) /\ phase = "files"
BY DEF PhaseInv, AtFile

(* Links, and directories the host has not. *)
LEMMA OtherFileKeeps ==
  ASSUME PackInv, PackSymlink \/ PackDirectory
  PROVE  PackInv'
<1>1. /\ InputsInv /\ ListsInv /\ PhaseInv /\ ChunksInv
      /\ UNCHANGED <<archive, inputVars, phase, np, recursiveDir, fileVars, depVars>>
      /\ nf' = nf + 1
  BY DEF PackInv, PackSymlink, PackDirectory, AddFile
<1>2. nf \in 1..Len(rows) /\ phase = "files"
  BY <1>1, AtFileIs DEF PackSymlink, PackDirectory
<1>3. PICK file : file.type # "regular" /\ files' = Append(files, file)
  BY DEF PackSymlink, PackDirectory, AddFile, SymlinkFile, DirectoryFile
<1>4. ChunksWritten' = ChunksWritten /\ IsSeq(files)'
  BY <1>1, <1>3, OtherFileAdded DEF ListsInv, fileVars
<1>5. /\ InputsInv' /\ PayloadsInv' /\ ReferencesResolve'
      /\ IsSeq(inputPaths)' /\ IsSeq(inputFiles)' /\ IsSeq(chunkDeps)'
      /\ (ToSet(inputFiles) \subseteq LocalFiles)'
  BY <1>1, <1>2, <1>4, NothingAdded
<1>6. ListsInv'
  BY <1>1, <1>4, <1>5 DEF ListsInv, fileVars, IsSeq
<1>7. PhaseInv'
  BY <1>1, <1>2, FilePhase
<1>8. ChunksInv'
  BY <1>1, ChunksSame
<1> QED BY <1>5, <1>6, <1>7, <1>8 DEF PackInv

(* A directory the host has: an input is added, and no descriptor. *)
LEMMA MatchedDirectoryKeeps ==
  ASSUME PackInv, NEW f \in LocalFiles, PackMatchedDirectory(f)
  PROVE  PackInv'
<1>1. /\ InputsInv /\ ListsInv /\ PhaseInv /\ ChunksInv
      /\ UNCHANGED <<archive, inputVars, phase, np, fileVars, chunkDeps>>
      /\ nf' = nf + 1 /\ AddInputStoreFile(f)
  BY DEF PackInv, PackMatchedDirectory, AddFile
<1>2. nf \in 1..Len(rows) /\ phase = "files"
  BY <1>1, AtFileIs DEF PackMatchedDirectory
<1>3. PICK file : file.type # "regular" /\ files' = Append(files, file)
  BY DEF PackMatchedDirectory, AddFile, DirectoryFile
<1>4. ChunksWritten' = ChunksWritten /\ IsSeq(files)'
  BY <1>1, <1>3, OtherFileAdded DEF ListsInv, fileVars
<1>5. /\ Extends(inputFiles, inputFiles') /\ Extends(chunkDeps, chunkDeps')
      /\ IsSeq(inputPaths)' /\ IsSeq(inputFiles)'
      /\ (ToSet(inputFiles) \subseteq LocalFiles)'
  BY <1>1, InputAdded, SameIsPrefix DEF ListsInv
<1>6. PICK N : N = {}
  OBVIOUS
<1>7. ChunksWritten' = ChunksWritten \cup N
  BY <1>4, <1>6
<1>8. PayloadsInv'
  BY <1>1, <1>2, <1>6, <1>7, PayloadsKept
<1>9. ReferencesResolve'
  BY <1>1, <1>2, <1>5, <1>6, <1>7, ReferencesKept
<1>10. ListsInv'
  BY <1>1, <1>4, <1>5 DEF ListsInv, fileVars, IsSeq
<1>11. InputsInv' /\ PhaseInv' /\ ChunksInv'
  BY <1>1, <1>2, HostSame, FilePhase, ChunksSame
<1> QED BY <1>8, <1>9, <1>10, <1>11 DEF PackInv

(* A file matched in full: its one descriptor covers the input just added. *)
LEMMA MatchedFileKeeps ==
  ASSUME PackInv, NEW f \in LocalFiles, PackMatchedFile(f)
  PROVE  PackInv'
<1>0. PICK d : d = FD(IndexIn(inputFiles', f), FileRow(f).size, 0, FileRow(f).hash)
  OBVIOUS
<1> DEFINE file == RegularFile(row, <<d>>)
<1>1. /\ InputsInv /\ ListsInv /\ PhaseInv /\ ChunksInv
      /\ UNCHANGED <<archive, inputVars, phase, np, fileVars, chunkDeps>>
      /\ nf' = nf + 1 /\ AddInputStoreFile(f) /\ files' = Append(files, file)
  BY <1>0 DEF PackInv, PackMatchedFile, AddFile
<1>2. nf \in 1..Len(rows) /\ phase = "files"
  BY <1>1, AtFileIs DEF PackMatchedFile
<1>3. ChunksWritten' = ChunksWritten \cup {d} /\ IsSeq(files)'
  <2>1. file.type = "regular" /\ ToSet(file.chunks) = {d}
    BY DEF RegularFile, ToSet
  <2> HIDE DEF file
  <2> QED BY <1>1, <2>1, RegularFileAdded DEF ListsInv, fileVars
<1>4. /\ Extends(inputFiles, inputFiles') /\ Extends(chunkDeps, chunkDeps')
      /\ IsSeq(inputPaths)' /\ IsSeq(inputFiles)'
      /\ (ToSet(inputFiles) \subseteq LocalFiles)'
  BY <1>1, InputAdded, SameIsPrefix DEF ListsInv
<1>5. /\ d.chunk = "fd" /\ d.index = IndexIn(inputFiles', f)
      /\ d.size = FileRow(f).size /\ d.offset = 0 /\ d.digest = FileRow(f).hash
  BY <1>0 DEF FD
<1>6. Resolves(d)'
  <2>1. inputFiles' = AppendNew(inputFiles, f)
    BY <1>1 DEF AddInputStoreFile
  <2>2. EntryOf(f).type = "regular" =>
          /\ d.offset + d.size <= Len(ContentOf(f))
          /\ d.digest = ReadAt(ContentOf(f), d.offset, d.size)
    BY <1>1, <1>5, WholeFileIs
  <2>3. InputResolves(d)'
    BY <1>1, <1>5, <2>1, <2>2, NewInputResolves
  <2> QED BY <1>5, <2>3 DEF Resolves
<1>7. PICK N : N = {d}
  OBVIOUS
<1>8. PayloadsInv'
  <2>1. ChunksWritten' = ChunksWritten \cup N /\ \A c \in N : c.chunk = "fd"
    BY <1>3, <1>5, <1>7
  <2> QED BY <1>1, <1>2, <2>1, PayloadsKept
<1>9. ReferencesResolve'
  BY <1>1, <1>2, <1>3, <1>4, <1>6, <1>7, ReferencesKept
<1>10. ListsInv'
  BY <1>1, <1>3, <1>4 DEF ListsInv, fileVars, IsSeq
<1>11. InputsInv' /\ PhaseInv' /\ ChunksInv'
  BY <1>1, <1>2, HostSame, FilePhase, ChunksSame
<1> QED BY <1>8, <1>9, <1>10, <1>11 DEF PackInv

-----------------------------------------------------------------------------
(* The chunks of a file. *)

(* The matches looked up are chunks of the host. *)
LEMMA LookUpChunksKeeps ==
  ASSUME PackInv, LookUpChunks
  PROVE  PackInv'
<1>1. /\ InputsInv /\ ListsInv /\ PhaseInv /\ ChunksInv
      /\ UNCHANGED <<archive, inputVars, np, nf, narVars, ref, todo, paid, descs, depVars>>
      /\ phase' = "reference" /\ chunks' \in MatchedChunks(row.chunks)
  BY DEF PackInv, LookUpChunks
<1>2. nf \in 1..Len(rows) /\ phase = "files"
  BY <1>1, AtFileIs DEF LookUpChunks
<1>3. ChunksWritten' = ChunksWritten
  BY <1>1, SameWritten, SameChunks DEF narVars
<1>4. /\ InputsInv' /\ PayloadsInv' /\ ReferencesResolve'
      /\ IsSeq(inputPaths)' /\ IsSeq(inputFiles)' /\ IsSeq(chunkDeps)'
      /\ (ToSet(inputFiles) \subseteq LocalFiles)'
  BY <1>1, <1>2, <1>3, NothingAdded
<1>5. ListsInv'
  BY <1>1, <1>4 DEF ListsInv, narVars, IsSeq
<1>6. PhaseInv'
  <2>1. rows' = rows /\ new' = new /\ Len(rows) \in Nat
    BY <1>1, <1>2, RowsLength DEF rows, inputVars
  <2> QED BY <1>1, <1>2, <2>1 DEF PhaseInv, narVars
<1>7. \A k \in DOMAIN chunks' :
        /\ chunks'[k].match \subseteq LocalChunksByHash(chunks'[k].hash)
        /\ chunks'[k].match = {} => LocalChunksByHash(chunks'[k].hash) = {}
  <2>1. PICK m : /\ \A k \in DOMAIN row.chunks : m[k] \in MatchesOf(row.chunks[k])
                 /\ chunks' = [k \in DOMAIN row.chunks |->
                       [hash |-> row.chunks[k].hash, size |-> row.chunks[k].size,
                        offset |-> row.chunks[k].offset, match |-> m[k]]]
    BY <1>1 DEF MatchedChunks
  <2>2. ASSUME NEW k \in DOMAIN chunks'
        PROVE  chunks'[k].match \in MatchesOf(row.chunks[k])
               /\ chunks'[k].hash = row.chunks[k].hash
    BY <2>1, <2>2
  <2>3. ASSUME NEW c, NEW match \in MatchesOf(c)
        PROVE  /\ match \subseteq LocalChunksByHash(c.hash)
               /\ match = {} => LocalChunksByHash(c.hash) = {}
    BY <2>3 DEF MatchesOf
  <2> QED BY <2>2, <2>3
<1>8. ChunksInv'
  <2>1. LocalFiles' = LocalFiles /\ \A hash : (LocalChunksByHash(hash))' = LocalChunksByHash(hash)
    BY <1>1, HostSame
  <2>2. \A k \in DOMAIN chunks' :
          /\ chunks'[k].match \subseteq (LocalChunksByHash(chunks[k].hash))'
          /\ chunks'[k].match = {} => (LocalChunksByHash(chunks[k].hash))' = {}
    BY <1>7, <2>1 DEF LocalChunksByHash
  <2>3. todo = {} /\ paid = {}
    BY <1>1, <1>2 DEF PhaseInv
  <2>4. Len(chunks') \in Nat /\ DOMAIN chunks' = 1..Len(chunks')
    <3>1. PICK n \in Nat : DOMAIN row.chunks = 1..n
      BY <1>1, <1>2, RowIs DEF InputsInv, PhaseInv, row, rows
    <3>2. PICK e : chunks' = [k \in 1..n |-> e[k]]
      BY <1>1, <3>1 DEF MatchedChunks
    <3> QED BY <3>2
  <2> QED BY <1>1, <2>1, <2>2, <2>3, <2>4 DEF ChunksInv
<1> QED BY <1>4, <1>5, <1>6, <1>8 DEF PackInv

(* The reference is a file of the host. *)
LEMMA ChooseReferenceKeeps ==
  ASSUME PackInv, ChooseReference
  PROVE  PackInv'
<1>1. /\ InputsInv /\ ListsInv /\ PhaseInv /\ ChunksInv
      /\ UNCHANGED <<archive, inputVars, np, nf, narVars, chunks, depVars>>
      /\ phase = "reference" /\ phase' = "chunks" /\ paid' = {} /\ descs' = <<>>
  BY DEF PackInv, ChooseReference
<1>2. ChunksWritten' = ChunksWritten
  BY <1>1, SameWritten, SameChunks DEF narVars, PhaseInv
<1>3. /\ InputsInv' /\ PayloadsInv' /\ ReferencesResolve'
      /\ IsSeq(inputPaths)' /\ IsSeq(inputFiles)' /\ IsSeq(chunkDeps)'
      /\ (ToSet(inputFiles) \subseteq LocalFiles)'
  BY <1>1, <1>2, NothingAdded
<1>4. ListsInv'
  BY <1>1, <1>3, EmptyIsSeq DEF ListsInv, narVars, IsSeq
<1>5. PhaseInv'
  <2>1. rows' = rows /\ new' = new
    BY <1>1 DEF rows, inputVars
  <2> QED BY <1>1, <2>1 DEF PhaseInv, narVars
<1>6. ref' \subseteq LocalFiles /\ todo' \subseteq DOMAIN chunks
  BY DEF ChooseReference, MostPopular
<1>7. ChunksInv'
  <2>1. LocalFiles' = LocalFiles /\ \A hash : (LocalChunksByHash(hash))' = LocalChunksByHash(hash)
    BY <1>1, HostSame
  <2>2. \A k \in DOMAIN chunks' :
          /\ chunks'[k].match \subseteq (LocalChunksByHash(chunks[k].hash))'
          /\ chunks'[k].match = {} => (LocalChunksByHash(chunks[k].hash))' = {}
    BY <1>1, <2>1 DEF ChunksInv
  <2> QED BY <1>1, <1>6, <2>1, <2>2 DEF ChunksInv
<1> QED BY <1>3, <1>4, <1>5, <1>7 DEF PackInv

(* A worker ends: nothing is written. *)
LEMMA ComputeDeltaKeeps ==
  ASSUME PackInv, NEW k \in todo, ComputeDelta(k)
  PROVE  PackInv'
<1>1. /\ InputsInv /\ ListsInv /\ PhaseInv /\ ChunksInv
      /\ UNCHANGED <<archive, inputVars, phase, np, nf, narVars, chunks, ref, descs, depVars>>
      /\ phase = "chunks" /\ todo' \subseteq todo /\ paid' \subseteq paid \cup {k}
  BY DEF PackInv, ComputeDelta
<1>2. ChunksWritten' = ChunksWritten
  BY <1>1, SameWritten, SameChunks DEF narVars
<1>3. /\ InputsInv' /\ PayloadsInv' /\ ReferencesResolve'
      /\ IsSeq(inputPaths)' /\ IsSeq(inputFiles)' /\ IsSeq(chunkDeps)'
      /\ (ToSet(inputFiles) \subseteq LocalFiles)'
  BY <1>1, <1>2, NothingAdded
<1>4. ListsInv'
  BY <1>1, <1>3 DEF ListsInv, narVars, IsSeq
<1>5. PhaseInv'
  <2>1. rows' = rows /\ new' = new
    BY <1>1 DEF rows, inputVars
  <2> QED BY <1>1, <2>1 DEF PhaseInv, narVars
<1>6. ChunksInv'
  <2>1. LocalFiles' = LocalFiles /\ \A hash : (LocalChunksByHash(hash))' = LocalChunksByHash(hash)
    BY <1>1, HostSame
  <2>2. \A j \in DOMAIN chunks' :
          /\ chunks'[j].match \subseteq (LocalChunksByHash(chunks[j].hash))'
          /\ chunks'[j].match = {} => (LocalChunksByHash(chunks[j].hash))' = {}
    BY <1>1, <2>1 DEF ChunksInv
  <2> QED BY <1>1, <2>1, <2>2 DEF ChunksInv
<1> QED BY <1>3, <1>4, <1>5, <1>6 DEF PackInv

-----------------------------------------------------------------------------
(* The descriptors of the chunks. *)

(* Describing a chunk moves no loop. *)
LEMMA DescribePhase ==
  ASSUME PhaseInv, phase = "chunks",
         UNCHANGED <<inputVars, phase, np, nf, narVars, chunks, ref, todo, paid>>
  PROVE  PhaseInv'
<1>1. rows' = rows /\ new' = new
  BY DEF rows, inputVars
<1> QED BY <1>1 DEF PhaseInv, narVars

(* Describing a chunk changes no match. *)
LEMMA DescribeChunks ==
  ASSUME InputsInv, ChunksInv, UNCHANGED <<inputVars, chunks, ref, todo, paid>>
  PROVE  ChunksInv'
<1>1. LocalFiles' = LocalFiles /\ \A hash : (LocalChunksByHash(hash))' = LocalChunksByHash(hash)
  BY HostSame
<1>2. \A k \in DOMAIN chunks' :
        /\ chunks'[k].match \subseteq (LocalChunksByHash(chunks[k].hash))'
        /\ chunks'[k].match = {} => (LocalChunksByHash(chunks[k].hash))' = {}
  BY <1>1 DEF ChunksInv
<1> QED BY <1>1, <1>2 DEF ChunksInv

(* The chunk to be described is one of the file. *)
LEMMA AtChunkIs ==
  ASSUME ListsInv, ChunksInv, AtChunk(Len(descs) + 1)
  PROVE  Len(descs) + 1 \in DOMAIN chunks
BY SeqIs DEF AtChunk, ListsInv, ChunksInv

(* The descriptor of a matched chunk points into the input just added. *)
LEMMA DescribeMatchedChunkKeeps ==
  ASSUME PackInv, DescribeMatchedChunk
  PROVE  PackInv'
<1>1. /\ InputsInv /\ ListsInv /\ PhaseInv /\ ChunksInv /\ phase = "chunks"
      /\ UNCHANGED <<archive, inputVars, phase, np, nf, narVars, chunks, ref, todo, paid,
                      chunkDeps>>
  BY DEF PackInv, DescribeMatchedChunk, AtChunk
<1>2. PICK c, m, d :
        /\ c = chunks[Len(descs) + 1] /\ m \in c.match /\ AddInputStoreFile(m.file)
        /\ d = FD(IndexIn(inputFiles', m.file), m.size, m.offset, c.hash)
        /\ descs' = Append(descs, d) /\ Len(descs) + 1 \in DOMAIN chunks
  <2>1. AtChunk(Len(descs) + 1) /\ Len(descs) + 1 \in DOMAIN chunks
    BY <1>1, AtChunkIs DEF DescribeMatchedChunk
  <2>2. PICK m \in chunks[Len(descs) + 1].match :
          /\ AddInputStoreFile(m.file)
          /\ descs' = Append(descs, FD(IndexIn(inputFiles', m.file), m.size, m.offset,
                                       chunks[Len(descs) + 1].hash))
    BY DEF DescribeMatchedChunk
  <2> QED BY <2>1, <2>2
<1>3. m \in LocalChunksByHash(c.hash)
  BY <1>1, <1>2 DEF ChunksInv
<1>4. /\ m.file \in LocalFiles /\ m.offset + m.size <= Len(ContentOf(m.file))
      /\ c.hash = ReadAt(ContentOf(m.file), m.offset, m.size)
  BY <1>1, <1>3, LocalChunkIs
<1>5. ChunksWritten' = ChunksWritten \cup {d} /\ IsSeq(descs)'
  BY <1>1, <1>2, DescriptorAdded DEF ListsInv, narVars
<1>6. /\ Extends(inputFiles, inputFiles') /\ Extends(chunkDeps, chunkDeps')
      /\ IsSeq(inputPaths)' /\ IsSeq(inputFiles)'
      /\ (ToSet(inputFiles) \subseteq LocalFiles)'
  BY <1>1, <1>2, <1>4, InputAdded, SameIsPrefix DEF ListsInv
<1>7. /\ d.chunk = "fd" /\ d.index = IndexIn(inputFiles', m.file)
      /\ d.size = m.size /\ d.offset = m.offset /\ d.digest = c.hash
  BY <1>2 DEF FD
<1>8. Resolves(d)'
  <2>1. inputFiles' = AppendNew(inputFiles, m.file)
    BY <1>2 DEF AddInputStoreFile
  <2>2. InputResolves(d)'
    <3>1. d.offset + d.size <= Len(ContentOf(m.file))
          /\ d.digest = ReadAt(ContentOf(m.file), d.offset, d.size)
      BY <1>4, <1>7
    <3> QED BY <1>1, <1>4, <1>7, <2>1, <3>1, NewInputResolves
  <2> QED BY <1>7, <2>2 DEF Resolves
<1>9. PICK N : N = {d}
  OBVIOUS
<1>10. PayloadsInv'
  <2>1. ChunksWritten' = ChunksWritten \cup N /\ \A x \in N : x.chunk = "fd"
    BY <1>5, <1>7, <1>9
  <2> QED BY <1>1, <2>1, PayloadsKept
<1>11. ReferencesResolve'
  BY <1>1, <1>5, <1>6, <1>8, <1>9, ReferencesKept
<1>12. ListsInv'
  BY <1>1, <1>5, <1>6 DEF ListsInv, narVars, IsSeq
<1>13. InputsInv' /\ PhaseInv' /\ ChunksInv'
  BY <1>1, HostSame, DescribePhase, DescribeChunks
<1> QED BY <1>10, <1>11, <1>12, <1>13 DEF PackInv

(* The descriptor of a delta points at the payload just added, and at the  *)
(* reference it was computed from.                                         *)
LEMMA DescribeDeltaKeeps ==
  ASSUME PackInv, DescribeDelta
  PROVE  PackInv'
<1>1. /\ InputsInv /\ ListsInv /\ PhaseInv /\ ChunksInv /\ PayloadsInv /\ phase = "chunks"
      /\ UNCHANGED <<archive, inputVars, phase, np, nf, narVars, chunks, ref, todo, paid>>
  BY DEF PackInv, DescribeDelta, AtChunk
<1>2. PICK c, f, base, result, p, d :
        /\ f \in ref /\ base \in FileOnDisk(f) /\ AddInputStoreFile(f)
        /\ p = DeltaPayload(base, result)
        /\ d = Delta(IndexIn(inputFiles', f), FileRow(f).size, 0, FileRow(f).hash,
                     Len(chunkDeps'), c.size)
        /\ chunkDeps' = Append(chunkDeps, p) /\ descs' = Append(descs, d)
  BY DEF DescribeDelta
<1>3. p.kind = "delta" /\ p.base \in FileOnDisk(f) /\ f \in LocalFiles
  BY <1>1, <1>2 DEF DeltaPayload, ChunksInv
<1>4. /\ d.chunk = "delta" /\ d.index = IndexIn(inputFiles', f) /\ d.size = FileRow(f).size
      /\ d.offset = 0 /\ d.digest = FileRow(f).hash /\ d.deltaIndex = Len(chunkDeps')
  BY <1>2 DEF Delta
<1>5. ChunksWritten' = ChunksWritten \cup {d} /\ IsSeq(descs)'
  BY <1>1, <1>2, DescriptorAdded DEF ListsInv, narVars
<1>6. /\ Extends(inputFiles, inputFiles')
      /\ IsSeq(inputPaths)' /\ IsSeq(inputFiles)'
      /\ (ToSet(inputFiles) \subseteq LocalFiles)'
  BY <1>1, <1>2, <1>3, InputAdded
<1>7. /\ Extends(chunkDeps, chunkDeps') /\ IsSeq(chunkDeps) /\ IsSeq(chunkDeps')
      /\ Len(chunkDeps) \in Nat /\ DOMAIN chunkDeps = 1..Len(chunkDeps)
      /\ Len(chunkDeps') = Len(chunkDeps) + 1 /\ DOMAIN chunkDeps' = 1..Len(chunkDeps) + 1
      /\ chunkDeps'[Len(chunkDeps) + 1] = p
  BY <1>1, <1>2, AppendIs, SeqIs DEF ListsInv
<1>8. Resolves(d)'
  <2>1. inputFiles' = AppendNew(inputFiles, f)
    BY <1>2 DEF AddInputStoreFile
  <2>2. InputResolves(d)' /\ inputFiles'[d.index] = f
    <3>1. EntryOf(f).type = "regular" =>
            /\ d.offset + d.size <= Len(ContentOf(f))
            /\ d.digest = ReadAt(ContentOf(f), d.offset, d.size)
      BY <1>1, <1>3, <1>4, WholeFileIs
    <3> QED BY <1>1, <1>3, <1>4, <2>1, <3>1, NewInputResolves
  <2>3. (PayloadResolves(d.deltaIndex, "delta"))'
    BY <1>3, <1>4, <1>7 DEF PayloadResolves
  <2>4. (chunkDeps[d.deltaIndex].base \in FileOnDisk(inputFiles[d.index]))'
    <3>1. FileOnDisk(f)' = FileOnDisk(f)
      BY <1>1 DEF inputVars, FileOnDisk, OnDisk, FileRow
    <3> QED BY <1>3, <1>4, <1>7, <2>2, <3>1 DEF FileOnDisk, OnDisk, FileRow
  <2> QED BY <1>4, <2>2, <2>3, <2>4 DEF Resolves
<1>9. PICK N : N = {d}
  OBVIOUS
<1>10. PayloadsInv'
  <2>1. PayloadsUsed' = DOMAIN chunkDeps'
    <3>1. PayloadsUsed' = PayloadsUsed \cup {d.deltaIndex}
      BY <1>4, <1>5 DEF PayloadsUsed
    <3> QED BY <1>1, <1>4, <1>7, <3>1 DEF PayloadsInv
  <2>2. \A hash : (PayloadsOf(hash))' = PayloadsOf(hash)
    BY <1>3, <1>7 DEF PayloadsOf, Extends
  <2>3. \A hash : (LocalChunksByHash(hash))' = LocalChunksByHash(hash)
    BY <1>1, HostSame
  <2>4. \A i \in DOMAIN chunkDeps' : chunkDeps'[i].kind = "chunk" =>
           i \in DOMAIN chunkDeps /\ chunkDeps'[i] = chunkDeps[i]
    BY <1>3, <1>7 DEF Extends
  <2>5. \A i \in DOMAIN chunkDeps' : chunkDeps'[i].kind = "chunk" =>
           /\ LocalChunksByHash(chunkDeps'[i].hash) = {}
           /\ PayloadsOf(chunkDeps'[i].hash) = {i}
    BY <1>1, <2>4 DEF PayloadsInv
  <2>6. (\A i \in DOMAIN chunkDeps : chunkDeps[i].kind = "chunk" =>
           /\ LocalChunksByHash(chunkDeps[i].hash) = {}
           /\ PayloadsOf(chunkDeps[i].hash) = {i})'
    BY <2>2, <2>3, <2>5 DEF LocalChunksByHash, PayloadsOf
  <2> QED BY <2>1, <2>6 DEF PayloadsInv
<1>11. ReferencesResolve'
  BY <1>1, <1>5, <1>6, <1>7, <1>8, <1>9, ReferencesKept
<1>12. ListsInv'
  BY <1>1, <1>5, <1>6, <1>7 DEF ListsInv, narVars, IsSeq
<1>13. InputsInv' /\ PhaseInv' /\ ChunksInv'
  BY <1>1, HostSame, DescribePhase, DescribeChunks
<1> QED BY <1>10, <1>11, <1>12, <1>13 DEF PackInv

(* A chunk the host has not: its payload is the one that is there, or the  *)
(* one just added, and there is no other.                                  *)
LEMMA DescribeCAChunkKeeps ==
  ASSUME PackInv, DescribeCAChunk
  PROVE  PackInv'
<1>1. /\ InputsInv /\ ListsInv /\ PhaseInv /\ ChunksInv /\ PayloadsInv /\ phase = "chunks"
      /\ UNCHANGED <<archive, inputVars, phase, np, nf, narVars, chunks, ref, todo, paid,
                      inputPaths, inputFiles>>
  BY DEF PackInv, DescribeCAChunk, AtChunk
<1>2. PICK c, i, d :
        /\ c = chunks[Len(descs) + 1] /\ ~Matched(c) /\ Len(descs) + 1 \in DOMAIN chunks
        /\ AddChunkDep(thisFile, c)
        /\ i \in DOMAIN chunkDeps' /\ chunkDeps'[i].kind = "chunk" /\ chunkDeps'[i].hash = c.hash
        /\ d = CA(i) /\ descs' = Append(descs, d)
  <2>1. AtChunk(Len(descs) + 1) /\ Len(descs) + 1 \in DOMAIN chunks
    BY <1>1, AtChunkIs DEF DescribeCAChunk
  <2> QED BY <2>1 DEF DescribeCAChunk
<1>3. LocalChunksByHash(c.hash) = {}
  BY <1>1, <1>2 DEF ChunksInv, Matched
<1>4. d.chunk = "ca" /\ d.index = i
  BY <1>2 DEF CA
<1>5. ChunksWritten' = ChunksWritten \cup {d} /\ IsSeq(descs)'
  BY <1>1, <1>2, DescriptorAdded DEF ListsInv, narVars
<1>6. LocalFiles' = LocalFiles /\ \A hash : (LocalChunksByHash(hash))' = LocalChunksByHash(hash)
  BY <1>1, HostSame
<1>7. PayloadsUsed' = PayloadsUsed \cup {i}
  BY <1>4, <1>5 DEF PayloadsUsed
<1>8. Extends(inputFiles, inputFiles') /\ Extends(chunkDeps, chunkDeps') /\ IsSeq(chunkDeps)'
      /\ PayloadsInv'
  <2>1. CASE PayloadsOf(c.hash) # {}
    <3>1. chunkDeps' = chunkDeps
      BY <1>2, <2>1 DEF AddChunkDep
    <3>2. PayloadsUsed' = DOMAIN chunkDeps'
      BY <1>1, <1>2, <1>7, <3>1 DEF PayloadsInv
    <3>3. \A hash : (PayloadsOf(hash))' = PayloadsOf(hash)
      BY <3>1 DEF PayloadsOf
    <3>4. (\A j \in DOMAIN chunkDeps : chunkDeps[j].kind = "chunk" =>
             /\ LocalChunksByHash(chunkDeps[j].hash) = {}
             /\ PayloadsOf(chunkDeps[j].hash) = {j})'
      BY <1>1, <1>6, <3>1, <3>3 DEF PayloadsInv, LocalChunksByHash, PayloadsOf
    <3> QED BY <1>1, <3>1, <3>2, <3>4, SameIsPrefix DEF ListsInv, PayloadsInv, IsSeq
  <2>2. CASE PayloadsOf(c.hash) = {}
    <3>1. PICK p : /\ chunkDeps' = Append(chunkDeps, p)
                   /\ p.kind = "chunk" /\ p.hash = c.hash
      BY <1>2, <2>2 DEF AddChunkDep, ChunkPayload
    <3>2. /\ Extends(chunkDeps, chunkDeps') /\ IsSeq(chunkDeps')
          /\ Len(chunkDeps) \in Nat /\ DOMAIN chunkDeps = 1..Len(chunkDeps)
          /\ DOMAIN chunkDeps' = 1..Len(chunkDeps) + 1
          /\ chunkDeps'[Len(chunkDeps) + 1] = p
      BY <1>1, <3>1, AppendIs, SeqIs DEF ListsInv
    <3>3. i = Len(chunkDeps) + 1
      BY <1>2, <2>2, <3>2 DEF PayloadsOf, Extends
    <3>4. PayloadsUsed' = DOMAIN chunkDeps'
      BY <1>1, <1>7, <3>2, <3>3 DEF PayloadsInv
    <3>5. (PayloadsOf(c.hash))' = {i}
      BY <2>2, <3>1, <3>2, <3>3 DEF PayloadsOf, Extends
    <3>6. \A hash : hash # c.hash => (PayloadsOf(hash))' = PayloadsOf(hash)
      BY <3>1, <3>2 DEF PayloadsOf, Extends
    <3>7. ASSUME NEW j \in DOMAIN chunkDeps', chunkDeps'[j].kind = "chunk"
          PROVE  /\ (LocalChunksByHash(chunkDeps[j].hash))' = {}
                 /\ (PayloadsOf(chunkDeps[j].hash))' = {j}
      <4>1. CASE j = i
        <5>1. chunkDeps'[j].hash = c.hash
          BY <3>1, <3>2, <3>3, <4>1
        <5> QED BY <1>3, <1>6, <3>5, <4>1, <5>1 DEF LocalChunksByHash, PayloadsOf
      <4>2. CASE j # i
        <5>1. j \in DOMAIN chunkDeps /\ chunkDeps'[j] = chunkDeps[j]
          BY <3>2, <3>3, <4>2 DEF Extends
        <5>2. /\ LocalChunksByHash(chunkDeps[j].hash) = {}
              /\ PayloadsOf(chunkDeps[j].hash) = {j}
          BY <1>1, <3>7, <5>1 DEF PayloadsInv
        <5>3. chunkDeps[j].hash # c.hash
          BY <2>2, <5>2
        <5> QED BY <1>6, <3>6, <5>1, <5>2, <5>3 DEF LocalChunksByHash, PayloadsOf
      <4> QED BY <4>1, <4>2
    <3> QED BY <1>1, <3>2, <3>4, <3>7, SameIsPrefix DEF ListsInv, PayloadsInv, IsSeq
  <2> QED BY <2>1, <2>2
<1>9. Resolves(d)'
  BY <1>2, <1>4 DEF Resolves, PayloadResolves
<1>10. PICK N : N = {d}
  OBVIOUS
<1>11. ReferencesResolve'
  BY <1>1, <1>5, <1>8, <1>9, <1>10, ReferencesKept
<1>12. ListsInv'
  BY <1>1, <1>5, <1>6, <1>8 DEF ListsInv, narVars, IsSeq
<1>13. InputsInv' /\ PhaseInv' /\ ChunksInv'
  BY <1>1, HostSame, DescribePhase, DescribeChunks
<1> QED BY <1>8, <1>11, <1>12, <1>13 DEF PackInv

(* The descriptors of the file at hand become those of a file written. *)
LEMMA EndFileKeeps ==
  ASSUME PackInv, EndFile
  PROVE  PackInv'
<1>1. /\ InputsInv /\ ListsInv /\ PhaseInv /\ ChunksInv
      /\ UNCHANGED <<archive, inputVars, np, recursiveDir, depVars>>
      /\ phase = "chunks" /\ phase' = "files" /\ nf' = nf + 1
      /\ chunks' = <<>> /\ ref' = {} /\ todo' = {} /\ paid' = {} /\ descs' = <<>>
  BY DEF PackInv, EndFile, AddFile
<1>2. ChunksWritten' = ChunksWritten /\ IsSeq(files)'
  <2>1. PICK file : /\ file.type = "regular" /\ file.chunks = descs
                    /\ files' = Append(files, file)
    BY DEF EndFile, AddFile, RegularFile
  <2> QED BY <1>1, <2>1, DescribedFileAdded DEF ListsInv
<1>3. /\ InputsInv' /\ PayloadsInv' /\ ReferencesResolve'
      /\ IsSeq(inputPaths)' /\ IsSeq(inputFiles)' /\ IsSeq(chunkDeps)'
      /\ (ToSet(inputFiles) \subseteq LocalFiles)'
  BY <1>1, <1>2, NothingAdded
<1>4. ListsInv'
  BY <1>1, <1>2, <1>3, EmptyIsSeq DEF ListsInv, IsSeq
<1>5. PhaseInv'
  <2>1. rows' = rows /\ new' = new /\ Len(rows) \in Nat
    BY <1>1, RowsLength DEF rows, inputVars
  <2> QED BY <1>1, <2>1 DEF PhaseInv
<1>6. ChunksInv'
  <2>1. Len(chunks') = 0 /\ DOMAIN chunks' = {} /\ 1..0 = {}
    BY <1>1, EmptyIsSeq
  <2> QED BY <1>1, <2>1 DEF ChunksInv
<1> QED BY <1>3, <1>4, <1>5, <1>6 DEF PackInv

-----------------------------------------------------------------------------
(* dnar-pack as a whole. *)

(* There is nothing to keep once dnar-pack has failed. *)
LEMMA AbortKeeps ==
  ASSUME PackInv, Abort
  PROVE  PackInv'
<1>1. /\ InputsInv /\ ListsInv /\ PhaseInv /\ ChunksInv
      /\ UNCHANGED <<archive, inputVars>>
      /\ phase' = "failed" /\ np' = 1 /\ nf' = 1 /\ files' = <<>>
      /\ chunks' = <<>> /\ ref' = {} /\ todo' = {} /\ paid' = {} /\ descs' = <<>>
      /\ inputPaths' = <<>> /\ inputFiles' = <<>> /\ chunkDeps' = <<>>
  BY DEF PackInv, Abort
<1>2. Len(<<>>) = 0 /\ DOMAIN <<>> = {} /\ ToSet(<<>>) = {} /\ IsSeq(<<>>) /\ 1..0 = {}
  BY EmptyIsSeq
<1>3. InputsInv'
  BY <1>1, HostSame
<1>4. ListsInv'
  BY <1>1, <1>2 DEF ListsInv, IsSeq
<1>5. PhaseInv'
  BY <1>1, LengthOfNew DEF PhaseInv, inputVars
<1>6. ChunksInv'
  BY <1>1, <1>2 DEF ChunksInv
<1>7. PayloadsInv' /\ ReferencesResolve'
  BY <1>1, <1>2 DEF PayloadsInv, ReferencesResolve
<1> QED BY <1>3, <1>4, <1>5, <1>6, <1>7 DEF PackInv

(* Nothing is written at the start. *)
LEMMA PackInitInv == PackInit => PackInv
<1> SUFFICES ASSUME PackInit PROVE PackInv
  OBVIOUS
<1>1. PICK w \in World : PackInitIn(w)
  BY DEF PackInit
<1>2. w \in [disk: [StorePath -> Tree], indexed: [StorePath -> Tree], local: SUBSET StorePath,
             new: Seq(StorePath), host: [StorePath -> Tree]]
  BY PackAssumption
<1>3. InputsInv
  BY <1>1, <1>2 DEF InputsInv, PackInitIn
<1>4. Len(<<>>) = 0 /\ DOMAIN <<>> = {} /\ ToSet(<<>>) = {} /\ IsSeq(<<>>) /\ 1..0 = {}
  BY EmptyIsSeq
<1>5. /\ archive = <<>> /\ phase = "start" /\ np = 1 /\ nf = 1 /\ files = <<>>
      /\ chunks = <<>> /\ ref = {} /\ todo = {} /\ paid = {} /\ descs = <<>>
      /\ inputPaths = <<>> /\ inputFiles = <<>> /\ chunkDeps = <<>>
  BY <1>1 DEF PackInitIn
<1>6. ListsInv /\ ChunksInv
  BY <1>4, <1>5 DEF ListsInv, ChunksInv
<1>7. PhaseInv
  BY <1>3, <1>5, LengthOfNew DEF PhaseInv
<1>8. ChunksWritten = {}
  BY <1>4, <1>5 DEF ChunksWritten, FilesWritten
<1>9. PayloadsInv /\ ReferencesResolve
  BY <1>4, <1>5, <1>8 DEF PayloadsInv, PayloadsUsed, ReferencesResolve
<1> QED BY <1>3, <1>6, <1>7, <1>9 DEF PackInv

(* A step of another program. *)
LEMMA PackUnchanged ==
  ASSUME PackInv, UNCHANGED packVars
  PROVE  PackInv'
<1>1. /\ InputsInv /\ ListsInv /\ PhaseInv /\ ChunksInv /\ PayloadsInv /\ ReferencesResolve
      /\ UNCHANGED <<archive, inputVars, phase, np, nf, files, fileVars, inputPaths, inputFiles,
                      chunkDeps>>
      /\ UNCHANGED <<disk, indexed, db, local, new, chunks, ref, todo, paid, descs>>
  BY DEF PackInv, packVars, inputVars, narVars, fileVars, depVars
<1>2. /\ InputsInv' /\ LocalFiles' = LocalFiles
      /\ \A hash : (LocalChunksByHash(hash))' = LocalChunksByHash(hash)
  BY <1>1, HostSame
<1>3. ListsInv'
  BY <1>1, <1>2 DEF ListsInv, IsSeq
<1>4. PhaseInv' /\ ChunksInv'
  BY <1>1, ChunksSame DEF PhaseInv, rows
<1>5. ChunksWritten' = ChunksWritten
  BY <1>1, SameWritten, SameChunks
<1>6. PayloadsInv'
  <2>1. PayloadsUsed' = PayloadsUsed /\ \A hash : (PayloadsOf(hash))' = PayloadsOf(hash)
    BY <1>1, <1>5 DEF PayloadsUsed, PayloadsOf
  <2>2. \A i \in DOMAIN chunkDeps' : chunkDeps'[i].kind = "chunk" =>
          /\ (LocalChunksByHash(chunkDeps[i].hash))' = {}
          /\ (PayloadsOf(chunkDeps[i].hash))' = {i}
    BY <1>1, <1>2, <2>1 DEF PayloadsInv
  <2> QED BY <1>1, <2>1, <2>2 DEF PayloadsInv
<1>7. ReferencesResolve'
  <2>1. \A c : Resolves(c) => Resolves(c)'
    BY <1>1, StillResolves, SameIsPrefix DEF ListsInv
  <2> QED BY <1>1, <1>5, <2>1 DEF ReferencesResolve
<1> QED BY <1>2, <1>3, <1>4, <1>6, <1>7 DEF PackInv

(* Every step keeps the invariant. *)
LEMMA PackNextInv == PackInv /\ [PackNext]_packVars => PackInv'
<1> SUFFICES ASSUME PackInv, [PackNext]_packVars PROVE PackInv'
  OBVIOUS
<1>1. CASE SendNarHeader \/ SendChunkHeader \/ SendChunk \/ SendTrailer
  BY <1>1, MessageKeeps
<1>2. CASE BeginNar \/ SkipFile
  BY <1>2, NextKeeps
<1>3. CASE PackSymlink \/ PackDirectory
  BY <1>3, OtherFileKeeps
<1>4. CASE \E f \in LocalFiles : PackMatchedDirectory(f)
  BY <1>4, MatchedDirectoryKeeps
<1>5. CASE \E f \in LocalFiles : PackMatchedFile(f)
  BY <1>5, MatchedFileKeeps
<1>6. CASE LookUpChunks
  BY <1>6, LookUpChunksKeeps
<1>7. CASE ChooseReference
  BY <1>7, ChooseReferenceKeeps
<1>8. CASE \E k \in todo : ComputeDelta(k)
  BY <1>8, ComputeDeltaKeeps
<1>9. CASE DescribeMatchedChunk
  BY <1>9, DescribeMatchedChunkKeeps
<1>10. CASE DescribeDelta
  BY <1>10, DescribeDeltaKeeps
<1>11. CASE DescribeCAChunk
  BY <1>11, DescribeCAChunkKeeps
<1>12. CASE EndFile
  BY <1>12, EndFileKeeps
<1>13. CASE EndNar
  BY <1>13, EndNarKeeps
<1>14. CASE FileUnreadable \/ PackFail
  BY <1>14, AbortKeeps DEF FileUnreadable, PackFail
<1>15. CASE UNCHANGED packVars
  BY <1>15, PackUnchanged
<1> QED
  BY <1>1, <1>2, <1>3, <1>4, <1>5, <1>6, <1>7, <1>8, <1>9, <1>10, <1>11, <1>12, <1>13, <1>14,
     <1>15 DEF PackNext, PackStep

(* The conjunction that every step keeps: the lists are sequences, the     *)
(* phase says which of them the next step may add to, a chunk without a    *)
(* match is one the host has not, every descriptor written resolves, and   *)
(* the payloads are exactly those the descriptors point at (dnar.go:35-90  *)
(* and 156-487).                                                           *)
THEOREM PackInvariant == PackSpec => []PackInv
BY PackInitInv, PackNextInv, PTL DEF PackSpec

(* dnar-pack keeps the types of its state: its position lies in the store  *)
(* paths and their rows, and what it refers to are files of the host.      *)
THEOREM PackTypeCorrect == PackSpec => []PackTypeOK
<1>1. PackInv => PackTypeOK
  BY DEF PackInv, ListsInv, PhaseInv, ChunksInv, PackTypeOK
<1> QED BY PackInvariant, <1>1, PTL

(* Every descriptor written points at bytes of the host that hold what its *)
(* digest says, or at a payload of its kind, whatever the matches chosen.  *)
THEOREM PackReferencesResolve == PackSpec => []ReferencesResolve
<1>1. PackInv => ReferencesResolve
  BY DEF PackInv
<1> QED BY PackInvariant, <1>1, PTL

(* The archive has every payload a file is made of, none twice, none that  *)
(* no file is made of and no chunk that the host has.                      *)
THEOREM PackNothingSentInVain == PackSpec => []NothingSentInVain
<1>1. PackInv => NothingSentInVain
  BY DEF PackInv, PayloadsInv, NothingSentInVain
<1> QED BY PackInvariant, <1>1, PTL

(* No index changes what it stands for: the trailer's two lists, the       *)
(* payloads and the archive keep their beginnings in every step that does  *)
(* not fail (addInputStoreFile, addChunkDep, addDeltaPayload).             *)
THEOREM PackIndexesStable == PackSpec => IndexesStable
<1> DEFINE Stable == /\ IsPrefix(inputFiles, inputFiles') /\ IsPrefix(inputPaths, inputPaths')
                     /\ IsPrefix(chunkDeps, chunkDeps') /\ IsPrefix(archive, archive')
<1>1. ASSUME PackInv, PackNext
      PROVE  phase' # "failed" => Stable
  <2>1. /\ InputsInv
        /\ IsSeq(inputFiles) /\ IsSeq(inputPaths) /\ IsSeq(chunkDeps) /\ IsSeq(archive)
    BY <1>1 DEF PackInv, ListsInv
  <2>2. /\ IsPrefix(inputFiles, inputFiles) /\ IsPrefix(inputPaths, inputPaths)
        /\ IsPrefix(chunkDeps, chunkDeps) /\ IsPrefix(archive, archive)
    BY <2>1, SameIsPrefix
  <2>3. CASE \/ BeginNar \/ SkipFile \/ PackSymlink \/ PackDirectory \/ LookUpChunks
             \/ ChooseReference \/ EndFile \/ \E k \in todo : ComputeDelta(k)
    BY <2>2, <2>3 DEF BeginNar, SkipFile, PackSymlink, PackDirectory, LookUpChunks,
                      ChooseReference, EndFile, ComputeDelta, depVars
  <2>4. CASE SendNarHeader \/ SendChunkHeader \/ SendChunk \/ SendTrailer \/ EndNar
    <3>1. UNCHANGED <<inputFiles, inputPaths, chunkDeps>>
          /\ \E m : archive' = Append(archive, m)
      BY <2>4 DEF SendNarHeader, SendChunkHeader, SendChunk, SendTrailer, EndNar, depVars
    <3> QED BY <2>1, <2>2, <3>1, AppendIs
  <2>5. CASE \E f \in LocalFiles : PackMatchedDirectory(f) \/ PackMatchedFile(f)
    <3>1. PICK f \in LocalFiles : AddInputStoreFile(f)
      BY <2>5 DEF PackMatchedDirectory, PackMatchedFile
    <3>2. UNCHANGED <<archive, chunkDeps>>
      BY <2>5 DEF PackMatchedDirectory, PackMatchedFile
    <3> QED BY <2>1, <2>2, <3>1, <3>2, AppendNewIs DEF AddInputStoreFile
  <2>6. CASE DescribeMatchedChunk
    <3>1. PICK f : AddInputStoreFile(f)
      BY <2>6 DEF DescribeMatchedChunk
    <3>2. UNCHANGED <<archive, chunkDeps>>
      BY <2>6 DEF DescribeMatchedChunk
    <3> QED BY <2>1, <2>2, <3>1, <3>2, AppendNewIs DEF AddInputStoreFile
  <2>7. CASE DescribeDelta
    <3>1. PICK f, p : AddInputStoreFile(f) /\ chunkDeps' = Append(chunkDeps, p)
      BY <2>7 DEF DescribeDelta
    <3>2. UNCHANGED archive
      BY <2>7 DEF DescribeDelta
    <3> QED BY <2>1, <2>2, <3>1, <3>2, AppendNewIs, AppendIs DEF AddInputStoreFile
  <2>8. CASE DescribeCAChunk
    <3>1. UNCHANGED <<archive, inputPaths, inputFiles>>
          /\ (chunkDeps' = chunkDeps \/ \E p : chunkDeps' = Append(chunkDeps, p))
      BY <2>8 DEF DescribeCAChunk, AddChunkDep
    <3> QED BY <2>1, <2>2, <3>1, AppendIs
  <2>9. CASE FileUnreadable \/ PackFail
    BY <2>9 DEF FileUnreadable, PackFail, Abort
  <2> QED
    BY <1>1, <2>3, <2>4, <2>5, <2>6, <2>7, <2>8, <2>9 DEF PackNext, PackStep
<1>2. PackInv /\ [PackNext]_packVars => [phase' # "failed" => Stable]_packVars
  BY <1>1
<1> QED BY PackInvariant, <1>2, PTL DEF PackSpec, IndexesStable

=============================================================================
