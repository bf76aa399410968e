# Specifications of DeltaNAR

DeltaNAR deploys Nix closures over thin links. `dnar-pack` compares the closure
to deploy with what the host already has and writes an archive (a DNAR) of what
is missing; `dnar-unpack` puts the NARs of the missing store paths together
again from the archive and from the host's own store. This directory holds TLA+
modules of the two programs, configurations that check them with TLC on small
stores, and proofs about them that TLAPS checks.

Everything is translated from the Go and SQL code under `src/internal`;
`PROJECT.json` says which lines each definition stands for.

## The system

| Component | State it keeps | Operations | What makes it correct |
|---|---|---|---|
| Store contents, `store/chunk.go` | none, a pure function of a store path | `ReadStorePath` (listing, digests), `ChunkFile` (content-defined chunks) | chunks are contiguous and cover the file; equal digests mean equal contents |
| Index, `dnar-pack/index.go`, `database/` | SQLite: store paths, files, chunks | `indexPaths`: parallel readers, one transaction, rows reused from earlier runs | rows are those of the path as it is on disk, in order |
| Local index, `dnar-pack/localindex.go`, `query.sql` | the host's store paths as a temporary table, a cache of files | find a file, a directory or a chunk of the host by hash | what is found is what was looked for |
| Archive writer `writeDNAR`, `dnar-pack/dnar.go` | the trailer's paths and files, the payloads, the NAR being written, the directory last matched in full | one pass over store paths, their files and their chunks; then the payloads and the trailer | every index written resolves in lists that are complete only later; nothing is sent in vain |
| Deltas, `delta/delta.go` | a hash table of positions of the reference | `NewIndex`, `Diff`, `Patch` | a chunk is restored from the reference; the operations cover it without gap or overlap |
| Reference cache, `dnar-pack/delta.go`, `mmapfile` | the file mapped and indexed last | `get` a reference for the workers | never unmapped under a worker |
| Archive reader, `dnar-unpack/read.go` | the NAR messages, the chunk store, the trailer's files | four readers, one after the other | the archive is read in full or not used |
| Temporary chunk store, `chunk_store/store.go` | a temporary file, the offsets in it, its mapping | add, freeze, read | a chunk read is the chunk added |
| NAR writer `writeNAR`, `dnar-unpack/write.go` | the NAR written so far | regular files by chunk (verbatim, copied, patched), directories (new or copied), links | the NAR is that of the store path at its origin |
| Export, `dnar-unpack/nix-store-export.go` | a buffer before the pipe to `nix-store --import` | NAR, trailer, end of the stream, a deferred flush | the end is written only after all NARs |
| Binary cache, `dnar-unpack/binary-cache.go` | a directory of NARs and narinfos that earlier runs and readers share | write a NAR, then its narinfo, unless it is there | a narinfo stands for a NAR that is there |
| Closures, `store/closure.go`, `gcroots` | none | the store paths of the host and those to send | disjoint, and in order of reference |
| Path info, `dnar-pack/path-info.go` | none | parse three formats of `nix path-info` | references and sizes are those Nix has |

The components meet in four places. `writeDNAR` queries the index for every
file and every chunk. It hands the chunks the host misses to workers, that diff
them against one reference file, and reads their results by chunk. What it has
written reaches `dnar-unpack` as a sequence of messages, through a pipe or a
file: headers with counts, NARs, payloads, and a trailer that the descriptors
in the NARs point into. And `dnar-unpack` reads the store of the host, which
`dnar-pack` knows only from gcroots it keeps and from its index. At both ends
there is something that outlives the programs and that several of them share:
the database of the index, and the directory of a binary cache.

What is hard:

* *Order.* NARs come first and what their indexes point at last. Three lists
  grow while indexes into them are already on the wire.
* *Interleaving.* Writer and reader run at the same time; workers end in any
  order, while indexes are handed out in the order of the chunks; store paths
  are read in parallel; several `dnar-pack` share a database; a binary cache is
  read while it is written.
* *Failure.* Any read, query, write or process may fail between two messages,
  and the other side has only what was written. What is in a buffer is written
  out or lost. A run that was killed leaves files for the next one.
* *Stale or confused state.* What is matched by hash is taken for equal. What
  was indexed is taken for what there is, on the sender and on the host. A
  directory matched in full is remembered as a string.
* *Boundaries.* Empty files, empty directories and links have no chunks or no
  digest; positions are stored as 32-bit integers; the results of three kinds
  of chunk must add up to a size announced earlier.

`PROJECT.json` lists 36 such hazards, each at its line, with the properties that
would catch it; two of them have a reason why none does.

## Modules

| Module | Models | Is built on |
|---|---|---|
| `NixStore` | a store path as a tree, its listing, chunks, digests, index rows and NAR | |
| `Dnar` | the messages of `dnar.proto` and the archive | `NixStore` |
| `Pack` | `writeDNAR` with the queries it makes, on a store that is what was indexed or not | `Dnar` |
| `Unpack` | `dnar-unpack nix-store-export`: readers, chunk store, `writeNAR`, the buffer | `Dnar` |
| `Delivery` | what a deployment promises, whatever it is made of | |
| `Deploy` | `Pack`, `Unpack` and `nix-store --import` joined by pipes, as a refinement of `Delivery` | `Pack`, `Unpack`, `Delivery` |
| `MCDeploy` | the stores TLC deploys | `Deploy` |
| `Delta`, `MCDelta` | `NewIndex`, `Diff` and `Patch`; short references and chunks | |
| `DeltaWorkers`, `MCWorkers` | the reference cache and the workers that read it; three files in a row | |
| `PathInfo` | the probes and the dialects of `nix path-info` | |
| `Catalog` | what an index of store paths is, whoever fills it | |
| `Index`, `MCIndex` | `main` before `writeDNAR`: gcroots, closures, `indexPaths`, path infos, for several `dnar-pack`, as a refinement of `Catalog`; two of them on three paths | `PathInfo`, `Catalog` |
| `ChunkStore` | the temporary chunk store, byte by byte | |
| `Publication` | what a binary cache offers, whatever its files hold | |
| `BinaryCache`, `MCCache` | `dnar-unpack binary-cache`, run after run, and its readers, as a refinement of `Publication`; four archives | `ChunkStore`, `Publication` |
| `Lists` | a list filtered, as a recursive function | |
| `ListFacts` | induction and recursion on numbers, what filtering and joining lists gives | `Lists` |
| `PackProofs`, `DeltaProofs`, `WorkersProofs`, `CacheProofs`, `IndexProofs` | theorems about the modules of that name | `CacheProofs` and `IndexProofs` on `ListFacts` |
| `StreamProofs` | theorems about `Deploy`: the messages and what becomes of them | `PackProofs` |
| `DeliveryProofs` | theorems about `Deploy`: the contents, down to the refinement of `Delivery` | `StreamProofs`, `ListFacts` |

`Deploy` is the composition of the programs. The modules beside it look closer
at what `Pack` and `Unpack` take as one step. `DeltaWorkers` has the cache and
the workers behind `ChooseReference` and `ComputeDelta`; `ChunkStore` has the
file behind the sequence `store`; `Index` makes the `db`, `local` and `new`
that `Pack` begins with.

### From code to model

*Store.* A tree is a sequence of entries in the order in which `ReadStorePath`
lists them (`Listing`): a directory before what it holds, and all it holds
before anything else. Only files have contents, and only links a target. A path is a sequence of names;
the store path itself is the empty one. Strings matter in one place only,
`strings.HasPrefix(path, recursiveDir)`: `StringPrefix` says what it answers,
with `NamePrefix` naming the pairs of names one of which starts the other. A
file is a sequence of blocks, a block being what one chunk holds, and sizes and
offsets count blocks. So the chunker always cuts at the same places, as a
content-defined one does for equal contents. blake3 is injective: a digest *is*
the sequence written to the hasher. That keeps what matters, which is what the
code writes to it: the contents of a file, and the paths and digests of what is
below a directory, without types, modes or the targets of links.

*`Pack`.* A world is what there is to pack and for whom. `disk` is the store,
`indexed` is what each path was when it was indexed, and `host` is the store of
the host, of which `local` names the paths that the gcroots lead to. All three
may differ: rows and digests come from `indexed`, bytes are read from `disk`
and, by `dnar-unpack`, from `host`. A chunk of a file that became too short is
sent as zeros (`BlocksRead`), of one that is gone the read fails
(`FileUnreadable`).

The loops of `writeDNAR` are loops of actions. `phase` is the place
in the code, `np` and `nf` are the loop variables over store paths and their
files, `len(descs)` is the one over chunks.

| Code | Action |
|---|---|
| `getPathInfos`, first header | `SendNarHeader` |
| `continue STOREFILE_LOOP` | `SkipFile` |
| the three cases of `storeFile.Type` | `PackSymlink`; `PackMatchedDirectory`, `PackDirectory`; `PackMatchedFile`, `LookUpChunks` |
| votes, `sizeCap`, opening the reference | `ChooseReference` |
| `eg.Go(func() ...)`, one worker's result | `ComputeDelta` |
| `switch` over the chunk | `DescribeMatchedChunk`, `DescribeDelta`, `DescribeCAChunk` |
| `meta.Chunks`, `MarshalTo(nar)` | `EndFile`, `EndNar` |
| the chunk stream, the trailer | `SendChunkHeader`, `SendChunk`, `SendTrailer` |
| any `return err`, or the process is killed | `PackFail` |

Two choices of the code are nondeterministic here. Which of several equal rows
SQLite returns is one: `LIMIT 1` and `GROUP BY` name no order. Which of the
files with the most votes wins is the other: Go ranges over a map. The delta
of a chunk is smaller than the chunk or not, whatever they hold; that the
protobuf of a delta has a size is all the model forgets of it. Indexes count
from 1; in the archive they count from 0.

*`Unpack`.* `uphase` is the place in `nixStoreExportMain`, `pos` and `want` are
what has been read of the archive and of the current stream, `un`, `uf` and
`uc` are the loops over NARs, files and chunks. A message can be read once it
is written; the end of the archive is seen once the writer has ended
(`ReadEOF`, `ReadTruncated`). `WriteCA`, `WriteFD` and `WriteDelta` are the
three kinds of chunk, `EndRegular` is where go-nix's `nar.Writer` compares what
was written with what the header announced. `CopyDirectory` is the walk over a
directory of the host. `out` is what has been written to the `bufio.Writer` and
`flushed` how much of it is in the pipe: the writer may hand on any part of
what is complete (`FlushFull`), a panic flushes the rest, a kill loses it
(`UnpackFail`). The code panics where the model goes to `error` (the
input cannot be what was expected), `truncated` (a message is missing) or
`failed` (the disk, the pipe or a signal).

*`Deploy`.* `imported` and `import` are `nix-store --import`, which is external:
it takes a store path once its NAR and trailer have come, and ends when it reads
the end of the stream or when the pipe is closed without one. The export format
carries no hash of a NAR, so that it takes what it gets.

*`Index`.* `pc` is the place of each `dnar-pack` in `main`. SQLite's deferred
transactions, in its default journal mode, are three rules: a transaction shares
the database from its first query on (`Shares`), one of them at a time may have
written (`reserved`), and it commits when no other one shares (`Commit`).
Whoever lacks a lock fails, now or after a timeout (`Busy`). `missing`,
`started`, `running` and `files` are `newRequisities`, the goroutines of the
`errgroup` and `storeFiles`. `ChangeStore` rebuilds or collects a path at any
time. nix-store and nix are external: their answers are about the store as it
is. `PathInfo` has the output of four dialects, as a map or an array with
references as paths or base names, and `parsePathInfos` on each, whichever
format the probes settled for.

*`BinaryCache`.* `nar` and `info` are the files of the directory, and stay when
a run stops. `os.Create` cuts a file to nothing (`CreateNAR`, `CreateNARInfo`);
a NAR is then written in pieces and a narinfo in lines, and a run may stop after
each. `ReadInfo` and `TakeNar` are somebody else copying from the cache: nix
takes a narinfo that has a path, a URL, a hash and a size, and then a NAR with
that hash and size.

*`DeltaWorkers`.* A mapping is a number and a file. `refIndexCache.get` is two
steps, `mmapfile.Open` (`OpenReference`) and `c.close()` (`ReplaceReference`).
`reading` and `diffing` are the goroutines, and `Wait` is `eg.Wait()`.

*`Delta`.* Each turn of the loops of `NewIndex`, `Diff`, `matchLen` and `Patch`
is a step. `head` is the hash table, `Hash` any function to buckets, `Int32`
the conversion `int32(i + 1)` at a width `Bits`. `reach` is a history variable:
how much of the chunk the first n operations cover. Patching with `peer`, which
need not be the reference, covers `Patch`'s errors.

The operators marked "Faulty" are plausible mistakes in the definition below
them. Nothing uses them: they are there so that `PROJECT.json` can say, for
every property, a bug that violates it.

## What is checked

### Runs that pass

* **deliver** (`MCDeliver`, four stores, 3,643 states). `Delivers`: `Deploy`
  implements `Delivery`; NARs are delivered complete, bit for bit, in order, and
  completion is told only at the end, through a failure of either program at
  any step, through every prefix of the archive and every flush of the buffer.
  `IndexesStable`: what an index on the wire points at never changes.
  `Terminates`: all three programs end.
* **every** (`MCEvery`, 981,167 states): every pair of single files of up to
  three blocks against two files of the host; every pair of directories with up
  to two entries of every kind against such a directory of the host; and single
  files of which one has changed, become shorter or gone since it was indexed,
  on the sender or on the host. Here contents may be confused, and
  `OnlyConfusedDiffer` and `OnlyConfusedFail` say that nothing but three
  confusions and a path out of date makes a NAR differ or `dnar-unpack` give up:
  a file whose name begins with that of a directory matched in full
  (`HasMatchedSibling`), directories that have the same digest and differ
  (`HasOtherDirectory`), a file matched with what is no file (`HasOtherFile`),
  and a path that the message is made of and that has changed (`FromChanged`;
  because chunks are sent once for all, this may be another path than the one
  sent). `StreamsFit`: no message is taken for one of another kind.
  `WholeOrStopped`: whatever is packed, nix-store takes all or stops.
  `ReferencesResolve` and `NothingSentInVain` are about the archive while it is
  written.
* **delta** (`MCDelta`, 227,265 states): every reference and every chunk of up
  to five bytes over two letters. `RoundTrip`, `OpsCover` and `DeltaEnds`.
* **workers** (`MCWorkers`, 43,912 states): `UsesMapped` (no worker computes
  against what is unmapped), `ResultsTheirOwn` (whatever order they end in),
  `MappingsBounded` and `Returns`.
* **index** (`MCIndex`, 163,232 states): `Catalogues` (`Index` implements
  `Catalog`: with two `dnar-pack` killed anywhere, the index still grows by sets
  of paths closed under references, each in one step, and rows stay),
  `MissingStays`, `AllIndexed` (no path is packed as an empty one because it is
  not in the index), `ImportableInOrder` (what a path refers to is on the host
  or sent before it), `InfosRight` (whatever nix there is and whatever the
  probes made of it) and `PackersEnd` (the locks hold up nobody for ever).
* **cache** (`MCCache`, 171,786 states): three runs, each on any of four
  archives, stopped anywhere. `Publishes` (`BinaryCache` implements
  `Publication`: an offer is withdrawn before another one takes its place),
  `CompletedWhole` (a run that completes repairs what earlier ones left),
  `TookSent` (a reader gets what an archive brought though the cache is
  rewritten under it), `ChunksKept` and `RunsEnd`.

### Runs that show a disagreement

Each states what a comment or a document says and finds that the code does
otherwise.

* **sibling**: `dnar.go:175-178` skips "the files from" a directory matched in
  full. The code compares strings: after a matched `lib`, a file `lib64` beside
  it is left out of the NAR as well.
* **other_directory**: `dedup.md:20-22` reuses directories which are "fully
  identical". The digest covers neither the targets of links nor executable
  bits: a directory whose link points elsewhere is copied in its place.
* **empty**: `dedup.md:15-16` reuses a file whose hash matches. An empty
  directory has the digest of the empty file and the query asks for no type: an
  empty file may be matched with a directory, which `dnar-unpack` cannot read.
* **other_build**: `dnar.proto:54` has a digest with each range of an input,
  "verify that existing store contents match". Nothing does: when the host has
  another build of a path, its bytes end up in the NAR.
* **reference**: `delta.md:13-14` takes the file that shares the most content.
  A chunk that several files have votes for one of them, any one, so that
  another file may win.
* **one_reference**: `dnar-pack/delta.go:15-16` holds one reference at a time,
  which is to bound the memory. `get` maps the new one before it unmaps the old
  one. That it is never more than two is `MappingsBounded`.

### Bounds

* Two store paths of the host and one or two to send. Two are needed for a
  chunk that both paths miss (the second refers to the payload of the first)
  and for a choice between two matches and two references. What a third would
  add is more of the same lists, and that these resolve is proved for any
  number.
* Names `bin`, `lib` and `lib64`, one of them a prefix of another. Depth two in
  directories: a file in a directory that is copied into a directory.
* Three blocks: two the host may have and one it misses. Files of at most three
  (four in `TwoReferences`): a chunk met twice, one matched, one missed.
* `RefSizeFactor = 1`, `RefSizeFloor = 2` (4 and 16 MiB in the code), so that
  some files are too large for a reference.
* `MinMatch = 2`, `HashLen = 2` (16 and 4 in the code) and `Bits = 3` (32) in
  `MCDelta`. `LastByte` makes buckets collide that hold different bytes;
  positions from 3 on wrap round to negative ones, which `Diff` takes for an
  empty bucket. Matches extend in both directions and overlap literals within
  five bytes.
* `deliver` checks a refinement and liveness, on stores chosen so that every
  action and every kind of chunk occurs; `every` checks invariants on all of
  the stores within the bounds.
* One path changes in each of the stores that are out of date: it is the
  relation of one path to the rest of the archive that could go wrong.
* `index`: two `dnar-pack`, since locks are between two; `MaxRuns = 3` starts,
  so that one runs again after another was killed; `Workers = 2`; three paths,
  one of which both others refer to; `MaxChanges = 1`. Hosts with a gcroot,
  without one, and with an entry that is none.
* `workers`: two workers, chunks that need a third turn, and three files, so
  that a reference is reused, replaced and missed in any order.
* `cache`: `MaxRuns = 3`, the fewest in which a run finds what one that was
  stopped left on top of what one completed. The archives differ in length, hash
  and references, one has a NAR that is not what its hash says and one misses
  a payload; payloads are shared and one is empty.

### Fairness

No failure, kill or change of a store is ever forced, and every program has weak
fairness on its own:

* `DeployFairSpec`: the three programs wait for nothing but their disk and the
  one before them. A `dnar-pack` that can go on does, and so does a reader whose
  next message is there or whose pipe is closed.
* `MCIndexSpec` (`IndexFairSpec` for the model's first store): each `dnar-pack`.
  SQLite answers `SQLITE_BUSY` rather than let two wait for each other, so that
  a step is there whoever holds the locks.
* `DeltaWorkersFairSpec`: `writeDNAR`, and the goroutines it has started. Which
  of these goes on is left open.
* `BinaryCacheFairSpec`: the run, not the readers.
* `DeltaFairSpec`: the loop, which is a single goroutine.

Deadlock is checked in `Deploy` and `Delta`: `Ended` and `Finished` are the
states in which the programs have ended, so any other state without a successor
would be reported. In `Index`, `DeltaWorkers` and `BinaryCache` it is not, since
there the programs really stop (writeDNAR returned, no more starts); that they
stop nowhere else is what `PackersEnd`, `Returns` and `RunsEnd` say.

## What is proved

For every value of the constants that satisfies the assumptions of their
modules. `NixStoreAssumption` and `PackAssumption` say that the stores are trees,
in the order in which they are listed, and that nothing is both sent and local; `IndexAssumption`, that nix-store lists
each path of a set once and after those of the set it refers to, which is what
`nix-store -qR` is for; `BinaryCacheAssumption`, that an archive has each path
once and that what NARs are made of are bytes; the others, that parameters are
numbers. They leave open the number and size of stores, files, chunks, programs,
runs and workers.

`ListFacts` is the induction that the rest needs. The provers know induction
theorems only with an operator for a parameter, which they cannot instantiate.
But a set of numbers that contains 0, and with k also k + 1, contains all, because what it misses would have a
least member (`InductionUpTo`, from well-foundedness of `<`); and for a set of
numbers the provers need no operator. From it follow that a function given by
recursion exists (`RecursionUpTo`), that filtering keeps the elements of a set in
their order (`KeptIs`) and that joining parts grows with each part
(`FlattenAppend`).

`PackProofs`: `PackTypeCorrect`, `PackReferencesResolve`,
`PackNothingSentInVain` and `PackIndexesStable`, from `PackInvariant`. The
properties are not inductive: that a descriptor resolves needs to know that the
match it was made from is a chunk of the host. `PackInv` joins:

* `InputsInv`: index, host and list of paths are what the start made them, and
  the index holds the rows of what was indexed;
* `ListsInv`: the lists are sequences and the trailer's files are the host's;
* `PhaseInv`: where each phase has the loops, and which of the variables are
  empty there;
* `ChunksInv`: a chunk is matched with one the host has, or it has none;
* `PayloadsInv`: no chunk is twice among the payloads, no payload is a chunk
  of the host, and the payloads are those that descriptors name;
* `ReferencesResolve` itself.

Every step either adds to one of the growing lists (`InputAdded`,
`DescriptorAdded`, `MessageSent`, ...), and what resolved still does
(`StillResolves`), or it moves on in the loops and adds nothing
(`NothingAdded`). What is new is resolved by what the host has
(`LocalChunkIs`, `WholeFileIs`). The resolution is stated for files: of a
directory or link matched for a file nothing is claimed, which is what the run
`empty` shows.

`DeltaProofs`: `DeltaTypeCorrect`, `ChunkRoundTrip` and `ChunkCovered` from
`DeltaInvariant`. `DeltaInv` joins `Types`, `DiffInv` (operation n makes the
part of the chunk between the reach of the one before and its own), `MatchInv`
(the match being extended is one, and does not go back behind what is covered)
and `PatchInv` (what is put together is the chunk up to the reach of the last
operation applied). Nothing is assumed of `Hash` or of `Bits`: a
candidate from the hash table is only believed after it is compared, so that
collisions and overflow cost deltas and never bytes. That was the point of
proving it: TLC sees a width of 3, and 2 GiB references are out of its reach.

`StreamProofs`: `DeployPacks` (a deployment behaves to `Pack` as `Pack` alone,
so that what `PackProofs` shows holds of it), `DeployStreamsFit`,
`DeployWholeOrStopped` and `DeployTypeCorrect`, from `StreamInvariant`. A message
does not say what it is: the reader is right only as long as both sides count
alike. `StreamInv` therefore fixes the place of every message in the archive
(`Place`), how much of it each phase of the writer has written, and what the
reader still has to read up to the end of its stream; then that the NARs read,
written, and taken by nix-store are the first ones of those sent, each no more
than the one before, and that the end is in the pipe only after all.

`DeliveryProofs`: `DeployOnlyConfusedDiffer` and `DeployOnlyConfusedFail`, from
`DeliverInvariant`, and `DeployDelivers`, the refinement of `Delivery`. They
compare the NAR that comes out with a tree that the reader never sees, and no
message says which part of it a file of the message stands for. `DeliverInv` joins
`StreamInv` with one invariant for each part on the way:

* `WrittenRight`, the writer: the files of a NAR message form a chain in which
  each one makes the next nodes of the NAR. A file or link makes one node, a
  directory copied from the host all those of the entries below it. They are
  next to each other, since a tree is a listing (`SpanNodes`). While a message is
  being written, the files at hand make the rows so far and the ones that
  `recursiveDir` is about to skip (`MadeUpTo`, `SkipsFrom`); in the file at hand
  the descriptors so far make the blocks before the chunk of the loop
  (`BlocksInv`), and each payload is what was read for it (`DataInv`).
* `ReadInv`, the reader: its NARs are messages of the archive, its payloads the
  ones sent first, and nothing is written before all of them are read
  (`AllRead`): an index into the trailer or the payloads finds what it was
  written for.
* `HandedRight`, the NAR writer: of a NAR that is neither confused nor out of
  date (`Good`), what is written is what the files so far make
  (`WrittenSoFar`), and `dnar-unpack` gives up only at one that is not.

The chain is needed because a mistake in the writer does not show in the message
it is made in: a row skipped too much or too little is seen only after the last
file, when nodes are missing or are there twice. No induction over trees is
needed: the digest of a directory is compared and never computed, and
that equal digests mean equal nodes is what `HasOtherDirectory` excludes.

`DeployDelivers` has two hypotheses about the start, since without them the
property is false, as the runs `sibling`, `other_directory` and `other_build`
show: none of the paths sent is confused (`NothingConfused`), and
what was indexed is what there is, on both sides (`NothingChanged`). Three of the
four stores of the run `deliver` satisfy them, with directories copied, payloads
shared by two paths and deltas against two references. The fourth,
`CollectedSince`, has a path that the sender has collected since it was indexed.

`CacheProofs`: `StoreKeepsChunks` about `ChunkStore` alone, for chunks of any
size; `CacheUsesStore` and `CacheKeepsChunks` carry it over to the cache. `CachePublishes`
is the refinement of `Publication`. What a path is offered with depends on two
files, and both are there in parts most of the time: `CacheInv` says that each
narinfo holds the first lines of that of some NAR sent, and which ones while it
is written. Below five lines nothing is offered, with five the references are
not told. `ReadersTookSent` adds that what a reader has seen is such lines too.
`CacheCompletedWhole` is about a run that finds there whatever others left. `WholeInv`
says that the paths it has passed have their NAR and a narinfo of all lines,
whoever wrote them, that the NAR being written is the first pieces of it
(`FlattenAppend`), and that the store has all payloads of its archive.

`IndexProofs`: `IndexMissingStays`, `IndexAllIndexed` and `IndexCatalogues`, the
refinement of `Catalog`, from `IndexInvariant`. `IndexInv` says what a transaction
may rely on while it shares the database: what it found missing still is, and
would make the index closed and complete for it; and each place whose worker
has ended holds the files of its own path, unless one of them failed.
`IndexImportableInOrder` rests on the order of nix-store, on what is left out
being what the host has, and on a filtered list keeping its order
(`KeptInOrder`, from `KeptIs`). `IndexInfosRight` follows what the probes settle
for through the four dialects: whatever format is read, it is the one written
(`EntriesAreInfos`).

`WorkersProofs`: `WorkersUseMapped`, `WorkersResultsTheirOwn` and
`WorkersMappingsBounded`. `WorkersInv` says which mappings there are: the one
cached and the one about to take its place, which are different, and nobody at
work while there are two.

With that, every invariant and every safety property of the passing runs is a
theorem. Only model-checked are liveness (`Terminates`, `DeltaEnds`, `Returns`, `RunsEnd`,
`PackersEnd`), since TLAPS has no `ENABLED`, and `Delivers` on stores that are
out of date and still deliver or stop, such as `CollectedSince`. The runs that
show a disagreement are counterexamples, and need no proof.

## What is not modelled

* Bytes of the formats: protobuf, compression, the framing of an item in the
  export (magic number, padding, references). Names and hashes are values; the
  export trailer has no state and goes with its NAR.
* Metadata of store paths (deriver, NAR hash) is passed on as it is. Neither
  `dnar-unpack` nor `nix-store --import` verifies the NAR hash, which the export
  format does not carry; whoever copies from the binary cache does (`Verified`).
* Two `dnar-unpack` writing into one binary cache at the same time. They would
  write into the same files byte by byte, and the code does nothing about it;
  a run starts here when the one before it has ended.
* Loss of what was written to a file but not synced, when the machine itself
  goes down. A run that is stopped loses nothing that it has written.
* An empty `nix-cache-info`, left by a kill between its creation and its
  contents, is never repaired (`Create`). Nix then takes the default store
  directory, which is what the line would have said.
* The temporary file of the chunk store is never removed. Nothing depends on it.
* The stores change between indexing and packing, and between packing and
  unpacking, but not while one archive is written or read: `disk` and `host`
  are each as they are when the program starts.
* Limits on memory and open files: reaching one is an error of the call, and
  every call may fail.
* Go's `nar.Writer`, `fastcdc`, `protodelim`, SQLite, nix and the operating
  system are external, and modelled as far as the code relies on them.
* Command lines, migrations (goose), generated code and packaging have no state
  of interest.

## What could follow

* `DeployDelivers` for paths that are out of date but not used: a file that has
  changed on the host matters only to the NARs made from it (`FromChanged`).
  `OnlyConfusedDiffer` says so already of each NAR, `Delivers` not yet of all.
* `MaxChanges = 2` and a third `dnar-pack` in `MCIndex`, where there is more
  time than five minutes.
