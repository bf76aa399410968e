------------------------------ MODULE NixStore ------------------------------
(***************************************************************************)
(* The contents of a Nix store, and what internal/store reads of them: the *)
(* listing of a store path (ReadStorePath), the content-defined chunks of a *)
(* file (ChunkFile) and the digests both compute.                          *)
(*                                                                         *)
(* A tree is the listing of a store path: its entries in the order in which *)
(* ReadStorePath returns them, every directory before what it holds, with  *)
(* the path of the store path itself, "" there and "/" in the index, being *)
(* the empty sequence of names.                                            *)
(*                                                                         *)
(* A regular file is a sequence of blocks.  A block is what one chunk of   *)
(* the content-defined chunker holds, and the unit in which sizes and      *)
(* offsets are counted.                                                    *)
(***************************************************************************)
EXTENDS Integers, Sequences, FiniteSets, SequencesExt, Lists

CONSTANTS
  StorePath,    \* the store paths, each a name under /nix/store
  Name,         \* file names
  NamePrefix,   \* pairs <<m, n>> of different names such that m starts n
  Block,        \* the contents a chunk can have
  Link,         \* the targets a symbolic link can have
  DirSize,      \* the size lstat reports for a directory
  Nil           \* no value: a NULL hash, or no link target

ASSUME NixStoreAssumption ==
  /\ NamePrefix \subseteq Name \X Name
  /\ DirSize \in Nat
  /\ Nil \notin Block \cup Link

Path == Seq(Name)

(* Only a file has contents, and only a link a target. *)
Entry ==
  {e \in [path: Path, type: {"regular", "directory", "symlink"},
          content: Seq(Block), exec: BOOLEAN, target: Link \cup {Nil}] :
     /\ e.type # "regular" => e.content = <<>>
     /\ e.type # "symlink" => e.target = Nil}

(* A directory comes before what it holds, and all it holds comes before   *)
(* anything else; so no path comes twice.                                  *)
Listing(t) ==
  \A i, k \in DOMAIN t : IsPrefix(t[i].path, t[k].path) =>
    i <= k /\ \A j \in i..k : IsPrefix(t[i].path, t[j].path)

Tree == {t \in Seq(Entry) : Listing(t)}

-----------------------------------------------------------------------------
(* Paths *)

(* q lies below the directory p. *)
Below(p, q) == IsStrictPrefix(p, q)

(* strings.HasPrefix(q, p) on the paths as they are written: the last name *)
(* of p need only start the name that q has there, and "/" starts them all. *)
StringPrefix(p, q) ==
  /\ Len(p) <= Len(q)
  /\ \A i \in DOMAIN p :
       \/ p[i] = q[i]
       \/ i = Len(p) /\ <<p[i], q[i]>> \in NamePrefix

(* The path of q, which is p or below p, inside p. *)
Inside(p, q) == SubSeq(q, Len(p) + 1, Len(q))

-----------------------------------------------------------------------------
(* Digests.  blake3 is injective here: a digest is the sequence of what is *)
(* written to the hasher.                                                  *)

(* What entry i of the tree t has for a digest, dirs being those of its    *)
(* directories.  A file's is over its contents; a symbolic link has none.  *)
DigestOf(t, i, dirs) ==
  CASE t[i].type = "regular"   -> t[i].content
    [] t[i].type = "symlink"   -> Nil
    [] t[i].type = "directory" -> dirs[i]

(* A directory's digest is over the path and the digest of each entry below *)
(* it, in order.  Neither the type of an entry, its executable bit nor the *)
(* target of a link is written.                                            *)
DirectoryDigests(t) ==
  LET nBelow(i) ==
        Cardinality({j \in i+1..Len(t) : Below(t[i].path, t[j].path)})
      digest[i \in DOMAIN t] ==
        [n \in 1..nBelow(i) |-> <<t[i + n].path, DigestOf(t, i + n, digest)>>]
  IN  digest

(* The chunks of a file: contiguous, in order, and covering all of it, the *)
(* bytes the chunker leaves at the end being the last one.                 *)
Chunks(e) ==
  [k \in DOMAIN e.content |-> [hash |-> <<e.content[k]>>, size |-> 1, offset |-> k - 1]]

SizeOf(e) == CASE e.type = "regular"   -> Len(e.content)
               [] e.type = "directory" -> DirSize
               [] e.type = "symlink"   -> 1

(* The rows the index keeps of a store path: one for each entry. *)
RowsOf(t) ==
  LET dirs == DirectoryDigests(t) IN
  [i \in DOMAIN t |->
     [path |-> t[i].path, type |-> t[i].type, size |-> SizeOf(t[i]),
      exec |-> t[i].exec, target |-> t[i].target, hash |-> DigestOf(t, i, dirs),
      chunks |-> Chunks(t[i])]]

-----------------------------------------------------------------------------
(* What a NAR says of a store path. *)

(* A NAR has the executable bit of regular files only. *)
Node(path, e) ==
  [path |-> path, type |-> e.type, content |-> e.content,
   exec |-> e.type = "regular" /\ e.exec, target |-> e.target]

(* The nodes of what the tree t has at p and below it, as they are when it *)
(* stands at path at.                                                      *)
NodesAt(t, p, at) ==
  LET part == Kept(t, {e \in ToSet(t) : IsPrefix(p, e.path)}) IN
  [i \in DOMAIN part |-> Node(at \o Inside(p, part[i].path), part[i])]

NarOf(t) == NodesAt(t, <<>>, <<>>)

(* Reading size blocks of content from offset. *)
ReadAt(content, offset, size) == SubSeq(content, offset + 1, offset + size)

=============================================================================
