---------------------------- MODULE DeliveryProofs ----------------------------
(***************************************************************************)
(* What dnar-unpack writes is what dnar-pack was given, unless something   *)
(* is confused or out of date: for every store, every match and every      *)
(* order of steps.                                                         *)
(*                                                                         *)
(* The files of a NAR message make up the rows of its store path, each     *)
(* file one row or, when a directory is copied, all that is below it.  The *)
(* writer's invariant says so of what it has written, in terms of what was *)
(* indexed, and the reader's that what it has written is what the files it *)
(* has passed make.                                                        *)
(***************************************************************************)
EXTENDS StreamProofs, ListFacts

-----------------------------------------------------------------------------
(* Trees. *)

(* The rows from i up to e, without e, are those of i and what is below it. *)
Spanned(t, i, e) ==
  /\ e \in i + 1..Len(t) + 1
  /\ \A j \in DOMAIN t : IsPrefix(t[i].path, t[j].path) <=> j \in i..e - 1

(* Paths are sequences, and the beginning of one is that of a string. *)
LEMMA PrefixIs ==
  ASSUME NEW p \in Path, NEW q \in Path, IsPrefix(p, q)
  PROVE  StringPrefix(p, q) /\ p \o Inside(p, q) = q
<1>1. /\ Len(p) \in Nat /\ Len(q) \in Nat /\ Len(p) <= Len(q)
      /\ DOMAIN p = 1..Len(p) /\ p \in Seq(Name) /\ q \in Seq(Name)
      /\ SubSeq(p, 1, Len(p)) = SubSeq(q, 1, Len(p))
  BY DEF IsPrefix, Path
<1>2. \A i \in 1..Len(p) : p[i] = q[i]
  <2> SUFFICES ASSUME NEW i \in 1..Len(p) PROVE p[i] = q[i]
    OBVIOUS
  <2>1. SubSeq(p, 1, Len(p))[i] = p[i] /\ SubSeq(q, 1, Len(p))[i] = q[i]
    BY <1>1
  <2> QED BY <1>1, <2>1
<1>3. p \o Inside(p, q) = q
  <2>1. PICK rest : rest = SubSeq(q, Len(p) + 1, Len(q))
    OBVIOUS
  <2>2. /\ rest \in Seq(Name) /\ Len(rest) = Len(q) - Len(p)
        /\ \A i \in 1..Len(q) - Len(p) : rest[i] = q[Len(p) + i]
    BY <1>1, <2>1
  <2>3. PICK r : r = p \o rest
    OBVIOUS
  <2>4. /\ r \in Seq(Name) /\ Len(r) = Len(q)
        /\ \A i \in 1..Len(q) : r[i] = IF i <= Len(p) THEN p[i] ELSE rest[i - Len(p)]
    BY <1>1, <2>2, <2>3
  <2>5. \A i \in 1..Len(q) : r[i] = q[i]
    <3> SUFFICES ASSUME NEW i \in 1..Len(q) PROVE r[i] = q[i]
      OBVIOUS
    <3>1. CASE i <= Len(p)
      BY <1>1, <1>2, <2>4, <3>1
    <3>2. CASE i > Len(p)
      <4>1. i - Len(p) \in 1..Len(q) - Len(p) /\ Len(p) + (i - Len(p)) = i
        BY <1>1, <3>2
      <4>2. r[i] = rest[i - Len(p)]
        BY <1>1, <2>4, <3>2
      <4> QED BY <2>2, <4>1, <4>2
    <3> QED BY <1>1, <3>1, <3>2
  <2>6. r = q
    BY <1>1, <2>4, <2>5
  <2> QED BY <2>1, <2>3, <2>6 DEF Inside
<1> QED BY <1>1, <1>2, <1>3 DEF StringPrefix

(* Every path is a beginning of itself, and the empty one of every other. *)
LEMMA PrefixAlways ==
  ASSUME NEW p \in Path
  PROVE  IsPrefix(p, p) /\ IsPrefix(<<>>, p) /\ <<>> \in Path
<1>1. p \in Seq(Name) /\ <<>> \in Seq(Name) /\ Len(<<>>) = 0 /\ Len(p) \in Nat
  BY DEF Path
<1>2. SubSeq(<<>>, 1, 0) = <<>> /\ SubSeq(p, 1, 0) = <<>>
  BY <1>1
<1> QED BY <1>1, <1>2 DEF IsPrefix, Path

(* The entries of a tree. *)
LEMMA TreeIs ==
  ASSUME NEW t \in Tree
  PROVE  /\ t \in Seq(Entry) /\ Len(t) \in Nat /\ DOMAIN t = 1..Len(t)
         /\ \A i \in 1..Len(t) : t[i] \in Entry /\ t[i].path \in Path
         /\ \A i \in 1..Len(t) : t[i] \in ToSet(t)
<1>1. t \in Seq(Entry) /\ Len(t) \in Nat /\ DOMAIN t = 1..Len(t)
  BY DEF Tree
<1>2. \A i \in 1..Len(t) : t[i] \in Entry
  BY <1>1
<1> QED BY <1>1, <1>2 DEF Entry, ToSet

(* What is below an entry follows it without a gap. *)
LEMMA SpanExists ==
  ASSUME NEW t \in Tree, NEW i \in 1..Len(t)
  PROVE  \E e : Spanned(t, i, e)
<1>1. /\ Len(t) \in Nat /\ DOMAIN t = 1..Len(t) /\ Listing(t)
      /\ \A j \in 1..Len(t) : t[j].path \in Path
  BY TreeIs DEF Tree
<1>2. PICK n : n = Len(t) /\ n \in Nat /\ i \in 1..n
  BY <1>1
<1> DEFINE T == {k \in i + 1..n + 1 : k = n + 1 \/ ~IsPrefix(t[i].path, t[k].path)}
<1>3. T \in SUBSET Nat /\ T # {}
  <2>1. n + 1 \in T
    BY <1>2
  <2>2. i + 1..n + 1 \subseteq Nat
    BY <1>2
  <2> QED BY <2>1, <2>2
<1>4. PICK e \in T : \A k \in T : e <= k
  BY <1>3, LeastNumber
<1>5. e \in i + 1..n + 1 /\ (e = n + 1 \/ ~IsPrefix(t[i].path, t[e].path))
  BY <1>4
<1>6. ASSUME NEW j \in 1..n
      PROVE  IsPrefix(t[i].path, t[j].path) <=> j \in i..e - 1
  <2>1. CASE j = i
    BY <1>1, <1>2, <1>5, <2>1, PrefixAlways
  <2>2. CASE j < i
    BY <1>1, <1>2, <1>5, <2>2 DEF Listing
  <2>3. CASE j > i /\ j < e
    <3>1. j \notin T
      BY <1>2, <1>4, <1>5, <2>3
    <3> QED BY <1>2, <1>5, <2>3, <3>1
  <2>4. CASE j >= e
    <3>1. e \in i..j /\ e \in 1..n /\ ~IsPrefix(t[i].path, t[e].path)
      BY <1>2, <1>5, <2>4
    <3> QED BY <1>1, <1>2, <1>5, <2>4, <3>1 DEF Listing
  <2> QED BY <1>2, <1>5, <2>1, <2>2, <2>3, <2>4
<1> QED BY <1>1, <1>2, <1>5, <1>6 DEF Spanned

(* What is kept of a list, when it is all from one place to another.       *)
LEMMA KeptSpan ==
  ASSUME NEW X, NEW s \in Seq(X), NEW set, NEW a \in 1..Len(s), NEW e \in a + 1..Len(s) + 1,
         \A j \in 1..Len(s) : s[j] \in set <=> j \in a..e - 1
  PROVE  Kept(s, set) = SubSeq(s, a, e - 1)
<1>1. PICK list, n : list = Kept(s, set) /\ n = Len(s)
  OBVIOUS
<1>2. list \in Seq(X) /\ Len(list) \in Nat /\ n \in Nat /\ DOMAIN s = 1..n
  BY <1>1, KeptPlaces
<1>3. PICK g : Places(g, list, n, s, set)
  BY <1>1, KeptPlaces
<1>4. a \in 1..n /\ e \in a + 1..n + 1 /\ \A j \in 1..n : s[j] \in set <=> j \in a..e - 1
  BY <1>1
<1>5. \A m \in 1..Len(list) : g[m] \in a..e - 1 /\ list[m] = s[g[m]]
  <2> SUFFICES ASSUME NEW m \in 1..Len(list)
               PROVE  g[m] \in a..e - 1 /\ list[m] = s[g[m]]
    OBVIOUS
  <2>1. g[m] \in 1..n /\ s[g[m]] \in set /\ list[m] = s[g[m]]
    BY <1>3 DEF Places
  <2> QED BY <1>4, <2>1
<1>6. \A j \in a..e - 1 : \E m \in 1..Len(list) : g[m] = j
  <2> SUFFICES ASSUME NEW j \in a..e - 1 PROVE \E m \in 1..Len(list) : g[m] = j
    OBVIOUS
  <2>1. j \in 1..n /\ s[j] \in set
    BY <1>2, <1>4
  <2> QED BY <1>3, <2>1 DEF Places
<1>7. \A l, m \in 1..Len(list) : l < m => g[l] < g[m]
  BY <1>3 DEF Places
<1> DEFINE S == {m \in 0..Len(list) : m > 0 => g[m] = a + m - 1}
<1>8. \A m \in 0..Len(list) : m \in S
  <2>1. 0 \in S
    BY <1>2
  <2>2. ASSUME NEW m \in 0..Len(list) - 1, m \in S
        PROVE  m + 1 \in S
    <3>1. m + 1 \in 1..Len(list) /\ a \in Nat /\ e \in Nat /\ m \in Nat
      BY <1>2, <1>4
    <3>2. m > 0 => m \in 1..Len(list) /\ g[m] = a + m - 1 /\ g[m] < g[m + 1]
      BY <1>2, <1>7, <2>2, <3>1
    <3>3. g[m + 1] \in a..e - 1
      BY <1>5, <3>1
    <3>4. a + m \in a..e - 1 /\ g[m + 1] >= a + m
      BY <3>1, <3>2, <3>3
    <3>5. PICK l \in 1..Len(list) : g[l] = a + m
      BY <1>6, <3>4
    <3>6. ~(m + 1 < l)
      <4>1. m + 1 < l => g[m + 1] < g[l]
        BY <1>7, <3>1
      <4> QED BY <3>1, <3>3, <3>4, <3>5, <4>1
    <3>7. ~(l < m + 1)
      <4>1. l < m + 1 => l <= m /\ m > 0
        BY <1>2, <3>1
      <4>2. l < m + 1 /\ l < m => g[l] < g[m]
        BY <1>2, <1>7, <3>2, <4>1
      <4> QED BY <1>2, <3>1, <3>2, <3>5, <4>1, <4>2
    <3>8. l = m + 1
      BY <1>2, <3>1, <3>6, <3>7
    <3> QED BY <1>2, <3>1, <3>5, <3>8
  <2> HIDE DEF S
  <2> QED BY <1>2, <2>1, <2>2, InductionUpTo
<1>9. \A m \in 1..Len(list) : g[m] = a + m - 1
  BY <1>2, <1>8
<1>10. Len(list) = e - a
  <2>1. PICK l \in 1..Len(list) : g[l] = e - 1
    BY <1>4, <1>6
  <2>2. l = e - a
    BY <1>2, <1>4, <1>9, <2>1
  <2>3. g[Len(list)] = a + Len(list) - 1 /\ g[Len(list)] \in a..e - 1
    BY <1>2, <1>5, <1>9, <2>1
  <2> QED BY <1>2, <1>4, <2>1, <2>2, <2>3
<1>11. PICK r : r = SubSeq(s, a, e - 1)
  OBVIOUS
<1>12. r \in Seq(X) /\ Len(r) = e - a /\ \A m \in 1..e - a : r[m] = s[a + m - 1]
  BY <1>1, <1>2, <1>4, <1>11
<1>13. \A m \in 1..e - a : list[m] = s[a + m - 1]
  BY <1>2, <1>5, <1>9, <1>10
<1>14. list = r
  BY <1>2, <1>10, <1>12, <1>13
<1> QED BY <1>1, <1>11, <1>14

(* The NAR of a tree has a node for each entry. *)
LEMMA NarIs ==
  ASSUME NEW t \in Tree
  PROVE  NarOf(t) = [i \in 1..Len(t) |-> Node(t[i].path, t[i])]
<1>1. /\ t \in Seq(Entry) /\ Len(t) \in Nat /\ DOMAIN t = 1..Len(t)
      /\ \A i \in 1..Len(t) : t[i].path \in Path /\ t[i] \in ToSet(t)
  BY TreeIs
<1> DEFINE set == {e \in ToSet(t) : IsPrefix(<<>>, e.path)}
<1>2. \A i \in 1..Len(t) : t[i] \in set
  BY <1>1, PrefixAlways
<1>3. PICK part : part = Kept(t, set)
  OBVIOUS
<1>4. part = t
  <2>1. CASE Len(t) = 0
    <3>1. t = <<>> /\ ToSet(t) = {}
      BY <1>1, <2>1 DEF ToSet
    <3>2. part \in Seq(Entry) /\ ToSet(part) = {}
      <4> HIDE DEF set
      <4>1. part \in Seq(Entry) /\ ToSet(part) = ToSet(t) \cap set
        BY <1>1, <1>3, KeptIs
      <4> QED BY <3>1, <4>1
    <3>3. Len(part) = 0
      <4>1. 1 \notin DOMAIN part
        BY <3>2 DEF ToSet
      <4> QED BY <3>2, <4>1
    <3> QED BY <3>1, <3>2, <3>3
  <2>2. CASE Len(t) > 0
    <3>1. 1 \in 1..Len(t) /\ Len(t) + 1 \in 1 + 1..Len(t) + 1 /\ (Len(t) + 1) - 1 = Len(t)
      BY <1>1, <2>2
    <3>2. \A j \in 1..Len(t) : t[j] \in set <=> j \in 1..(Len(t) + 1) - 1
      BY <1>2, <3>1
    <3>3. part = SubSeq(t, 1, Len(t))
      <4> HIDE DEF set
      <4>1. part = SubSeq(t, 1, (Len(t) + 1) - 1)
        BY <1>1, <1>3, <3>1, <3>2, KeptSpan
      <4> QED BY <3>1, <4>1
    <3> QED BY <1>1, <3>3
  <2> QED BY <1>1, <2>1, <2>2
<1>5. NarOf(t) = [i \in 1..Len(t) |-> Node(<<>> \o Inside(<<>>, t[i].path), t[i])]
  BY <1>1, <1>3, <1>4 DEF NarOf, NodesAt
<1>6. ASSUME NEW i \in 1..Len(t)
      PROVE  <<>> \o Inside(<<>>, t[i].path) = t[i].path
  BY <1>1, PrefixAlways, PrefixIs
<1> QED BY <1>5, <1>6

(* It is a sequence, and as long as the tree.                              *)
LEMMA NarIsSeq ==
  ASSUME NEW t \in Tree, NEW nar, nar = NarOf(t)
  PROVE  nar \in Seq(ToSet(nar)) /\ Len(nar) = Len(t)
<1>1. PICK n : n = Len(t) /\ n \in Nat
  BY TreeIs
<1>2. PICK f : f = [k \in 1..n |-> Node(t[k].path, t[k])] /\ f = nar
  BY <1>1, NarIs
<1>3. Len(f) = n /\ f \in Seq(ToSet(f))
  <2>1. f \in [1..n -> ToSet(f)]
    BY <1>2 DEF ToSet
  <2> QED BY <1>1, <1>2, <2>1
<1> QED BY <1>1, <1>2, <1>3

(* The nodes of what is at an entry and below it are some of the NAR.      *)
LEMMA SpanNodes ==
  ASSUME NEW t \in Tree, NEW i \in 1..Len(t), NEW e, Spanned(t, i, e)
  PROVE  NodesAt(t, t[i].path, t[i].path) = SubSeq(NarOf(t), i, e - 1)
<1>1. /\ t \in Seq(Entry) /\ Len(t) \in Nat /\ DOMAIN t = 1..Len(t)
      /\ \A j \in 1..Len(t) : t[j].path \in Path /\ t[j] \in ToSet(t)
  BY TreeIs
<1>2. PICK p : p = t[i].path /\ p \in Path
  BY <1>1
<1>3. /\ i \in Nat /\ e \in i + 1..Len(t) + 1
      /\ \A j \in 1..Len(t) : IsPrefix(p, t[j].path) <=> j \in i..e - 1
  BY <1>1, <1>2 DEF Spanned
<1> DEFINE set == {d \in ToSet(t) : IsPrefix(p, d.path)}
<1>4. \A j \in 1..Len(t) : t[j] \in set <=> j \in i..e - 1
  BY <1>1, <1>3
<1>5. PICK part : part = Kept(t, set)
  OBVIOUS
<1>6. part = SubSeq(t, i, e - 1)
  <2> HIDE DEF set
  <2> QED BY <1>1, <1>3, <1>4, <1>5, KeptSpan
<1>7. DOMAIN part = 1..e - i /\ \A k \in 1..e - i : part[k] = t[i + k - 1]
  BY <1>1, <1>3, <1>6
<1>8. NodesAt(t, p, p) = [k \in 1..e - i |-> Node(p \o Inside(p, part[k].path), part[k])]
  BY <1>5, <1>7 DEF NodesAt
<1> DEFINE all == [j \in 1..Len(t) |-> Node(t[j].path, t[j])]
<1>9. ASSUME NEW k \in 1..e - i
      PROVE  Node(p \o Inside(p, part[k].path), part[k]) = all[i + k - 1]
  <2>1. PICK j : j = i + k - 1
    OBVIOUS
  <2>2. j \in 1..Len(t) /\ j \in i..e - 1 /\ part[k] = t[j]
    BY <1>1, <1>3, <1>7, <2>1
  <2>3. p \o Inside(p, t[j].path) = t[j].path
    BY <1>1, <1>2, <1>3, <2>2, PrefixIs
  <2> QED BY <2>1, <2>2, <2>3
<1>10. PICK nar : nar = all
  OBVIOUS
<1>11. /\ nar = NarOf(t)
       /\ \A k \in 1..e - i : Node(p \o Inside(p, part[k].path), part[k]) = nar[i + k - 1]
  <2>1. nar = NarOf(t)
    BY <1>10, NarIs
  <2> QED BY <1>9, <1>10, <2>1
<1>12. nar \in Seq(ToSet(nar)) /\ Len(nar) = Len(t) /\ DOMAIN nar = 1..Len(t)
  BY <1>1, <1>10 DEF ToSet
<1>13. PICK sub : sub = SubSeq(nar, i, e - 1)
  OBVIOUS
<1>14. sub \in Seq(ToSet(nar)) /\ Len(sub) = e - i /\ \A k \in 1..e - i : sub[k] = nar[i + k - 1]
  <2> HIDE DEF all
  <2> QED BY <1>1, <1>3, <1>12, <1>13
<1>15. PICK made : made = NodesAt(t, p, p)
  OBVIOUS
<1>16. /\ DOMAIN made = 1..e - i /\ made = [k \in 1..e - i |-> made[k]]
       /\ \A k \in 1..e - i : made[k] = nar[i + k - 1]
  <2> HIDE DEF all
  <2> QED BY <1>8, <1>11, <1>15
<1>17. sub = [k \in 1..e - i |-> sub[k]]
  BY <1>3, <1>14
<1>18. sub = made
  BY <1>14, <1>16, <1>17
<1> QED BY <1>2, <1>11, <1>13, <1>15, <1>18
-----------------------------------------------------------------------------
(* What a file of a NAR message makes. *)

(* An entry of a store path, as it was indexed. *)
ContentAt(sp, i) == indexed[sp][i].content

(* The input of a descriptor is a file, as it was indexed. *)
FileInput(d) ==
  /\ d.index \in DOMAIN inputFiles
  /\ EntryOf(inputFiles[d.index]).type = "regular"

InputContent(d) == ContentOf(inputFiles[d.index])

(* The blocks full are all of the input. *)
MakesWhole(d, full) ==
  /\ d.chunk = "fd" /\ FileInput(d)
  /\ InputContent(d) = full /\ d.size = Len(full) /\ d.offset = 0

(* Block k of entry i is the payload, a block of the input, or the result  *)
(* of a delta whose base is all of the input, as both are on the disk.     *)
FromPayload(d, block) ==
  PayloadResolves(d.index, "chunk") /\ chunkDeps[d.index].hash = block

FromInput(d, block) ==
  /\ FileInput(d)
  /\ d.size = 1 /\ d.offset \in Nat /\ d.offset + 1 <= Len(InputContent(d))
  /\ ReadAt(InputContent(d), d.offset, 1) = block

FromDelta(d, sp, i, k) ==
  /\ FileInput(d)
  /\ d.size = Len(InputContent(d)) /\ d.offset = 0 /\ d.resultSize = 1
  /\ PayloadResolves(d.deltaIndex, "delta")
  /\ chunkDeps[d.deltaIndex].base \in FileOnDisk(inputFiles[d.index])
  /\ chunkDeps[d.deltaIndex].result \in RangeOnDisk(<<sp, i>>, [size |-> 1, offset |-> k - 1])

MakesBlock(d, sp, i, k) ==
  \/ d.chunk = "ca" /\ FromPayload(d, <<ContentAt(sp, i)[k]>>)
  \/ d.chunk = "fd" /\ FromInput(d, <<ContentAt(sp, i)[k]>>)
  \/ d.chunk = "delta" /\ FromDelta(d, sp, i, k)

(* The descriptors of a file make its contents, in one or block by block. *)
Whole(ds, sp, i) == Len(ds) = 1 /\ MakesWhole(ds[1], ContentAt(sp, i))

ByBlock(ds, sp, i) ==
  Len(ds) = Len(ContentAt(sp, i)) /\ \A k \in 1..Len(ds) : MakesBlock(ds[k], sp, i, k)

(* A directory copied is what is at the entry and below it. *)
MakesTree(file, sp, i, e) ==
  /\ file.from \in DOMAIN inputFiles
  /\ Spanned(indexed[sp], i, e)
  /\ NodesAt(indexed[inputFiles[file.from][1]], EntryOf(inputFiles[file.from]).path, file.path)
       = SubSeq(NarOf(indexed[sp]), i, e - 1)

MakesRegular(file, sp, i) ==
  /\ file.size = Len(ContentAt(sp, i)) /\ file.exec = indexed[sp][i].exec
  /\ IsSeq(file.chunks)
  /\ Whole(file.chunks, sp, i) \/ ByBlock(file.chunks, sp, i)

Copied(file) == file.type = "directory" /\ file.from # NoDirectory

(* A file makes the entries from i up to e, without e. *)
Makes(file, sp, i, e) ==
  /\ i \in DOMAIN indexed[sp]
  /\ file.type = indexed[sp][i].type /\ file.path = indexed[sp][i].path
  /\ Copied(file) => MakesTree(file, sp, i, e)
  /\ ~Copied(file) => e = i + 1
  /\ file.type = "symlink" => file.target = indexed[sp][i].target
  /\ file.type = "regular" => MakesRegular(file, sp, i)

(* The files fs make the entries before e, file k those from g[k] on. *)
Chain(g, fs, sp, e) ==
  /\ g \in [1..Len(fs) + 1 -> 1..Len(indexed[sp]) + 1]
  /\ g[1] = 1 /\ g[Len(fs) + 1] = e
  /\ \A k \in 1..Len(fs) : Makes(fs[k], sp, g[k], g[k + 1])

Made(fs, sp, e) == IsSeq(fs) /\ \E g : Chain(g, fs, sp, e)

(* What is made stays made while the lists grow. *)
ListsGrow ==
  /\ UNCHANGED inputVars
  /\ Extends(inputFiles, inputFiles') /\ Extends(chunkDeps, chunkDeps')

(* What a descriptor makes, it goes on making. *)
LEMMA BlockStays ==
  ASSUME ListsGrow, NEW d, NEW sp, NEW i, NEW k, MakesBlock(d, sp, i, k)
  PROVE  MakesBlock(d, sp, i, k)'
<1>1. UNCHANGED <<disk, indexed, db>>
  BY DEF ListsGrow, inputVars
<1>2. FileInput(d) => /\ FileInput(d)' /\ InputContent(d)' = InputContent(d)
                      /\ (FileOnDisk(inputFiles[d.index]))' = FileOnDisk(inputFiles[d.index])
  <2> SUFFICES ASSUME FileInput(d)
               PROVE  /\ FileInput(d)' /\ InputContent(d)' = InputContent(d)
                      /\ (FileOnDisk(inputFiles[d.index]))' = FileOnDisk(inputFiles[d.index])
    OBVIOUS
  <2>1. d.index \in DOMAIN inputFiles' /\ inputFiles'[d.index] = inputFiles[d.index]
    BY DEF FileInput, ListsGrow, Extends
  <2> QED
    BY <1>1, <2>1 DEF FileInput, InputContent, ContentOf, EntryOf, FileOnDisk, OnDisk, FileRow
<1>3. ASSUME NEW n, NEW kind, PayloadResolves(n, kind)
      PROVE  (PayloadResolves(n, kind))' /\ chunkDeps'[n] = chunkDeps[n]
  BY <1>3 DEF PayloadResolves, ListsGrow, Extends
<1>4. (RangeOnDisk(<<sp, i>>, [size |-> 1, offset |-> k - 1]))'
        = RangeOnDisk(<<sp, i>>, [size |-> 1, offset |-> k - 1])
  BY <1>1 DEF RangeOnDisk, FileOnDisk, OnDisk, FileRow
<1>5. ContentAt(sp, i)' = ContentAt(sp, i)
  BY <1>1 DEF ContentAt
<1>6. CASE d.chunk = "ca" /\ FromPayload(d, <<ContentAt(sp, i)[k]>>)
  BY <1>3, <1>5, <1>6 DEF MakesBlock, FromPayload
<1>7. CASE d.chunk = "fd" /\ FromInput(d, <<ContentAt(sp, i)[k]>>)
  BY <1>2, <1>5, <1>7 DEF MakesBlock, FromInput
<1>8. CASE d.chunk = "delta" /\ FromDelta(d, sp, i, k)
  <2>1. FileInput(d)' /\ InputContent(d)' = InputContent(d)
    BY <1>2, <1>8 DEF FromDelta
  <2>2. /\ (PayloadResolves(d.deltaIndex, "delta"))'
        /\ chunkDeps'[d.deltaIndex] = chunkDeps[d.deltaIndex]
    BY <1>3, <1>8 DEF FromDelta
  <2>3. (FromDelta(d, sp, i, k))'
    BY <1>2, <1>4, <1>8, <2>1, <2>2 DEF FromDelta
  <2> QED BY <1>8, <2>3 DEF MakesBlock
<1> QED BY <1>6, <1>7, <1>8 DEF MakesBlock

(* What a file makes, it goes on making. *)
LEMMA MakesStays ==
  ASSUME ListsGrow, NEW file, NEW sp, NEW i, NEW e, Makes(file, sp, i, e)
  PROVE  Makes(file, sp, i, e)'
<1>1. UNCHANGED <<disk, indexed, db>>
  BY DEF ListsGrow, inputVars
<1>2. Copied(file) => MakesTree(file, sp, i, e)'
  <2> SUFFICES ASSUME Copied(file) PROVE MakesTree(file, sp, i, e)'
    OBVIOUS
  <2>1. MakesTree(file, sp, i, e)
    BY DEF Makes
  <2>2. file.from \in DOMAIN inputFiles' /\ inputFiles'[file.from] = inputFiles[file.from]
    BY <2>1 DEF MakesTree, ListsGrow, Extends
  <2> QED BY <1>1, <2>1, <2>2 DEF MakesTree, EntryOf
<1>3. file.type = "regular" => MakesRegular(file, sp, i)'
  <2> SUFFICES ASSUME file.type = "regular" PROVE MakesRegular(file, sp, i)'
    OBVIOUS
  <2>1. MakesRegular(file, sp, i) /\ ContentAt(sp, i)' = ContentAt(sp, i)
    BY <1>1 DEF Makes, ContentAt
  <2>2. Whole(file.chunks, sp, i) => Whole(file.chunks, sp, i)'
    <3> SUFFICES ASSUME Whole(file.chunks, sp, i) PROVE Whole(file.chunks, sp, i)'
      OBVIOUS
    <3>1. PICK d : d = file.chunks[1] /\ Len(file.chunks) = 1 /\ MakesWhole(d, ContentAt(sp, i))
      BY DEF Whole
    <3>2. d.index \in DOMAIN inputFiles' /\ inputFiles'[d.index] = inputFiles[d.index]
      BY <3>1 DEF MakesWhole, FileInput, ListsGrow, Extends
    <3>3. MakesWhole(d, ContentAt(sp, i))'
      BY <1>1, <2>1, <3>1, <3>2 DEF MakesWhole, FileInput, InputContent, ContentOf, EntryOf
    <3> QED BY <2>1, <3>1, <3>3 DEF Whole
  <2>3. ByBlock(file.chunks, sp, i) => ByBlock(file.chunks, sp, i)'
    BY <2>1, BlockStays DEF ByBlock
  <2> QED BY <1>1, <2>1, <2>2, <2>3 DEF MakesRegular
<1> QED BY <1>1, <1>2, <1>3 DEF Makes

(* What files make, they go on making. *)
LEMMA MadeStays ==
  ASSUME ListsGrow, NEW fs, NEW sp, NEW e, Made(fs, sp, e)
  PROVE  Made(fs, sp, e)'
<1>1. PICK g : Chain(g, fs, sp, e)
  BY DEF Made
<1>2. indexed' = indexed
  BY DEF ListsGrow, inputVars
<1>3. \A k \in 1..Len(fs) : Makes(fs[k], sp, g[k], g[k + 1])'
  BY <1>1, MakesStays DEF Chain
<1>4. Chain(g, fs, sp, e)'
  BY <1>1, <1>2, <1>3 DEF Chain
<1> QED BY <1>4 DEF Made, IsSeq

(* One more file makes what it makes after what is made, once it is added. *)
LEMMA MadeMore ==
  ASSUME NEW fs, NEW sp, NEW e, Made(fs, sp, e)', NEW file, NEW b, Makes(file, sp, e, b)',
         NEW last, last = (Len(indexed[sp]))', last \in Nat, b \in 1..last + 1
  PROVE  Made(Append(fs, file), sp, b)'
<1>1. PICK g : Chain(g, fs, sp, e)' /\ IsSeq(fs)
  BY DEF Made, IsSeq
<1>2. PICK more, n : more = Append(fs, file) /\ n = Len(fs)
  OBVIOUS
<1>3. /\ n \in Nat /\ DOMAIN fs = 1..n /\ IsSeq(more) /\ Len(more) = n + 1 /\ more[n + 1] = file
      /\ \A k \in 1..n : more[k] = fs[k]
  BY <1>1, <1>2, SeqIs, AppendIs DEF Extends
<1>4. PICK h : h = [k \in 1..n + 2 |-> IF k = n + 2 THEN b ELSE g[k]]
  OBVIOUS
<1>5. /\ g \in [1..n + 1 -> 1..last + 1] /\ g[1] = 1 /\ g[n + 1] = e
      /\ \A k \in 1..n : Makes(fs[k], sp, g[k], g[k + 1])'
  BY <1>1, <1>2 DEF Chain
<1>6. /\ h \in [1..n + 2 -> 1..last + 1] /\ h[1] = 1 /\ h[n + 2] = b
      /\ \A k \in 1..n + 1 : h[k] = g[k]
  BY <1>3, <1>4, <1>5
<1>7. ASSUME NEW k \in 1..n + 1
      PROVE  Makes(more[k], sp, h[k], h[k + 1])'
  <2>1. CASE k \in 1..n
    <3>1. h[k] = g[k] /\ h[k + 1] = g[k + 1] /\ more[k] = fs[k]
      BY <1>3, <1>6, <2>1
    <3> QED BY <1>5, <2>1, <3>1
  <2>2. CASE k = n + 1
    <3>1. h[k] = e /\ h[k + 1] = b /\ more[k] = file
      BY <1>3, <1>5, <1>6, <2>2
    <3> QED BY <3>1
  <2> QED BY <1>3, <2>1, <2>2
<1>8. Chain(h, more, sp, b)'
  BY <1>3, <1>6, <1>7 DEF Chain
<1> QED BY <1>2, <1>3, <1>8 DEF Made, IsSeq

-----------------------------------------------------------------------------
(* What dnar-pack has written. *)

(* Every NAR message makes all of its store path. *)
SentWhole(j) ==
  ~Confused(new[j]) => Made(archive[j + 1].files, new[j], Len(indexed[new[j]]) + 1)

SentInv ==
  phase # "failed" => \A j \in 1..Len(new) : j < Len(archive) => SentWhole(j)

(* The directory matched last is a row before this one, and all it has is  *)
(* before e.                                                               *)
MatchedBefore(p, e) ==
  \E i \in 1..Len(rows) :
    /\ i < nf /\ rows[i].path = p /\ rows[i].type = "directory"
    /\ LocalFilesByHash(rows[i].hash) # {}
    /\ \A j \in 1..Len(rows) : IsPrefix(p, rows[j].path) => j < e

(* The rows up to e are to be skipped. *)
SkipsFrom(e) ==
  /\ \A j \in nf..e - 1 : \E p \in recursiveDir : StringPrefix(p, rows[j].path)
  /\ \A p \in recursiveDir : MatchedBefore(p, e)

(* The files at hand make the rows before this one, and those to be        *)
(* skipped from here on.                                                   *)
MadeUpTo(e) == e \in nf..Len(rows) + 1 /\ Made(files, new[np], e) /\ SkipsFrom(e)

AtHandInv ==
  /\ phase \in {"start", "nars"} => recursiveDir = {}
  /\ phase = "files" /\ ~Confused(new[np]) => \E e : MadeUpTo(e)
  /\ phase \in {"reference", "chunks"} /\ ~Confused(new[np]) => MadeUpTo(nf)

(* The chunks being described are the blocks of the file.                  *)
BlockOf(c, sp, i, k) ==
  c.hash = <<ContentAt(sp, i)[k]>> /\ c.size = 1 /\ c.offset = k - 1

BlocksInv ==
  /\ phase \in {"reference", "chunks"} =>
       /\ row.type = "regular" /\ Len(chunks) = Len(ContentAt(new[np], nf))
       /\ \A k \in DOMAIN chunks : BlockOf(chunks[k], new[np], nf, k)
  /\ \A f \in ref : EntryOf(f).type = "regular"
  /\ phase = "chunks" =>
       /\ Len(descs) <= Len(chunks)
       /\ \A k \in 1..Len(descs) : MakesBlock(descs[k], new[np], nf, k)

(* A payload is a block of a store file. *)
PayloadRight(p) ==
  /\ p.file[1] \in StorePath /\ p.file[2] \in DOMAIN indexed[p.file[1]]
  /\ EntryOf(p.file).type = "regular" /\ p.size = 1 /\ p.offset \in Nat
  /\ p.offset + 1 <= Len(ContentOf(p.file)) /\ p.hash = ReadAt(ContentOf(p.file), p.offset, 1)

DepsInv ==
  /\ \A i \in DOMAIN chunkDeps : chunkDeps[i].kind = "chunk" => PayloadRight(chunkDeps[i])
  /\ \A f \in ToSet(inputFiles) : f[1] \in ToSet(inputPaths)

(* The trailer written of the lists as they are. *)
TrailerOf(m) ==
  m = PathTrailer(inputPaths, [i \in DOMAIN inputFiles |->
                                 FileDescriptor(IndexIn(inputPaths, inputFiles[i][1]),
                                                FileRow(inputFiles[i]).path)])

(* Every payload sent is what was read for it, and the trailer is the last *)
(* message of dnar-pack.                                                   *)
DataInv ==
  /\ phase = "done" => ChunkCount = Len(chunkDeps) /\ TrailerOf(archive[Len(archive)])
  /\ phase \in {"payloads", "done"} =>
       \A i \in 1..Len(chunkDeps) : Len(new) + 2 + i <= Len(archive) =>
         archive[Len(new) + 2 + i].data \in DataOf(chunkDeps[i])
  /\ phase = "failed" /\ Len(archive) >= Len(new) + 2 =>
       Len(archive) <= Len(new) + 2 + ChunkCount

WrittenRight == SentInv /\ AtHandInv /\ BlocksInv /\ DepsInv /\ DataInv

-----------------------------------------------------------------------------
(* The rows of the index. *)

(* Row i of a store path tells what entry i is. *)
RowTells(sp, i) ==
  LET r == db[sp][i]
      e == indexed[sp][i] IN
  /\ e \in Entry /\ e.path \in Path
  /\ r.path = e.path /\ r.type = e.type /\ r.target = e.target /\ r.exec = e.exec
  /\ r.size = SizeOf(e) /\ r.chunks = Chunks(e)
  /\ e.type = "regular" => r.hash = e.content /\ r.size = Len(e.content)

(* There is a row for each entry. *)
LEMMA RowsTell ==
  ASSUME InputsInv, NEW sp \in StorePath
  PROVE  /\ indexed[sp] \in Tree /\ Len(indexed[sp]) \in Nat
         /\ DOMAIN indexed[sp] = 1..Len(indexed[sp]) /\ DOMAIN db[sp] = 1..Len(indexed[sp])
         /\ Len(db[sp]) = Len(indexed[sp])
         /\ \A i \in 1..Len(indexed[sp]) : RowTells(sp, i)
<1>1. PICK t : t = indexed[sp] /\ t \in Tree /\ db[sp] = RowsOf(t)
  BY DEF InputsInv
<1>2. /\ Len(t) \in Nat /\ DOMAIN t = 1..Len(t)
      /\ \A i \in 1..Len(t) : t[i] \in Entry /\ t[i].path \in Path
  BY <1>1, TreeIs
<1>3. DOMAIN db[sp] = 1..Len(t)
  BY <1>1, <1>2 DEF RowsOf
<1>4. Len(db[sp]) = Len(t)
  <2>1. Len(db[sp]) \in Nat /\ DOMAIN db[sp] = 1..Len(db[sp])
    BY RowsIs
  <2> QED BY <1>2, <1>3, <2>1
<1>5. ASSUME NEW i \in 1..Len(t)
      PROVE  RowTells(sp, i)
  <2>1. PICK r : r = db[sp][i]
    OBVIOUS
  <2>2. /\ r.path = t[i].path /\ r.type = t[i].type /\ r.target = t[i].target
        /\ r.exec = t[i].exec /\ r.size = SizeOf(t[i]) /\ r.chunks = Chunks(t[i])
        /\ r.hash = DigestOf(t, i, DirectoryDigests(t))
    BY <1>1, <1>2, <2>1 DEF RowsOf
  <2>3. t[i].type = "regular" => r.hash = t[i].content /\ r.size = Len(t[i].content)
    BY <2>2, DigestOfFile, SizeOfFile
  <2> QED BY <1>1, <1>2, <2>1, <2>2, <2>3 DEF RowTells
<1> QED BY <1>1, <1>2, <1>3, <1>4, <1>5

(* The rows being written are those of a store path to send. *)
LEMMA RowsAtHand ==
  ASSUME PackInv, phase \in {"files", "reference", "chunks"}
  PROVE  /\ np \in 1..Len(new) /\ new[np] \in StorePath /\ nf \in Nat /\ nf >= 1
         /\ Len(rows) = Len(indexed[new[np]]) /\ Len(rows) \in Nat
         /\ DOMAIN rows = 1..Len(rows)
         /\ nf <= Len(rows) => /\ nf \in 1..Len(indexed[new[np]])
                               /\ RowTells(new[np], nf) /\ row = db[new[np]][nf]
<1>1. /\ InputsInv /\ np \in 1..Len(new) + 1 /\ np <= Len(new) /\ nf \in 1..Len(rows) + 1
      /\ new \in Seq(StorePath)
  BY DEF PackInv, PhaseInv, InputsInv
<1>2. np \in 1..Len(new) /\ new[np] \in StorePath
  BY <1>1
<1> QED BY <1>1, <1>2, RowsTell DEF rows, row

(* A file of the host is an entry of one of its store paths. *)
LEMMA HostFileIs ==
  ASSUME InputsInv, NEW f \in LocalFiles
  PROVE  /\ f[1] \in local /\ f[1] \in StorePath /\ f[2] \in 1..Len(indexed[f[1]])
         /\ indexed[f[1]] \in Tree /\ DOMAIN indexed[f[1]] = 1..Len(indexed[f[1]])
         /\ EntryOf(f) = indexed[f[1]][f[2]] /\ EntryOf(f) \in Entry
         /\ RowTells(f[1], f[2]) /\ FileRow(f) = db[f[1]][f[2]]
<1>1. PICK sp \in local : f \in {sp} \X DOMAIN db[sp]
  BY DEF LocalFiles
<1>2. f[1] = sp /\ f[2] \in DOMAIN db[sp] /\ sp \in StorePath
  BY <1>1 DEF InputsInv
<1>3. f[2] \in 1..Len(indexed[f[1]]) /\ RowTells(f[1], f[2])
  BY <1>2, RowsTell
<1> QED BY <1>1, <1>2, <1>3, RowsTell DEF EntryOf, FileRow, RowTells

(* A file matched by its hash is one of the host with that hash. *)
LEMMA MatchIs ==
  ASSUME NEW hash, NEW f \in LocalFilesByHash(hash)
  PROVE  f \in LocalFiles /\ FileRow(f).hash = hash
BY DEF LocalFilesByHash

(* A chunk matched by its hash is a block of a file. *)
LEMMA MatchedBlockIs ==
  ASSUME InputsInv, NEW hash, NEW m \in LocalChunksByHash(hash)
  PROVE  /\ m.file \in LocalFiles /\ EntryOf(m.file).type = "regular"
         /\ m.size = 1 /\ m.offset \in Nat
         /\ m.offset + 1 <= Len(ContentOf(m.file))
         /\ hash = ReadAt(ContentOf(m.file), m.offset, 1)
<1>1. PICK f \in LocalFiles :
        m \in {[file |-> f, size |-> c.size, offset |-> c.offset] :
                 c \in {d \in ToSet(FileRow(f).chunks) : d.hash = hash}}
  BY DEF LocalChunksByHash
<1>2. PICK c \in ToSet(FileRow(f).chunks) :
        m = [file |-> f, size |-> c.size, offset |-> c.offset]
  BY <1>1
<1>3. FileRow(f).chunks = Chunks(EntryOf(f)) /\ EntryOf(f) \in Entry
  BY HostFileIs DEF RowTells
<1>4. PICK k \in DOMAIN EntryOf(f).content :
        c = [hash |-> <<EntryOf(f).content[k]>>, size |-> 1, offset |-> k - 1]
  BY <1>2, <1>3 DEF ToSet, Chunks
<1>5. /\ EntryOf(f).type = "regular" /\ k \in 1..Len(EntryOf(f).content)
      /\ Len(EntryOf(f).content) \in Nat
  <2>1. /\ EntryOf(f).content \in Seq(Block)
        /\ EntryOf(f).type # "regular" => EntryOf(f).content = <<>>
    BY <1>3 DEF Entry
  <2>2. DOMAIN <<>> = {}
    BY EmptyIsSeq
  <2> QED BY <1>4, <2>1, <2>2
<1>6. m.file = f /\ m.size = 1 /\ m.offset = k - 1
  BY <1>2, <1>4
<1> QED BY <1>5, <1>6, LocalChunkIs

(* The host, and what is confused, stay as they are. *)
LEMMA SameHost ==
  ASSUME UNCHANGED inputVars
  PROVE  /\ \A hash : (LocalFilesByHash(hash))' = LocalFilesByHash(hash)
         /\ \A sp : Confused(sp)' <=> Confused(sp)
<1>1. UNCHANGED <<disk, indexed, db, local, new>>
  BY DEF inputVars
<1>2. LocalFiles' = LocalFiles /\ \A f : FileRow(f)' = FileRow(f) /\ EntryOf(f)' = EntryOf(f)
  BY <1>1 DEF LocalFiles, FileRow, EntryOf
<1>3. \A hash : (LocalFilesByHash(hash))' = LocalFilesByHash(hash)
  BY <1>2 DEF LocalFilesByHash
<1>4. ASSUME NEW sp
      PROVE  Confused(sp)' <=> Confused(sp)
  <2>1. HasMatchedSibling(sp)' <=> HasMatchedSibling(sp)
    BY <1>1, <1>3 DEF HasMatchedSibling
  <2>2. HasOtherDirectory(sp)' <=> HasOtherDirectory(sp)
    BY <1>1, <1>2, <1>3 DEF HasOtherDirectory
  <2>3. HasOtherFile(sp)' <=> HasOtherFile(sp)
    BY <1>1, <1>2, <1>3 DEF HasOtherFile
  <2> QED BY <2>1, <2>2, <2>3 DEF Confused
<1> QED BY <1>3, <1>4

-----------------------------------------------------------------------------
(* The files at hand. *)

(* The lists grow in every step that does not fail. *)
LEMMA GrowInNext ==
  ASSUME PackInv, PackNext
  PROVE  /\ UNCHANGED inputVars /\ phase \notin {"done", "failed"}
         /\ Extends(archive, archive')
         /\ phase' # "failed" => ListsGrow
<1>1. /\ IsSeq(archive) /\ IsSeq(inputFiles) /\ IsSeq(chunkDeps)
      /\ Extends(inputFiles, inputFiles) /\ Extends(chunkDeps, chunkDeps)
  BY SameIsPrefix DEF PackInv, ListsInv
<1>2. Extends(archive, archive')
  BY ArchiveGrows
<1>3. CASE \/ SendNarHeader \/ BeginNar \/ SkipFile \/ PackSymlink \/ PackDirectory \/ LookUpChunks
           \/ ChooseReference \/ EndFile \/ SendChunkHeader \/ SendChunk \/ SendTrailer \/ EndNar
  <2>1. /\ UNCHANGED <<inputVars, inputFiles, chunkDeps>> /\ phase \notin {"done", "failed"}
    BY <1>3 DEF BeginNar, SkipFile, PackSymlink, PackDirectory, LookUpChunks, ChooseReference,
                EndFile, SendNarHeader, SendChunkHeader, SendChunk, SendTrailer, EndNar,
                AtFile, depVars
  <2> QED BY <1>1, <1>2, <2>1 DEF ListsGrow
<1>4. CASE \E k \in todo : ComputeDelta(k)
  <2>1. UNCHANGED <<inputVars, inputFiles, chunkDeps>> /\ phase \notin {"done", "failed"}
    BY <1>4 DEF ComputeDelta, depVars
  <2> QED BY <1>1, <1>2, <2>1 DEF ListsGrow
<1>5. CASE \/ \E f \in LocalFiles : PackMatchedDirectory(f) \/ PackMatchedFile(f)
           \/ DescribeMatchedChunk
  <2>1. PICK f : AddInputStoreFile(f)
    BY <1>5 DEF PackMatchedDirectory, PackMatchedFile, DescribeMatchedChunk
  <2>2. UNCHANGED <<inputVars, chunkDeps>> /\ phase \notin {"done", "failed"}
    BY <1>5 DEF PackMatchedDirectory, PackMatchedFile, DescribeMatchedChunk, AtFile, AtChunk
  <2>3. Extends(inputFiles, inputFiles')
    BY <1>1, <2>1, AppendNewIs DEF AddInputStoreFile
  <2> QED BY <1>1, <1>2, <2>2, <2>3 DEF ListsGrow
<1>6. CASE DescribeDelta
  <2>1. PICK f, p : AddInputStoreFile(f) /\ chunkDeps' = Append(chunkDeps, p)
    BY <1>6 DEF DescribeDelta
  <2>2. UNCHANGED inputVars /\ phase \notin {"done", "failed"}
    BY <1>6 DEF DescribeDelta, AtChunk
  <2>3. Extends(inputFiles, inputFiles') /\ Extends(chunkDeps, chunkDeps')
    BY <1>1, <2>1, AppendNewIs, AppendIs DEF AddInputStoreFile
  <2> QED BY <1>2, <2>2, <2>3 DEF ListsGrow
<1>7. CASE DescribeCAChunk
  <2>1. /\ UNCHANGED <<inputVars, inputFiles>> /\ phase \notin {"done", "failed"}
        /\ chunkDeps' = chunkDeps \/ \E p : chunkDeps' = Append(chunkDeps, p)
    BY <1>7 DEF DescribeCAChunk, AddChunkDep, AtChunk
  <2>2. Extends(chunkDeps, chunkDeps')
    BY <1>1, <2>1, AppendIs
  <2> QED BY <1>1, <1>2, <2>1, <2>2 DEF ListsGrow
<1>8. CASE FileUnreadable \/ PackFail
  BY <1>2, <1>8 DEF FileUnreadable, PackFail, Abort
<1> QED BY <1>3, <1>4, <1>5, <1>6, <1>7, <1>8 DEF PackNext, PackStep

(* A row that is not skipped is the next one to make. *)
LEMMA NotSkipped ==
  ASSUME PackInv, AtHandInv, phase = "files", nf <= Len(rows), ~Skipped, ~Confused(new[np])
  PROVE  MadeUpTo(nf)
<1>1. PICK e : MadeUpTo(e)
  BY DEF AtHandInv
<1>2. nf \in Nat /\ Len(rows) \in Nat /\ e \in nf..Len(rows) + 1
  BY <1>1, RowsAtHand DEF MadeUpTo
<1>3. ~(nf < e)
  <2>1. nf < e => nf \in nf..e - 1
    BY <1>2
  <2>2. \A j \in nf..e - 1 : \E p \in recursiveDir : StringPrefix(p, rows[j].path)
    BY <1>1 DEF MadeUpTo, SkipsFrom
  <2>3. nf < e => Skipped
    BY <2>1, <2>2 DEF Skipped, row
  <2> QED BY <2>3
<1>4. e = nf
  BY <1>2, <1>3
<1> QED BY <1>1, <1>4

(* A row skipped is below the directory matched, unless it is confused.    *)
LEMMA SkippedIsBelow ==
  ASSUME PackInv, phase = "files", nf <= Len(rows), Skipped, ~Confused(new[np]),
         NEW e, MadeUpTo(e)
  PROVE  nf < e
<1>1. /\ nf \in 1..Len(rows) /\ Len(rows) \in Nat /\ e \in nf..Len(rows) + 1
      /\ DOMAIN rows = 1..Len(rows) /\ rows = db[new[np]]
  BY RowsAtHand DEF MadeUpTo, rows
<1>2. PICK p \in recursiveDir : StringPrefix(p, rows[nf].path)
  BY DEF Skipped, row
<1>3. MatchedBefore(p, e)
  BY <1>2 DEF MadeUpTo, SkipsFrom
<1>4. PICK i \in 1..Len(rows) :
        /\ i < nf /\ rows[i].path = p /\ rows[i].type = "directory"
        /\ LocalFilesByHash(rows[i].hash) # {}
        /\ \A j \in 1..Len(rows) : IsPrefix(p, rows[j].path) => j < e
  BY <1>3 DEF MatchedBefore
<1>5. IsPrefix(p, rows[nf].path)
  <2>1. ~HasMatchedSibling(new[np])
    BY DEF Confused
  <2>2. i \in DOMAIN db[new[np]] /\ nf \in DOMAIN db[new[np]]
    BY <1>1
  <2>3. ~IsPrefix(p, rows[nf].path) => HasMatchedSibling(new[np])
    BY <1>1, <1>2, <1>4, <2>2 DEF HasMatchedSibling
  <2> QED BY <2>1, <2>3
<1> QED BY <1>1, <1>4, <1>5

(* The position among the rows, and what it is relative to, in the next    *)
(* state.                                                                  *)
LEMMA SkipsOn ==
  ASSUME UNCHANGED <<inputVars, np, recursiveDir>>, nf \in Nat, nf' \in Nat, nf <= nf',
         NEW e, NEW b, e \in Nat, b \in Nat, e <= b, b <= e \/ b <= nf', SkipsFrom(e)
  PROVE  SkipsFrom(b)'
<1>1. rows' = rows /\ \A hash : (LocalFilesByHash(hash))' = LocalFilesByHash(hash)
  BY SameHost DEF rows, inputVars
<1>2. nf'..b - 1 \subseteq nf..e - 1
  OBVIOUS
<1>3. \A j \in nf'..b - 1 : \E p \in recursiveDir' : StringPrefix(p, rows'[j].path)
  BY <1>1, <1>2 DEF SkipsFrom
<1>4. ASSUME NEW p \in recursiveDir
      PROVE  MatchedBefore(p, b)'
  <2>1. PICK i \in 1..Len(rows) :
          /\ i < nf /\ rows[i].path = p /\ rows[i].type = "directory"
          /\ LocalFilesByHash(rows[i].hash) # {}
          /\ \A j \in 1..Len(rows) : IsPrefix(p, rows[j].path) => j < e
    BY <1>4 DEF SkipsFrom, MatchedBefore
  <2>2. i < nf' /\ \A j \in 1..Len(rows) : IsPrefix(p, rows[j].path) => j < b
    BY <2>1
  <2>3. (LocalFilesByHash(rows[i].hash))' # {}
    BY <1>1, <2>1
  <2> QED BY <1>1, <2>1, <2>2, <2>3 DEF MatchedBefore
<1> QED BY <1>3, <1>4 DEF SkipsFrom

(* The files are the same in the next state, and make the same.            *)
LEMMA MadeOn ==
  ASSUME ListsGrow, UNCHANGED <<np, files>>, NEW e, Made(files, new[np], e)
  PROVE  (Made(files, new[np], e))'
<1>1. PICK fs, sp : fs = files /\ sp = new[np]
  OBVIOUS
<1>2. Made(fs, sp, e)'
  BY <1>1, MadeStays
<1>3. files' = fs /\ (new[np])' = sp
  BY <1>1 DEF ListsGrow, inputVars
<1> QED BY <1>2, <1>3

(* One more file makes its rows after those made.                          *)
LEMMA FileMade ==
  ASSUME PackInv, ListsGrow, UNCHANGED np, phase \in {"files", "reference", "chunks"},
         NEW sp, sp = new[np], NEW i, i = nf, i <= Len(rows), Made(files, new[np], i),
         NEW file, files' = Append(files, file),
         NEW b, b \in i + 1..Len(rows) + 1, Makes(file, sp, i, b)'
  PROVE  (Made(files, new[np], b))' /\ rows' = rows /\ new' = new
<1>1. PICK fs : fs = files
  OBVIOUS
<1>2. /\ Len(rows) = Len(indexed[sp]) /\ Len(rows) \in Nat /\ i \in Nat /\ i >= 1
      /\ indexed' = indexed /\ new' = new /\ rows' = rows
  BY RowsAtHand DEF ListsGrow, inputVars, rows
<1>3. Made(fs, sp, i)'
  BY <1>1, MadeStays
<1>4. PICK last : last = (Len(indexed[sp]))'
  OBVIOUS
<1>5. Made(Append(fs, file), sp, b)'
  <2>1. last \in Nat /\ b \in 1..last + 1
    BY <1>2, <1>4
  <2> QED BY <1>3, <1>4, <2>1, MadeMore
<1> QED BY <1>1, <1>2, <1>5

(* A file that makes its row leaves the next row to be made.               *)
LEMMA RowMade ==
  ASSUME PackInv, ListsGrow, UNCHANGED <<np, recursiveDir>>,
         phase \in {"files", "reference", "chunks"}, nf <= Len(rows), MadeUpTo(nf),
         NEW file, files' = Append(files, file), nf' = nf + 1,
         NEW sp, sp = new[np], NEW i, i = nf, Makes(file, sp, i, i + 1)'
  PROVE  (\E e : MadeUpTo(e))'
<1>1. i \in Nat /\ i >= 1 /\ Len(rows) \in Nat
  BY RowsAtHand
<1>2. PICK b : b = i + 1 /\ b \in i + 1..Len(rows) + 1
  BY <1>1
<1>3. Made(files, new[np], i)
  BY DEF MadeUpTo
<1>4. (Made(files, new[np], b))' /\ rows' = rows
  BY <1>1, <1>2, <1>3, FileMade
<1>5. SkipsFrom(b)'
  <2>1. SkipsFrom(i)
    BY DEF MadeUpTo
  <2>2. UNCHANGED inputVars /\ nf' \in Nat /\ nf <= nf' /\ i <= b /\ b <= nf' /\ b \in Nat
    BY <1>1, <1>2 DEF ListsGrow
  <2> QED BY <1>1, <2>1, <2>2, SkipsOn
<1>6. MadeUpTo(b)'
  <2>1. b \in nf'..Len(rows') + 1
    BY <1>1, <1>2, <1>4
  <2> QED BY <1>4, <1>5, <2>1 DEF MadeUpTo
<1> QED BY <1>6

(* In the next state the NAR at hand is confused only if it is in this one. *)
LEMMA StillConfused ==
  ASSUME UNCHANGED <<inputVars, np>>
  PROVE  (Confused(new[np]))' <=> Confused(new[np])
<1>1. PICK sp : sp = new[np]
  OBVIOUS
<1>2. Confused(sp)' <=> Confused(sp)
  BY SameHost
<1>3. (new[np])' = sp
  BY <1>1 DEF inputVars
<1> QED BY <1>1, <1>2, <1>3

(* A symbolic link, and a directory of which the host has none like it.    *)
LEMMA OtherFileMakes ==
  ASSUME PackInv, AtHandInv, PackSymlink \/ PackDirectory
  PROVE  AtHandInv'
<1>1. PICK sp, i, file : /\ sp = new[np] /\ i = nf /\ files' = Append(files, file)
                         /\ \/ row.type = "symlink" /\ file = SymlinkFile(row.path, row.target)
                            \/ row.type = "directory" /\ file = DirectoryFile(row.path, NoDirectory)
  BY DEF PackSymlink, PackDirectory, AtFile, AddFile
<1>2. /\ UNCHANGED <<inputVars, np, recursiveDir, phase>> /\ phase = "files"
      /\ nf <= Len(rows) /\ ~Skipped /\ nf' = nf + 1
  BY DEF PackSymlink, PackDirectory, AtFile, AddFile
<1>3. ListsGrow
  <2>1. PackNext
    BY DEF PackNext, PackStep
  <2> QED BY <1>2, <2>1, GrowInNext
<1>4. (Confused(new[np]))' <=> Confused(new[np])
  BY <1>2, StillConfused
<1>5. ASSUME ~Confused(new[np])
      PROVE  (\E e : MadeUpTo(e))'
  <2>1. MadeUpTo(nf)
    BY <1>2, <1>5, NotSkipped
  <2>2. /\ i \in 1..Len(indexed[sp]) /\ DOMAIN indexed[sp] = 1..Len(indexed[sp])
        /\ RowTells(sp, i) /\ row = db[sp][i]
    BY <1>1, <1>2, RowsAtHand, RowsTell DEF PackInv
  <2>3. /\ file.type = indexed[sp][i].type /\ file.path = indexed[sp][i].path
        /\ file.type # "regular" /\ ~Copied(file)
        /\ file.type = "symlink" => file.target = indexed[sp][i].target
    BY <1>1, <2>2 DEF RowTells, SymlinkFile, DirectoryFile, Copied
  <2>4. Makes(file, sp, i, i + 1)'
    BY <1>2, <2>2, <2>3 DEF Makes, Copied, inputVars
  <2> QED BY <1>1, <1>2, <1>3, <2>1, <2>4, RowMade
<1> QED BY <1>2, <1>4, <1>5 DEF AtHandInv

(* A directory of the host that is the same one makes it and all below it. *)
LEMMA MatchedDirectoryMakes ==
  ASSUME PackInv, AtHandInv, NEW f \in LocalFiles, PackMatchedDirectory(f)
  PROVE  AtHandInv'
<1>1. PICK sp, i, file, n :
        /\ sp = new[np] /\ i = nf /\ files' = Append(files, file)
        /\ n = IndexIn(inputFiles', f) /\ file = DirectoryFile(row.path, n)
  BY DEF PackMatchedDirectory, AddFile
<1>2. /\ UNCHANGED <<inputVars, np, phase>> /\ phase = "files"
      /\ nf <= Len(rows) /\ ~Skipped /\ nf' = nf + 1 /\ recursiveDir' = {row.path}
      /\ row.type = "directory" /\ f \in LocalFilesByHash(row.hash) /\ AddInputStoreFile(f)
  BY DEF PackMatchedDirectory, AtFile, AddFile
<1>3. ListsGrow
  <2>1. PackNext
    BY DEF PackNext, PackStep
  <2> QED BY <1>2, <2>1, GrowInNext
<1>4. (Confused(new[np]))' <=> Confused(new[np])
  BY <1>2, StillConfused
<1>5. ASSUME ~Confused(new[np])
      PROVE  (\E e : MadeUpTo(e))'
  <2>1. MadeUpTo(nf)
    BY <1>2, <1>5, NotSkipped
  <2>2. /\ i \in 1..Len(indexed[sp]) /\ DOMAIN indexed[sp] = 1..Len(indexed[sp])
        /\ RowTells(sp, i) /\ row = db[sp][i] /\ indexed[sp] \in Tree /\ sp \in StorePath
        /\ rows = db[sp] /\ DOMAIN rows = 1..Len(indexed[sp]) /\ Len(rows) = Len(indexed[sp])
        /\ Len(rows) \in Nat /\ \A j \in 1..Len(rows) : RowTells(sp, j)
    BY <1>1, <1>2, RowsAtHand, RowsTell DEF PackInv, rows
  <2>3. PICK b : Spanned(indexed[sp], i, b)
    BY <2>2, SpanExists
  <2>4. /\ b \in i + 1..Len(rows) + 1
        /\ \A j \in 1..Len(rows) : IsPrefix(row.path, rows[j].path) <=> j \in i..b - 1
    <3>1. \A j \in 1..Len(rows) : rows[j].path = indexed[sp][j].path
      BY <2>2 DEF RowTells
    <3>2. row.path = indexed[sp][i].path
      BY <2>2 DEF RowTells
    <3> QED BY <2>2, <2>3, <3>1, <3>2 DEF Spanned
  <2>5. n \in DOMAIN inputFiles' /\ inputFiles'[n] = f /\ n # NoDirectory
    <3>1. IsSeq(inputFiles) /\ inputFiles' = AppendNew(inputFiles, f)
      BY <1>2 DEF PackInv, ListsInv, AddInputStoreFile
    <3>2. n \in DOMAIN inputFiles' /\ inputFiles'[n] = f /\ IsSeq(inputFiles')
      BY <1>1, <3>1, AppendNewIs
    <3>3. n \in 1..Len(inputFiles') /\ Len(inputFiles') \in Nat
      BY <3>2, SeqIs
    <3> QED BY <3>2, <3>3 DEF NoDirectory
  <2>6. NodesAt(indexed[f[1]], EntryOf(f).path, row.path) = SubSeq(NarOf(indexed[sp]), i, b - 1)
    <3>1. NodesAt(indexed[f[1]], EntryOf(f).path, row.path)
            = NodesAt(indexed[sp], row.path, row.path)
      <4>1. ~HasOtherDirectory(sp)
        BY <1>1, <1>5 DEF Confused
      <4>2. i \in DOMAIN db[sp] /\ db[sp][i].type = "directory"
            /\ f \in LocalFilesByHash(db[sp][i].hash)
        BY <1>2, <2>2
      <4> QED BY <2>2, <4>1, <4>2 DEF HasOtherDirectory
    <3>2. row.path = indexed[sp][i].path
      BY <2>2 DEF RowTells
    <3> QED BY <2>2, <2>3, <3>1, <3>2, SpanNodes
  <2>7. /\ file.type = "directory" /\ file.path = row.path /\ file.from = n /\ Copied(file)
        /\ indexed[sp][i].type = "directory" /\ indexed[sp][i].path = row.path
    BY <1>1, <1>2, <2>2, <2>5 DEF DirectoryFile, Copied, RowTells
  <2>8. MakesTree(file, sp, i, b)'
    BY <1>2, <2>3, <2>5, <2>6, <2>7 DEF MakesTree, EntryOf, inputVars
  <2>9. Makes(file, sp, i, b)'
    BY <1>2, <2>2, <2>7, <2>8 DEF Makes, Copied, inputVars
  <2>10. (Made(files, new[np], b))' /\ rows' = rows
    <3>1. Made(files, new[np], i)
      BY <1>1, <2>1 DEF MadeUpTo
    <3> QED BY <1>1, <1>2, <1>3, <2>4, <2>9, <3>1, FileMade
  <2>11. SkipsFrom(b)'
    <3>1. ASSUME NEW j \in nf'..b - 1
          PROVE  StringPrefix(row.path, rows'[j].path)
      <4>1. j \in 1..Len(rows) /\ j \in i..b - 1
        BY <1>1, <1>2, <2>2, <2>4
      <4>2. IsPrefix(row.path, rows[j].path) /\ row.path \in Path /\ rows[j].path \in Path
        BY <2>2, <2>4, <4>1 DEF RowTells
      <4> QED BY <2>10, <4>2, PrefixIs
    <3>2. PICK p : p = row.path
      OBVIOUS
    <3>3. MatchedBefore(p, b)'
      <4>1. i \in 1..Len(rows) /\ i < nf' /\ rows[i] = row
        BY <1>1, <1>2, <2>2
      <4>2. (LocalFilesByHash(rows[i].hash))' # {}
        <5>1. PICK hash : hash = row.hash
          OBVIOUS
        <5>2. (LocalFilesByHash(hash))' = LocalFilesByHash(hash)
          BY <1>2, SameHost
        <5>3. rows'[i].hash = hash
          BY <2>10, <4>1, <5>1
        <5> QED BY <1>2, <5>1, <5>2, <5>3
      <4>3. \A j \in 1..Len(rows) : IsPrefix(p, rows[j].path) => j < b
        BY <1>1, <2>2, <2>4, <3>2
      <4> QED BY <1>2, <2>10, <3>2, <4>1, <4>2, <4>3 DEF MatchedBefore
    <3> QED BY <1>2, <3>1, <3>2, <3>3 DEF SkipsFrom
  <2>12. MadeUpTo(b)'
    <3>1. b \in nf'..Len(rows') + 1
      BY <1>1, <1>2, <2>2, <2>4, <2>10
    <3> QED BY <2>10, <2>11, <3>1 DEF MadeUpTo
  <2> QED BY <2>12
<1> QED BY <1>2, <1>4, <1>5 DEF AtHandInv

(* A file of the host with the same hash has the same contents, unless     *)
(* what has the hash is no file.                                           *)
LEMMA MatchedFileMakes ==
  ASSUME PackInv, AtHandInv, NEW f \in LocalFiles, PackMatchedFile(f)
  PROVE  AtHandInv'
<1>1. PICK sp, i, file, n, d :
        /\ sp = new[np] /\ i = nf /\ files' = Append(files, file) /\ n = IndexIn(inputFiles', f)
        /\ d = FD(n, FileRow(f).size, 0, FileRow(f).hash) /\ file = RegularFile(row, <<d>>)
  BY DEF PackMatchedFile, AddFile
<1>2. /\ UNCHANGED <<inputVars, np, recursiveDir, phase>> /\ phase = "files"
      /\ nf <= Len(rows) /\ ~Skipped /\ nf' = nf + 1
      /\ row.type = "regular" /\ f \in LocalFilesByHash(row.hash) /\ AddInputStoreFile(f)
  BY DEF PackMatchedFile, AtFile, AddFile
<1>3. ListsGrow
  <2>1. PackNext
    BY DEF PackNext, PackStep
  <2> QED BY <1>2, <2>1, GrowInNext
<1>4. (Confused(new[np]))' <=> Confused(new[np])
  BY <1>2, StillConfused
<1>5. ASSUME ~Confused(new[np])
      PROVE  (\E e : MadeUpTo(e))'
  <2>1. MadeUpTo(nf)
    BY <1>2, <1>5, NotSkipped
  <2>2. /\ i \in 1..Len(indexed[sp]) /\ DOMAIN indexed[sp] = 1..Len(indexed[sp])
        /\ DOMAIN db[sp] = 1..Len(indexed[sp]) /\ RowTells(sp, i) /\ row = db[sp][i]
    BY <1>1, <1>2, RowsAtHand, RowsTell DEF PackInv
  <2>3. FileRow(f).type = "regular"
    <3>1. ~HasOtherFile(sp)
      BY <1>1, <1>5 DEF Confused
    <3> QED BY <1>2, <2>2, <3>1 DEF HasOtherFile
  <2>4. /\ EntryOf(f).type = "regular" /\ ContentOf(f) = ContentAt(sp, i)
        /\ FileRow(f).size = Len(ContentAt(sp, i))
    <3>1. RowTells(f[1], f[2]) /\ EntryOf(f) = indexed[f[1]][f[2]] /\ FileRow(f) = db[f[1]][f[2]]
      BY HostFileIs DEF PackInv
    <3>2. FileRow(f).hash = row.hash
      BY <1>2, MatchIs
    <3>3. EntryOf(f).type = "regular" /\ FileRow(f).hash = ContentOf(f)
          /\ FileRow(f).size = Len(ContentOf(f))
      BY <2>3, <3>1 DEF RowTells, ContentOf
    <3>4. row.hash = ContentAt(sp, i)
      BY <1>2, <2>2 DEF RowTells, ContentAt
    <3> QED BY <3>2, <3>3, <3>4
  <2>5. n \in DOMAIN inputFiles' /\ inputFiles'[n] = f
    <3>1. IsSeq(inputFiles) /\ inputFiles' = AppendNew(inputFiles, f)
      BY <1>2 DEF PackInv, ListsInv, AddInputStoreFile
    <3> QED BY <1>1, <3>1, AppendNewIs
  <2>6. PICK ds : ds = <<d>> /\ IsSeq(ds) /\ Len(ds) = 1 /\ ds[1] = d
    <3>1. PICK none : none = <<>> /\ IsSeq(none) /\ Len(none) = 0
      BY EmptyIsSeq
    <3>2. IsSeq(Append(none, d)) /\ Len(Append(none, d)) = 1 /\ Append(none, d)[1] = d
      <4>1. /\ IsSeq(Append(none, d)) /\ Len(Append(none, d)) = Len(none) + 1
            /\ Append(none, d)[Len(none) + 1] = d
        BY <3>1, AppendIs, Zenon
      <4> QED BY <3>1, <4>1
    <3>3. <<d>> = Append(none, d)
      BY <3>1
    <3> QED BY <3>2, <3>3
  <2>7. MakesWhole(d, ContentAt(sp, i))'
    <3>1. ContentAt(sp, i)' = ContentAt(sp, i) /\ ContentOf(f)' = ContentOf(f)
          /\ EntryOf(f)' = EntryOf(f)
      BY <1>2 DEF inputVars, ContentAt, ContentOf, EntryOf
    <3>2. d.chunk = "fd" /\ d.index = n /\ d.size = FileRow(f).size /\ d.offset = 0
      BY <1>1 DEF FD
    <3>3. FileInput(d)' /\ InputContent(d)' = ContentOf(f)
      BY <2>4, <2>5, <3>1, <3>2 DEF FileInput, InputContent, ContentOf, EntryOf
    <3> QED BY <2>4, <3>1, <3>2, <3>3 DEF MakesWhole
  <2>8. /\ file.type = "regular" /\ file.path = row.path /\ file.size = row.size
        /\ file.exec = row.exec /\ file.chunks = ds
    BY <1>1, <2>6 DEF RegularFile
  <2>9. /\ row.size = Len(ContentAt(sp, i)) /\ row.exec = indexed[sp][i].exec
        /\ row.path = indexed[sp][i].path /\ indexed[sp][i].type = "regular"
    BY <1>2, <2>2 DEF RowTells, ContentAt
  <2>10. MakesRegular(file, sp, i)'
    <3>1. Whole(ds, sp, i)'
      BY <2>6, <2>7 DEF Whole
    <3> QED BY <1>2, <2>6, <2>8, <2>9, <3>1 DEF MakesRegular, ContentAt, inputVars
  <2>11. Makes(file, sp, i, i + 1)'
    BY <1>2, <2>2, <2>8, <2>9, <2>10 DEF Makes, Copied, inputVars
  <2> QED BY <1>1, <1>2, <1>3, <2>1, <2>11, RowMade
<1> QED BY <1>2, <1>4, <1>5 DEF AtHandInv

(* The blocks described make the file.                                     *)
LEMMA EndFileMakes ==
  ASSUME PackInv, AtHandInv, BlocksInv, EndFile
  PROVE  AtHandInv'
<1>1. PICK sp, i, file, ds : /\ sp = new[np] /\ i = nf /\ files' = Append(files, file)
                             /\ ds = descs /\ file = RegularFile(row, ds)
  BY DEF EndFile, AddFile
<1>2. /\ UNCHANGED <<inputVars, np, recursiveDir, inputFiles, chunkDeps>>
      /\ phase = "chunks" /\ phase' = "files" /\ nf' = nf + 1 /\ Len(ds) = Len(chunks)
      /\ nf <= Len(rows) /\ IsSeq(ds)
  BY <1>1 DEF EndFile, AddFile, depVars, PackInv, PhaseInv, ListsInv
<1>3. ListsGrow
  <2>1. PackNext
    BY DEF PackNext, PackStep
  <2> QED BY <1>2, <2>1, GrowInNext
<1>4. (Confused(new[np]))' <=> Confused(new[np])
  BY <1>2, StillConfused
<1>5. ASSUME ~Confused(new[np])
      PROVE  (\E e : MadeUpTo(e))'
  <2>1. MadeUpTo(nf)
    BY <1>2, <1>5 DEF AtHandInv
  <2>2. /\ i \in 1..Len(indexed[sp]) /\ DOMAIN indexed[sp] = 1..Len(indexed[sp])
        /\ RowTells(sp, i) /\ row = db[sp][i]
    BY <1>1, <1>2, RowsAtHand, RowsTell DEF PackInv
  <2>3. /\ row.type = "regular" /\ Len(ds) = Len(ContentAt(sp, i))
        /\ \A k \in 1..Len(ds) : MakesBlock(ds[k], sp, i, k)
    BY <1>1, <1>2 DEF BlocksInv
  <2>4. ContentAt(sp, i)' = ContentAt(sp, i)
    BY <1>2 DEF inputVars, ContentAt
  <2>5. ByBlock(ds, sp, i)'
    <3>1. \A k \in 1..Len(ds) : MakesBlock(ds[k], sp, i, k)'
      BY <1>3, <2>3, BlockStays
    <3> QED BY <2>3, <2>4, <3>1 DEF ByBlock
  <2>6. /\ file.type = "regular" /\ file.path = row.path /\ file.size = row.size
        /\ file.exec = row.exec /\ file.chunks = ds
    BY <1>1 DEF RegularFile
  <2>7. /\ row.size = Len(ContentAt(sp, i)) /\ row.exec = indexed[sp][i].exec
        /\ row.path = indexed[sp][i].path /\ indexed[sp][i].type = "regular"
    BY <2>2, <2>3 DEF RowTells, ContentAt
  <2>8. MakesRegular(file, sp, i)'
    BY <1>2, <2>5, <2>6, <2>7 DEF MakesRegular, ContentAt, inputVars, IsSeq
  <2>9. Makes(file, sp, i, i + 1)'
    BY <1>2, <2>2, <2>6, <2>7, <2>8 DEF Makes, Copied, inputVars
  <2> QED BY <1>1, <1>2, <1>3, <2>1, <2>9, RowMade
<1> QED BY <1>2, <1>4, <1>5 DEF AtHandInv

(* The files at hand stay as they are while a file is described.           *)
LEMMA AtHandStays ==
  ASSUME PackInv, AtHandInv, ListsGrow, UNCHANGED <<np, nf, files, recursiveDir>>,
         phase' \in {"reference", "chunks"},
         phase \in {"reference", "chunks"} \/ (phase = "files" /\ nf <= Len(rows) /\ ~Skipped)
  PROVE  AtHandInv'
<1>1. UNCHANGED inputVars /\ nf \in Nat
  BY RowsAtHand DEF ListsGrow
<1>2. (Confused(new[np]))' <=> Confused(new[np])
  BY <1>1, StillConfused
<1>3. ASSUME ~Confused(new[np])
      PROVE  MadeUpTo(nf)'
  <2>1. PICK i : i = nf
    OBVIOUS
  <2>2. MadeUpTo(nf)
    BY <1>3, NotSkipped DEF AtHandInv
  <2>3. MadeUpTo(i)
    BY <2>1, <2>2
  <2>4. rows' = rows
    BY <1>1 DEF rows, inputVars
  <2>5. (Made(files, new[np], i))'
    BY <2>3, MadeOn DEF MadeUpTo
  <2>6. SkipsFrom(i)'
    <3>1. i \in Nat /\ i <= i /\ nf' \in Nat /\ nf <= nf'
      BY <1>1, <2>1
    <3>2. SkipsFrom(i)
      BY <2>3 DEF MadeUpTo
    <3> QED BY <1>1, <3>1, <3>2, SkipsOn
  <2>7. MadeUpTo(i)'
    BY <2>3, <2>4, <2>5, <2>6 DEF MadeUpTo
  <2> QED BY <2>1, <2>7
<1> QED BY <1>2, <1>3 DEF AtHandInv

(* A row that is skipped is one that is made already.                      *)
LEMMA SkipFileMakes ==
  ASSUME PackInv, AtHandInv, SkipFile
  PROVE  AtHandInv'
<1>1. /\ UNCHANGED <<inputVars, np, files, recursiveDir, phase, inputFiles, chunkDeps>>
      /\ phase = "files" /\ nf <= Len(rows) /\ Skipped /\ nf' = nf + 1
  BY DEF SkipFile, narVars, depVars
<1>2. ListsGrow
  <2>1. PackNext
    BY DEF PackNext, PackStep
  <2> QED BY <1>1, <2>1, GrowInNext
<1>3. (Confused(new[np]))' <=> Confused(new[np])
  BY <1>1, StillConfused
<1>4. ASSUME ~Confused(new[np])
      PROVE  (\E e : MadeUpTo(e))'
  <2>1. PICK e : MadeUpTo(e)
    BY <1>1, <1>4 DEF AtHandInv
  <2>2. nf < e /\ nf \in Nat /\ e \in nf..Len(rows) + 1 /\ Len(rows) \in Nat
    BY <1>1, <1>4, <2>1, SkippedIsBelow, RowsAtHand DEF MadeUpTo
  <2>3. rows' = rows
    BY <1>1 DEF rows, inputVars
  <2>4. (Made(files, new[np], e))'
    BY <1>1, <1>2, <2>1, MadeOn DEF MadeUpTo
  <2>5. SkipsFrom(e)'
    <3>1. nf' \in Nat /\ nf <= nf' /\ e \in Nat /\ e <= e
      BY <1>1, <2>2
    <3>2. SkipsFrom(e)
      BY <2>1 DEF MadeUpTo
    <3> QED BY <1>1, <2>2, <3>1, <3>2, SkipsOn
  <2>6. MadeUpTo(e)'
    <3>1. e \in nf'..Len(rows') + 1
      BY <1>1, <2>2, <2>3
    <3> QED BY <2>4, <2>5, <3>1 DEF MadeUpTo
  <2> QED BY <2>6
<1> QED BY <1>1, <1>3, <1>4 DEF AtHandInv

(* Nothing is made at the beginning of a NAR.                              *)
LEMMA BeginNarMakes ==
  ASSUME PackInv, AtHandInv, BeginNar, PackInv'
  PROVE  AtHandInv'
<1>1. /\ UNCHANGED <<inputVars, np, files, recursiveDir>>
      /\ phase = "nars" /\ phase' = "files" /\ nf' = 1 /\ files = <<>> /\ recursiveDir = {}
  BY DEF BeginNar, narVars, PackInv, PhaseInv, AtHandInv
<1>2. /\ (Len(rows) = Len(indexed[new[np]]))' /\ (Len(rows) \in Nat)'
  <2>1. InputsInv /\ np \in 1..Len(new) /\ new \in Seq(StorePath)
    BY DEF BeginNar, PackInv, PhaseInv, InputsInv
  <2>2. new[np] \in StorePath
    BY <2>1
  <2>3. Len(rows) = Len(indexed[new[np]]) /\ Len(rows) \in Nat
    BY <2>1, <2>2, RowsTell DEF rows
  <2> QED BY <1>1, <2>3 DEF rows, inputVars
<1>3. (Made(files, new[np], 1))'
  <2>1. PICK sp : sp = (new[np])'
    OBVIOUS
  <2>2. PICK g : g = [k \in 1..1 |-> 1]
    OBVIOUS
  <2>3. files' = <<>> /\ Len(<<>>) = 0 /\ IsSeq(<<>>)
    BY <1>1, EmptyIsSeq
  <2>4. g \in [1..1 -> 1..(Len(indexed[sp]))' + 1] /\ g[1] = 1
    BY <1>2, <2>1, <2>2
  <2>5. Chain(g, <<>>, sp, 1)'
    BY <2>3, <2>4 DEF Chain
  <2> QED BY <2>1, <2>3, <2>5 DEF Made, IsSeq
<1>4. SkipsFrom(1)'
  BY <1>1 DEF SkipsFrom
<1>5. MadeUpTo(1)'
  BY <1>1, <1>2, <1>3, <1>4 DEF MadeUpTo
<1> QED BY <1>1, <1>5 DEF AtHandInv

(* The files at hand make what they are to make.                           *)
LEMMA AtHandKept ==
  ASSUME PackInv, PackInv', AtHandInv, BlocksInv, PackNext
  PROVE  AtHandInv'
<1>1. CASE BeginNar
  BY <1>1, BeginNarMakes
<1>2. CASE SkipFile
  BY <1>2, SkipFileMakes
<1>3. CASE PackSymlink \/ PackDirectory
  BY <1>3, OtherFileMakes
<1>4. CASE \E f \in LocalFiles : PackMatchedDirectory(f)
  BY <1>4, MatchedDirectoryMakes
<1>5. CASE \E f \in LocalFiles : PackMatchedFile(f)
  BY <1>5, MatchedFileMakes
<1>6. CASE EndFile
  BY <1>6, EndFileMakes
<1>7. CASE \/ LookUpChunks \/ ChooseReference \/ \E k \in todo : ComputeDelta(k)
           \/ DescribeMatchedChunk \/ DescribeDelta \/ DescribeCAChunk
  <2>1. /\ UNCHANGED <<np, nf, narVars>> /\ phase' \in {"reference", "chunks"}
        /\ phase \in {"reference", "chunks"} \/ (phase = "files" /\ nf <= Len(rows) /\ ~Skipped)
    <3>1. CASE LookUpChunks \/ ChooseReference
      BY <3>1 DEF LookUpChunks, ChooseReference, AtFile
    <3>2. CASE \E k \in todo : ComputeDelta(k)
      BY <3>2 DEF ComputeDelta
    <3>3. CASE DescribeMatchedChunk
      BY <3>3 DEF DescribeMatchedChunk, AtChunk
    <3>4. CASE DescribeDelta
      BY <3>4 DEF DescribeDelta, AtChunk
    <3>5. CASE DescribeCAChunk
      BY <3>5 DEF DescribeCAChunk, AtChunk
    <3> QED BY <1>7, <3>1, <3>2, <3>3, <3>4, <3>5
  <2>2. ListsGrow
    BY <2>1, GrowInNext
  <2> QED BY <2>1, <2>2, AtHandStays DEF narVars
<1>8. CASE SendNarHeader
  BY <1>8 DEF SendNarHeader, AtHandInv, narVars
<1>9. CASE EndNar
  BY <1>9 DEF EndNar, AtHandInv
<1>10. CASE SendChunkHeader \/ SendChunk \/ SendTrailer \/ FileUnreadable \/ PackFail
  <2>1. phase' \in {"payloads", "done", "failed"}
    BY <1>10 DEF SendChunkHeader, SendChunk, SendTrailer, FileUnreadable, PackFail, Abort
  <2> QED BY <2>1 DEF AtHandInv
<1> QED BY <1>1, <1>2, <1>3, <1>4, <1>5, <1>6, <1>7, <1>8, <1>9, <1>10 DEF PackNext, PackStep

-----------------------------------------------------------------------------
(* The blocks of the file at hand. *)

(* The row at hand and its entry stay as they are.                         *)
LEMMA RowStays ==
  ASSUME UNCHANGED <<inputVars, np, nf>>
  PROVE  /\ row' = row /\ new' = new /\ ContentAt(new[np], nf)' = ContentAt(new[np], nf)
         /\ \A c, k : (BlockOf(c, new[np], nf, k))' <=> BlockOf(c, new[np], nf, k)
BY DEF inputVars, row, rows, ContentAt, BlockOf

(* The chunks looked up are the blocks of the file.                        *)
LEMMA LookUpChunksBlocks ==
  ASSUME PackInv, BlocksInv, LookUpChunks
  PROVE  BlocksInv'
<1>1. /\ UNCHANGED <<inputVars, np, nf, ref>> /\ phase = "files" /\ phase' = "reference"
      /\ nf <= Len(rows) /\ row.type = "regular" /\ chunks' \in MatchedChunks(row.chunks)
  BY DEF LookUpChunks, AtFile
<1>2. PICK sp, i, full : sp = new[np] /\ i = nf /\ full = ContentAt(sp, i)
  OBVIOUS
<1>3. /\ row.chunks = Chunks(indexed[sp][i]) /\ full = indexed[sp][i].content
      /\ full \in Seq(Block)
  BY <1>1, <1>2, RowsAtHand DEF RowTells, Entry, ContentAt
<1>4. PICK cs : cs = row.chunks /\ cs = [k \in DOMAIN full |->
                    [hash |-> <<full[k]>>, size |-> 1, offset |-> k - 1]]
  BY <1>3 DEF Chunks
<1>5. PICK m : chunks' = [k \in DOMAIN cs |-> [hash |-> cs[k].hash, size |-> cs[k].size,
                                              offset |-> cs[k].offset, match |-> m[k]]]
  BY <1>1, <1>4 DEF MatchedChunks
<1>6. DOMAIN cs = 1..Len(full) /\ Len(full) \in Nat
  BY <1>3, <1>4
<1>7. DOMAIN chunks' = 1..Len(full) /\ Len(chunks') = Len(full)
  BY <1>5, <1>6
<1>8. \A k \in DOMAIN chunks' : BlockOf(chunks'[k], sp, i, k)
  <2> SUFFICES ASSUME NEW k \in DOMAIN chunks' PROVE BlockOf(chunks'[k], sp, i, k)
    OBVIOUS
  <2>1. chunks'[k].hash = cs[k].hash /\ chunks'[k].size = cs[k].size
        /\ chunks'[k].offset = cs[k].offset
    BY <1>5
  <2>2. cs[k].hash = <<full[k]>> /\ cs[k].size = 1 /\ cs[k].offset = k - 1
    <3>1. k \in DOMAIN full
      BY <1>3, <1>7
    <3>2. cs[k] = [hash |-> <<full[k]>>, size |-> 1, offset |-> k - 1]
      BY <1>4, <3>1
    <3> QED BY <3>2
  <2> QED BY <1>2, <2>1, <2>2 DEF BlockOf
<1>9. \A f \in ref' : EntryOf(f)'.type = "regular"
  BY <1>1 DEF BlocksInv, EntryOf, inputVars
<1> QED BY <1>1, <1>2, <1>7, <1>8, <1>9, RowStays DEF BlocksInv

(* A file most chunks are matched in is a regular one.                     *)
LEMMA ReferenceIsRegular ==
  ASSUME PackInv, NEW f \in MostPopular
  PROVE  EntryOf(f).type = "regular"
<1>1. PICK k \in DOMAIN chunks : Voted(k, f)
  BY DEF MostPopular
<1>2. PICK m \in chunks[k].match : m.file = f
  BY <1>1 DEF Voted
<1>3. m \in LocalChunksByHash(chunks[k].hash)
  BY <1>1, <1>2 DEF PackInv, ChunksInv
<1> QED BY <1>2, <1>3, MatchedBlockIs DEF PackInv

(* A descriptor added makes the next block.                                *)
LEMMA DescriptorMakes ==
  ASSUME PackInv, BlocksInv, ListsGrow, UNCHANGED <<phase, np, nf, chunks, ref>>,
         phase = "chunks", NEW k, AtChunk(k), NEW d, descs' = Append(descs, d),
         NEW sp, sp = new[np], NEW i, i = nf, MakesBlock(d, sp, i, k)'
  PROVE  BlocksInv'
<1>1. UNCHANGED inputVars /\ IsSeq(descs) /\ Len(descs) \in Nat /\ k = Len(descs) + 1
      /\ k <= Len(chunks)
  BY SeqIs DEF ListsGrow, PackInv, ListsInv, AtChunk
<1>2. PICK more : more = descs'
  OBVIOUS
<1>3. /\ Len(more) = k /\ more[k] = d /\ \A j \in 1..Len(descs) : more[j] = descs[j]
  BY <1>1, <1>2, AppendIs, SeqIs DEF Extends
<1>4. (new[np])' = sp /\ nf' = i
  BY <1>1 DEF inputVars
<1>5. \A j \in 1..k : MakesBlock(more[j], sp, i, j)'
  <2> SUFFICES ASSUME NEW j \in 1..k PROVE MakesBlock(more[j], sp, i, j)'
    OBVIOUS
  <2>1. CASE j = k
    BY <1>3, <2>1
  <2>2. CASE j \in 1..Len(descs)
    <3>1. MakesBlock(more[j], sp, i, j)
      BY <1>3, <2>2 DEF BlocksInv
    <3> QED BY <3>1, BlockStays
  <2> QED BY <1>1, <2>1, <2>2
<1>6. \A f \in ref' : EntryOf(f)'.type = "regular"
  BY <1>1 DEF BlocksInv, EntryOf, inputVars
<1>7. \A j \in 1..Len(descs') : (MakesBlock(descs[j], new[np], nf, j))'
  BY <1>2, <1>3, <1>4, <1>5
<1> QED BY <1>1, <1>2, <1>3, <1>6, <1>7, RowStays DEF BlocksInv

(* The chunk to be described is a block of the file.                       *)
LEMMA ChunkAtHand ==
  ASSUME PackInv, BlocksInv, NEW k, AtChunk(k), NEW sp, sp = new[np], NEW i, i = nf
  PROVE  /\ BlockOf(chunks[k], sp, i, k) /\ k \in DOMAIN chunks
         /\ k \in 1..Len(ContentAt(sp, i)) /\ k \in Nat
         /\ sp \in StorePath /\ i \in DOMAIN indexed[sp] /\ indexed[sp][i].type = "regular"
         /\ ContentAt(sp, i) \in Seq(Block)
<1>1. /\ phase = "chunks" /\ k = Len(descs) + 1 /\ k <= Len(chunks)
      /\ Len(chunks) \in Nat /\ DOMAIN chunks = 1..Len(chunks) /\ Len(descs) \in Nat
      /\ nf <= Len(rows) /\ InputsInv
  BY SeqIs DEF AtChunk, PackInv, ListsInv, ChunksInv, PhaseInv
<1>2. k \in DOMAIN chunks /\ row.type = "regular" /\ Len(chunks) = Len(ContentAt(sp, i))
      /\ BlockOf(chunks[k], sp, i, k)
  BY <1>1 DEF BlocksInv
<1>3. /\ sp \in StorePath /\ i \in 1..Len(indexed[sp]) /\ RowTells(sp, i) /\ row = db[sp][i]
      /\ DOMAIN indexed[sp] = 1..Len(indexed[sp])
  BY <1>1, RowsAtHand, RowsTell
<1> QED BY <1>1, <1>2, <1>3 DEF RowTells, ContentAt, Entry

(* A file added to the trailer's files is there, at its index.             *)
LEMMA InputIsAt ==
  ASSUME PackInv, UNCHANGED inputVars, NEW f, AddInputStoreFile(f), NEW n, n = IndexIn(inputFiles', f)
  PROVE  /\ n \in DOMAIN inputFiles' /\ inputFiles'[n] = f
         /\ EntryOf(f)' = EntryOf(f) /\ ContentOf(f)' = ContentOf(f)
<1>1. inputFiles' = AppendNew(inputFiles, f) /\ IsSeq(inputFiles)
  BY DEF PackInv, ListsInv, AddInputStoreFile
<1> QED BY <1>1, AppendNewIs DEF EntryOf, ContentOf, inputVars

(* A chunk of the host makes the block.                                    *)
LEMMA DescribeMatchedChunkMakes ==
  ASSUME PackInv, BlocksInv, DescribeMatchedChunk
  PROVE  BlocksInv'
<1>1. UNCHANGED <<inputVars, phase, np, nf, chunks, ref>> /\ phase = "chunks"
  BY DEF DescribeMatchedChunk, AtChunk
<1>2. ListsGrow
  <2>1. PackNext
    BY DEF PackNext, PackStep
  <2> QED BY <1>1, <2>1, GrowInNext
<1>3. PICK sp, i, k, m, f, n, d :
        /\ sp = new[np] /\ i = nf /\ k = Len(descs) + 1 /\ AtChunk(k) /\ m \in chunks[k].match
        /\ f = m.file /\ AddInputStoreFile(f) /\ n = IndexIn(inputFiles', f)
        /\ d = FD(n, m.size, m.offset, chunks[k].hash) /\ descs' = Append(descs, d)
  BY DEF DescribeMatchedChunk
<1>4. BlockOf(chunks[k], sp, i, k) /\ k \in DOMAIN chunks
  BY <1>3, ChunkAtHand
<1>5. PICK block : block = chunks[k].hash /\ block = <<ContentAt(sp, i)[k]>>
  BY <1>4 DEF BlockOf
<1>6. m \in LocalChunksByHash(block)
  BY <1>3, <1>4, <1>5 DEF PackInv, ChunksInv
<1>7. /\ EntryOf(f).type = "regular" /\ m.size = 1 /\ m.offset \in Nat
      /\ m.offset + 1 <= Len(ContentOf(f)) /\ block = ReadAt(ContentOf(f), m.offset, 1)
  BY <1>3, <1>6, MatchedBlockIs DEF PackInv
<1>8. d.chunk = "fd" /\ d.index = n /\ d.size = m.size /\ d.offset = m.offset
  BY <1>3 DEF FD
<1>9. MakesBlock(d, sp, i, k)'
  <2>1. /\ n \in DOMAIN inputFiles' /\ inputFiles'[n] = f
        /\ EntryOf(f)' = EntryOf(f) /\ ContentOf(f)' = ContentOf(f)
    BY <1>1, <1>3, InputIsAt
  <2>2. FileInput(d)' /\ InputContent(d)' = ContentOf(f)
    BY <1>7, <1>8, <2>1 DEF FileInput, InputContent, EntryOf, ContentOf
  <2>3. ContentAt(sp, i)' = ContentAt(sp, i)
    BY <1>1 DEF inputVars, ContentAt
  <2>4. (FromInput(d, <<ContentAt(sp, i)[k]>>))'
    BY <1>5, <1>7, <1>8, <2>2, <2>3 DEF FromInput
  <2> QED BY <1>8, <2>4 DEF MakesBlock
<1> QED BY <1>1, <1>2, <1>3, <1>9, DescriptorMakes

(* The result of a delta is the block, and its base all of the reference.  *)
LEMMA DescribeDeltaMakes ==
  ASSUME PackInv, BlocksInv, DescribeDelta
  PROVE  BlocksInv'
<1>1. UNCHANGED <<inputVars, phase, np, nf, chunks, ref>> /\ phase = "chunks"
  BY DEF DescribeDelta, AtChunk
<1>2. ListsGrow
  <2>1. PackNext
    BY DEF PackNext, PackStep
  <2> QED BY <1>1, <2>1, GrowInNext
<1>3. PICK sp, i, k, c, f, n, base, result, p, d :
        /\ sp = new[np] /\ i = nf /\ k = Len(descs) + 1 /\ AtChunk(k) /\ c = chunks[k]
        /\ f \in ref /\ base \in FileOnDisk(f) /\ result \in RangeOnDisk(thisFile, c)
        /\ AddInputStoreFile(f) /\ n = IndexIn(inputFiles', f)
        /\ p = DeltaPayload(base, result) /\ chunkDeps' = Append(chunkDeps, p)
        /\ d = Delta(n, FileRow(f).size, 0, FileRow(f).hash, Len(chunkDeps'), c.size)
        /\ descs' = Append(descs, d)
  BY DEF DescribeDelta
<1>4. c.size = 1 /\ c.offset = k - 1
  BY <1>3, ChunkAtHand DEF BlockOf
<1>5. f \in LocalFiles /\ EntryOf(f).type = "regular" /\ FileRow(f).size = Len(ContentOf(f))
  <2>1. f \in LocalFiles /\ EntryOf(f).type = "regular"
    BY <1>3 DEF PackInv, ChunksInv, BlocksInv
  <2>2. RowTells(f[1], f[2]) /\ EntryOf(f) = indexed[f[1]][f[2]] /\ FileRow(f) = db[f[1]][f[2]]
    BY <2>1, HostFileIs DEF PackInv
  <2> QED BY <2>1, <2>2 DEF RowTells, ContentOf
<1>6. /\ d.chunk = "delta" /\ d.index = n /\ d.size = FileRow(f).size /\ d.offset = 0
      /\ d.deltaIndex = Len(chunkDeps') /\ d.resultSize = 1
  BY <1>3, <1>4 DEF Delta
<1>7. /\ d.deltaIndex \in DOMAIN chunkDeps' /\ chunkDeps'[d.deltaIndex] = p
      /\ p.kind = "delta" /\ p.base = base /\ p.result = result
  <2>1. IsSeq(chunkDeps) /\ Len(chunkDeps) \in Nat
    BY SeqIs DEF PackInv, ListsInv
  <2>2. /\ Len(chunkDeps') = Len(chunkDeps) + 1 /\ DOMAIN chunkDeps' = 1..Len(chunkDeps) + 1
        /\ chunkDeps'[Len(chunkDeps) + 1] = p
    BY <1>3, <2>1, AppendIs
  <2> QED BY <1>3, <1>6, <2>1, <2>2 DEF DeltaPayload
<1>8. MakesBlock(d, sp, i, k)'
  <2>1. /\ n \in DOMAIN inputFiles' /\ inputFiles'[n] = f
        /\ EntryOf(f)' = EntryOf(f) /\ ContentOf(f)' = ContentOf(f)
    BY <1>1, <1>3, InputIsAt
  <2>2. FileInput(d)' /\ InputContent(d)' = ContentOf(f)
    BY <1>5, <1>6, <2>1 DEF FileInput, InputContent, EntryOf, ContentOf
  <2>3. (chunkDeps[d.deltaIndex].base \in FileOnDisk(inputFiles[d.index]))'
    <3>1. (FileOnDisk(inputFiles[d.index]))' = FileOnDisk(f)
      BY <1>1, <1>6, <2>1 DEF FileOnDisk, OnDisk, FileRow, inputVars
    <3> QED BY <1>3, <1>7, <3>1
  <2>4. (chunkDeps[d.deltaIndex].result
           \in RangeOnDisk(<<sp, i>>, [size |-> 1, offset |-> k - 1]))'
    <3>1. RangeOnDisk(thisFile, c) = RangeOnDisk(<<sp, i>>, [size |-> 1, offset |-> k - 1])
      BY <1>3, <1>4 DEF RangeOnDisk, thisFile
    <3>2. (RangeOnDisk(<<sp, i>>, [size |-> 1, offset |-> k - 1]))'
            = RangeOnDisk(<<sp, i>>, [size |-> 1, offset |-> k - 1])
      BY <1>1 DEF RangeOnDisk, FileOnDisk, OnDisk, FileRow, inputVars
    <3> QED BY <1>3, <1>7, <3>1, <3>2
  <2>5. (PayloadResolves(d.deltaIndex, "delta"))'
    BY <1>7 DEF PayloadResolves
  <2>6. (FromDelta(d, sp, i, k))'
    BY <1>5, <1>6, <2>2, <2>3, <2>4, <2>5 DEF FromDelta
  <2> QED BY <1>6, <2>6 DEF MakesBlock
<1> QED BY <1>1, <1>2, <1>3, <1>8, DescriptorMakes

(* The payload with the hash of the block is the block.                    *)
LEMMA DescribeCAChunkMakes ==
  ASSUME PackInv, BlocksInv, DescribeCAChunk
  PROVE  BlocksInv'
<1>1. UNCHANGED <<inputVars, phase, np, nf, chunks, ref>> /\ phase = "chunks"
  BY DEF DescribeCAChunk, AtChunk
<1>2. ListsGrow
  <2>1. PackNext
    BY DEF PackNext, PackStep
  <2> QED BY <1>1, <2>1, GrowInNext
<1>3. PICK sp, i, k, n, d :
        /\ sp = new[np] /\ i = nf /\ k = Len(descs) + 1 /\ AtChunk(k)
        /\ n \in DOMAIN chunkDeps' /\ chunkDeps'[n].kind = "chunk"
        /\ chunkDeps'[n].hash = chunks[k].hash /\ d = CA(n) /\ descs' = Append(descs, d)
  BY DEF DescribeCAChunk
<1>4. chunks[k].hash = <<ContentAt(sp, i)[k]>>
  BY <1>3, ChunkAtHand DEF BlockOf
<1>5. d.chunk = "ca" /\ d.index = n
  BY <1>3 DEF CA
<1>6. ContentAt(sp, i)' = ContentAt(sp, i)
  BY <1>1 DEF inputVars, ContentAt
<1>7. MakesBlock(d, sp, i, k)'
  BY <1>3, <1>4, <1>5, <1>6 DEF MakesBlock, FromPayload, PayloadResolves
<1> QED BY <1>1, <1>2, <1>3, <1>7, DescriptorMakes

(* What is described of the file makes its first blocks.                   *)
LEMMA BlocksKept ==
  ASSUME PackInv, BlocksInv, PackNext
  PROVE  BlocksInv'
<1>0. UNCHANGED inputVars /\ \A f : EntryOf(f)' = EntryOf(f)
  BY GrowInNext DEF EntryOf, inputVars
<1>1. CASE LookUpChunks
  BY <1>1, LookUpChunksBlocks
<1>2. CASE ChooseReference
  <2>1. /\ UNCHANGED <<np, nf, chunks>> /\ phase = "reference" /\ phase' = "chunks"
        /\ descs' = <<>> /\ ref' \subseteq MostPopular
    BY <1>2 DEF ChooseReference
  <2>2. \A f \in ref' : EntryOf(f)'.type = "regular"
    BY <1>0, <2>1, ReferenceIsRegular
  <2>3. Len(descs') = 0 /\ Len(chunks) \in Nat
    BY <2>1, EmptyIsSeq DEF PackInv, ChunksInv
  <2> QED BY <1>0, <2>1, <2>2, <2>3, RowStays DEF BlocksInv
<1>3. CASE \E k \in todo : ComputeDelta(k)
  <2>1. UNCHANGED <<phase, np, nf, chunks, ref, descs, inputFiles, chunkDeps>> /\ phase = "chunks"
    BY <1>3 DEF ComputeDelta, depVars
  <2>2. ListsGrow
    BY <2>1, GrowInNext
  <2>3. \A f \in ref' : EntryOf(f)'.type = "regular"
    BY <1>0, <2>1 DEF BlocksInv
  <2>4. PICK sp, i : sp = new[np] /\ i = nf
    OBVIOUS
  <2>5. \A k \in 1..Len(descs) : MakesBlock(descs[k], sp, i, k)'
    <3> SUFFICES ASSUME NEW k \in 1..Len(descs) PROVE MakesBlock(descs[k], sp, i, k)'
      OBVIOUS
    <3>1. PICK d : d = descs[k] /\ d = descs'[k]
      BY <2>1
    <3>2. MakesBlock(d, sp, i, k)'
      BY <2>1, <2>2, <2>4, <3>1, BlockStays DEF BlocksInv
    <3> QED BY <3>1, <3>2
  <2>6. (new[np])' = sp /\ nf' = i
    BY <1>0, <2>1, <2>4 DEF inputVars
  <2> QED BY <1>0, <2>1, <2>3, <2>4, <2>5, <2>6, RowStays DEF BlocksInv
<1>4. CASE DescribeMatchedChunk
  BY <1>4, DescribeMatchedChunkMakes
<1>5. CASE DescribeDelta
  BY <1>5, DescribeDeltaMakes
<1>6. CASE DescribeCAChunk
  BY <1>6, DescribeCAChunkMakes
<1>7. CASE EndFile \/ FileUnreadable \/ PackFail
  <2>1. phase' \notin {"reference", "chunks"} /\ ref' = {}
    BY <1>7 DEF EndFile, FileUnreadable, PackFail, Abort
  <2> QED BY <2>1 DEF BlocksInv
<1>8. CASE \/ SendNarHeader \/ BeginNar \/ SkipFile \/ PackSymlink \/ PackDirectory
           \/ \E f \in LocalFiles : PackMatchedDirectory(f) \/ PackMatchedFile(f)
           \/ SendChunkHeader \/ SendChunk \/ SendTrailer \/ EndNar
  <2>1. phase' \notin {"reference", "chunks"} /\ UNCHANGED ref
    BY <1>8 DEF SendNarHeader, BeginNar, SkipFile, PackSymlink, PackDirectory, SendChunkHeader,
                SendChunk, SendTrailer, EndNar, PackMatchedDirectory, PackMatchedFile, AtFile,
                fileVars
  <2> QED BY <1>0, <2>1 DEF BlocksInv
<1> QED BY <1>1, <1>2, <1>3, <1>4, <1>5, <1>6, <1>7, <1>8 DEF PackNext, PackStep

-----------------------------------------------------------------------------
(* The messages. *)

(* The store path of every file is in the trailer.                         *)
LEMMA PathAdded ==
  ASSUME PackInv, DepsInv, NEW f, AddInputStoreFile(f)
  PROVE  \A g \in ToSet(inputFiles') : g[1] \in ToSet(inputPaths')
<1>1. /\ IsSeq(inputFiles) /\ IsSeq(inputPaths) /\ inputFiles' = AppendNew(inputFiles, f)
      /\ \A g \in ToSet(inputFiles) : g[1] \in ToSet(inputPaths)
  BY DEF PackInv, ListsInv, AddInputStoreFile, DepsInv
<1>2. ToSet(inputFiles') = ToSet(inputFiles) \cup {f}
  BY <1>1, AppendNewIs
<1>3. CASE f \in ToSet(inputFiles)
  <2>1. inputPaths' = inputPaths
    BY <1>3 DEF AddInputStoreFile
  <2> QED BY <1>1, <1>2, <1>3, <2>1
<1>4. CASE f \notin ToSet(inputFiles)
  <2>1. ToSet(inputPaths') = ToSet(inputPaths) \cup {f[1]}
    BY <1>1, <1>4, AppendNewIs DEF AddInputStoreFile
  <2> QED BY <1>1, <1>2, <2>1
<1> QED BY <1>3, <1>4

(* A payload added is a block of the file at hand, or a delta.             *)
LEMMA PayloadAdded ==
  ASSUME PackInv, DepsInv, UNCHANGED inputVars, NEW p, chunkDeps' = Append(chunkDeps, p),
         p.kind = "chunk" => PayloadRight(p)
  PROVE  \A i \in DOMAIN chunkDeps' : chunkDeps'[i].kind = "chunk" => PayloadRight(chunkDeps[i])'
<1>1. /\ IsSeq(chunkDeps) /\ Len(chunkDeps) \in Nat /\ DOMAIN chunkDeps = 1..Len(chunkDeps)
  BY SeqIs DEF PackInv, ListsInv
<1>2. /\ DOMAIN chunkDeps' = 1..Len(chunkDeps) + 1 /\ chunkDeps'[Len(chunkDeps) + 1] = p
      /\ \A i \in 1..Len(chunkDeps) : chunkDeps'[i] = chunkDeps[i]
  BY <1>1, AppendIs DEF Extends
<1>3. \A q : PayloadRight(q) => PayloadRight(q)'
  BY DEF PayloadRight, EntryOf, ContentOf, inputVars
<1>4. ASSUME NEW i \in DOMAIN chunkDeps', chunkDeps'[i].kind = "chunk"
      PROVE  PayloadRight(chunkDeps[i])'
  <2>1. PICK q : q = chunkDeps'[i]
    OBVIOUS
  <2>2. PayloadRight(q)
    BY <1>1, <1>2, <1>4, <2>1 DEF DepsInv
  <2>3. PayloadRight(q)'
    BY <1>3, <2>2
  <2> QED BY <2>1, <2>3
<1> QED BY <1>4

(* The payloads are right and the trailer has every store path.            *)
LEMMA DepsKept ==
  ASSUME PackInv, BlocksInv, DepsInv, PackNext
  PROVE  DepsInv'
<1>1. UNCHANGED inputVars /\ \A q : PayloadRight(q) => PayloadRight(q)'
  BY GrowInNext DEF PayloadRight, EntryOf, ContentOf, inputVars
<1>2. ASSUME UNCHANGED chunkDeps
      PROVE  \A i \in DOMAIN chunkDeps' : chunkDeps'[i].kind = "chunk" => PayloadRight(chunkDeps[i])'
  <2> SUFFICES ASSUME NEW i \in DOMAIN chunkDeps, chunkDeps[i].kind = "chunk"
               PROVE  PayloadRight(chunkDeps[i])'
    BY <1>2
  <2>1. PICK q : q = chunkDeps[i] /\ q = chunkDeps'[i]
    BY <1>2
  <2>2. PayloadRight(q)'
    BY <1>1, <2>1 DEF DepsInv
  <2> QED BY <2>1, <2>2
<1>3. CASE \/ SendNarHeader \/ BeginNar \/ SkipFile \/ PackSymlink \/ PackDirectory \/ LookUpChunks
           \/ ChooseReference \/ EndFile \/ SendChunkHeader \/ SendChunk \/ SendTrailer \/ EndNar
  <2>1. UNCHANGED <<inputFiles, inputPaths, chunkDeps>>
    BY <1>3 DEF BeginNar, SkipFile, PackSymlink, PackDirectory, LookUpChunks, ChooseReference,
                EndFile, SendNarHeader, SendChunkHeader, SendChunk, SendTrailer, EndNar, depVars
  <2> QED BY <1>2, <2>1 DEF DepsInv
<1>4. CASE \E k \in todo : ComputeDelta(k)
  <2>1. UNCHANGED <<inputFiles, inputPaths, chunkDeps>>
    BY <1>4 DEF ComputeDelta, depVars
  <2> QED BY <1>2, <2>1 DEF DepsInv
<1>5. CASE \/ \E f \in LocalFiles : PackMatchedDirectory(f) \/ PackMatchedFile(f)
           \/ DescribeMatchedChunk
  <2>1. PICK f : AddInputStoreFile(f)
    BY <1>5 DEF PackMatchedDirectory, PackMatchedFile, DescribeMatchedChunk
  <2>2. UNCHANGED chunkDeps
    BY <1>5 DEF PackMatchedDirectory, PackMatchedFile, DescribeMatchedChunk
  <2> QED BY <1>2, <2>1, <2>2, PathAdded DEF DepsInv
<1>6. CASE DescribeDelta
  <2>1. PICK f, p : AddInputStoreFile(f) /\ chunkDeps' = Append(chunkDeps, p) /\ p.kind = "delta"
    BY <1>6 DEF DescribeDelta, DeltaPayload
  <2> QED BY <1>1, <2>1, PathAdded, PayloadAdded DEF DepsInv
<1>7. CASE DescribeCAChunk
  <2>1. UNCHANGED <<inputFiles, inputPaths>>
    BY <1>7 DEF DescribeCAChunk
  <2>2. CASE UNCHANGED chunkDeps
    BY <1>2, <2>1, <2>2 DEF DepsInv
  <2>3. CASE chunkDeps' # chunkDeps
    <3>1. PICK k, c, f, p : /\ k = Len(descs) + 1 /\ AtChunk(k) /\ c = chunks[k] /\ f = thisFile
                            /\ p = ChunkPayload(f, c) /\ chunkDeps' = Append(chunkDeps, p)
      BY <1>7, <2>3 DEF DescribeCAChunk, AddChunkDep
    <3>2. PICK sp, i, full : /\ sp = new[np] /\ i = nf /\ f = <<sp, i>>
                             /\ full = ContentAt(sp, i)
      BY <3>1 DEF thisFile
    <3>3. /\ BlockOf(c, sp, i, k) /\ k \in 1..Len(full) /\ full \in Seq(Block)
          /\ sp \in StorePath /\ i \in DOMAIN indexed[sp] /\ indexed[sp][i].type = "regular"
      BY <3>1, <3>2, ChunkAtHand
    <3>4. /\ p.file = f /\ p.file[1] = sp /\ p.file[2] = i /\ p.size = 1 /\ p.offset = k - 1
          /\ p.hash = <<full[k]>> /\ ContentOf(p.file) = full /\ EntryOf(p.file) = indexed[sp][i]
      BY <3>1, <3>2, <3>3 DEF ChunkPayload, BlockOf, ContentOf, EntryOf, ContentAt
    <3>5. k \in Nat /\ Len(full) \in Nat /\ k - 1 \in Nat /\ (k - 1) + 1 = k
      BY <3>3
    <3>6. ReadAt(full, k - 1, 1) = <<full[k]>>
      BY <3>3, <3>5, OneOfSeq DEF ReadAt
    <3>7. PayloadRight(p)
      BY <3>3, <3>4, <3>5, <3>6 DEF PayloadRight
    <3> QED BY <1>1, <2>1, <3>1, <3>7, PayloadAdded DEF DepsInv
  <2> QED BY <2>2, <2>3
<1>8. CASE FileUnreadable \/ PackFail
  <2>1. inputFiles' = <<>> /\ chunkDeps' = <<>>
    BY <1>8 DEF FileUnreadable, PackFail, Abort
  <2> QED BY <2>1, EmptyIsSeq DEF DepsInv
<1> QED BY <1>3, <1>4, <1>5, <1>6, <1>7, <1>8 DEF PackNext, PackStep

(* What is sent is what was written, once it is in the archive.            *)
LEMMA SentStays ==
  ASSUME PackInv, SentInv, ListsGrow, Extends(archive, archive'), phase # "failed",
         NEW j \in 1..Len(new), j < Len(archive)
  PROVE  SentWhole(j)'
<1>1. PICK sp, fs, last : /\ sp = new[j] /\ fs = archive[j + 1].files /\ last = Len(indexed[sp]) + 1
  OBVIOUS
<1>2. j + 1 \in DOMAIN archive /\ archive'[j + 1] = archive[j + 1]
  <2>1. DOMAIN archive = 1..Len(archive) /\ Len(archive) \in Nat
    BY CountsAre, SeqIs
  <2>2. j + 1 \in DOMAIN archive
    BY <2>1
  <2> QED BY <2>2 DEF Extends
<1>3. /\ new'[j] = sp /\ indexed' = indexed /\ (Confused(sp)' <=> Confused(sp))
  BY <1>1, SameHost DEF ListsGrow, inputVars
<1>4. ASSUME ~Confused(sp)
      PROVE  Made(fs, sp, last)'
  BY <1>1, <1>4, MadeStays DEF SentInv, SentWhole
<1>5. archive'[j + 1].files = fs /\ Len(indexed'[sp]) + 1 = last
  BY <1>1, <1>2, <1>3
<1> QED BY <1>3, <1>4, <1>5 DEF SentWhole

(* A NAR message makes all of its store path.                              *)
LEMMA SentKept ==
  ASSUME PackInv, ArchiveInv, SentInv, AtHandInv, PackNext
  PROVE  SentInv'
<1> SUFFICES ASSUME phase' # "failed", NEW j \in 1..Len(new'), j < Len(archive')
             PROVE  SentWhole(j)'
  BY DEF SentInv
<1>1. /\ UNCHANGED inputVars /\ ListsGrow /\ Extends(archive, archive') /\ phase # "failed"
      /\ j \in 1..Len(new)
  BY GrowInNext DEF inputVars
<1>2. /\ IsSeq(archive) /\ Len(archive) \in Nat /\ Len(new) \in Nat /\ np \in 1..Len(new) + 1
      /\ WrittenInv
  BY CountsAre DEF ArchiveInv
<1>3. CASE j < Len(archive)
  BY <1>1, <1>3, SentStays
<1>4. CASE ~(j < Len(archive))
  <2>1. archive' # archive
    BY <1>4
  <2>2. SendNarHeader \/ SendChunkHeader \/ SendChunk \/ SendTrailer \/ EndNar
    <3>1. CASE \/ BeginNar \/ SkipFile \/ PackSymlink \/ PackDirectory \/ LookUpChunks
               \/ ChooseReference \/ EndFile
               \/ \E f \in LocalFiles : PackMatchedDirectory(f) \/ PackMatchedFile(f)
      BY <2>1, <3>1 DEF BeginNar, SkipFile, PackSymlink, PackDirectory, LookUpChunks,
                        ChooseReference, EndFile, PackMatchedDirectory, PackMatchedFile
    <3>2. CASE \/ \E k \in todo : ComputeDelta(k)
               \/ DescribeMatchedChunk \/ DescribeDelta \/ DescribeCAChunk
      BY <2>1, <3>2 DEF ComputeDelta, DescribeMatchedChunk, DescribeDelta, DescribeCAChunk
    <3>3. CASE FileUnreadable \/ PackFail
      BY <2>1, <3>3 DEF FileUnreadable, PackFail, Abort
    <3> QED BY <3>1, <3>2, <3>3 DEF PackNext, PackStep
  <2>3. \E m : archive' = Append(archive, m)
    BY <2>2 DEF SendNarHeader, SendChunkHeader, SendChunk, SendTrailer, EndNar
  <2>4. Len(archive') = Len(archive) + 1
    BY <1>2, <2>3, AppendIs
  <2>5. j = Len(archive) /\ Len(archive) >= 1 /\ Len(archive) <= Len(new)
    BY <1>1, <1>2, <1>4, <2>4
  <2>6. EndNar
    BY <1>2, <2>2, <2>5 DEF WrittenInv, SendNarHeader, SendChunkHeader, SendChunk, SendTrailer
  <2>7. PICK m, sp, fs : /\ sp = new[np] /\ fs = files /\ m = NAR(sp, fs)
                         /\ archive' = Append(archive, m)
    BY <2>6 DEF EndNar
  <2>8. phase = "files" /\ nf > Len(rows) /\ np = j
    BY <1>2, <2>5, <2>6 DEF EndNar, WrittenInv
  <2>9. archive'[j + 1] = m /\ m.files = fs
    BY <1>2, <2>5, <2>7, AppendIs DEF NAR
  <2>10. /\ new'[j] = sp /\ indexed' = indexed /\ (Confused(sp)' <=> Confused(sp))
    BY <1>1, <2>7, <2>8, SameHost DEF inputVars
  <2>11. PICK last : last = Len(indexed[sp]) + 1
    OBVIOUS
  <2>12. ASSUME ~Confused(sp)
         PROVE  Made(fs, sp, last)'
    <3>1. PICK e : e \in nf..Len(rows) + 1 /\ Made(files, new[np], e)
      BY <2>7, <2>8, <2>12 DEF AtHandInv, MadeUpTo
    <3>2. Len(rows) = Len(indexed[sp]) /\ Len(rows) \in Nat /\ nf \in Nat
      BY <2>7, <2>8, RowsAtHand
    <3>3. e = last
      BY <2>8, <2>11, <3>1, <3>2
    <3> QED BY <1>1, <2>7, <3>1, <3>3, MadeStays
  <2> QED BY <2>9, <2>10, <2>11, <2>12 DEF SentWhole
<1> QED BY <1>3, <1>4

(* What the messages of payloads carry was read for them.                  *)
LEMMA DataKept ==
  ASSUME PackInv, ArchiveInv, DataInv, PackNext
  PROVE  DataInv'
<1>1. /\ UNCHANGED inputVars /\ Extends(archive, archive') /\ phase \notin {"done", "failed"}
      /\ new' = new
  BY GrowInNext DEF inputVars
<1>2. /\ IsSeq(archive) /\ Len(archive) \in Nat /\ Len(new) \in Nat /\ np \in 1..Len(new) + 1
      /\ IsSeq(chunkDeps) /\ Len(chunkDeps) \in Nat /\ DOMAIN archive = 1..Len(archive)
      /\ WrittenInv
  BY CountsAre, SeqIs DEF ArchiveInv, PackInv, ListsInv
<1>3. \A p : DataOf(p)' = DataOf(p)
  BY <1>1 DEF DataOf, BlocksRead, RangeOnDisk, FileOnDisk, OnDisk, FileRow, inputVars
<1>4. CASE phase' \notin {"payloads", "done", "failed"}
  BY <1>4 DEF DataInv
<1>5. CASE phase' = "failed"
  <2>1. FileUnreadable \/ PackFail
    <3>1. ~(\/ SendNarHeader \/ BeginNar \/ SkipFile \/ PackSymlink \/ PackDirectory
            \/ LookUpChunks \/ ChooseReference \/ EndFile \/ SendChunkHeader \/ SendChunk
            \/ SendTrailer \/ EndNar
            \/ \E f \in LocalFiles : PackMatchedDirectory(f) \/ PackMatchedFile(f))
      BY <1>5 DEF SendNarHeader, BeginNar, SkipFile, PackSymlink, PackDirectory, LookUpChunks,
                  ChooseReference, EndFile, SendChunkHeader, SendChunk, SendTrailer, EndNar,
                  PackMatchedDirectory, PackMatchedFile, AtFile
    <3>2. ~(\/ \E k \in todo : ComputeDelta(k)
            \/ DescribeMatchedChunk \/ DescribeDelta \/ DescribeCAChunk)
      BY <1>5 DEF ComputeDelta, DescribeMatchedChunk, DescribeDelta, DescribeCAChunk, AtChunk
    <3> QED BY <3>1, <3>2 DEF PackNext, PackStep
  <2>2. UNCHANGED archive
    BY <2>1 DEF FileUnreadable, PackFail, Abort
  <2>3. Len(archive) >= Len(new) + 2 => Len(archive) <= Len(new) + 2 + ChunkCount
    <3> SUFFICES ASSUME Len(archive) >= Len(new) + 2
                 PROVE  Len(archive) <= Len(new) + 2 + ChunkCount
      OBVIOUS
    <3>1. phase \in {"start", "nars", "files", "reference", "chunks", "payloads", "done", "failed"}
      BY DEF PackInv, PhaseInv
    <3>2. phase # "start" /\ phase \notin {"nars", "files", "reference", "chunks"}
      <4>1. PICK a, n : a = Len(archive) /\ n = Len(new)
        OBVIOUS
      <4>2. a \in Nat /\ n \in Nat /\ np \in 1..n + 1 /\ a >= n + 2
        BY <1>2, <4>1
      <4>3. phase = "start" => a = 0
        BY <1>2, <4>1 DEF WrittenInv
      <4>4. phase \in {"nars", "files", "reference", "chunks"} => a = np
        BY <1>2, <4>1 DEF WrittenInv
      <4>5. a # 0 /\ a # np
        BY <4>2
      <4> QED BY <4>3, <4>4, <4>5
    <3>3. phase = "payloads"
      BY <1>1, <3>1, <3>2
    <3> QED BY <1>2, <3>3 DEF WrittenInv
  <2>4. ChunkCount' = ChunkCount
    BY <1>1, <2>2 DEF ChunkCount
  <2> QED BY <1>1, <1>5, <2>2, <2>3, <2>4 DEF DataInv
<1>6. CASE phase' = "payloads" \/ phase' = "done"
  <2>1. SendChunkHeader \/ SendChunk \/ SendTrailer
    <3>1. ~(\/ SendNarHeader \/ BeginNar \/ SkipFile \/ PackSymlink \/ PackDirectory
            \/ LookUpChunks \/ ChooseReference \/ EndFile \/ EndNar
            \/ FileUnreadable \/ PackFail
            \/ \E f \in LocalFiles : PackMatchedDirectory(f) \/ PackMatchedFile(f))
      BY <1>6 DEF SendNarHeader, BeginNar, SkipFile, PackSymlink, PackDirectory, LookUpChunks,
                  ChooseReference, EndFile, EndNar, FileUnreadable, PackFail, Abort,
                  PackMatchedDirectory, PackMatchedFile, AtFile
    <3>2. ~(\/ \E k \in todo : ComputeDelta(k)
            \/ DescribeMatchedChunk \/ DescribeDelta \/ DescribeCAChunk)
      BY <1>6 DEF ComputeDelta, DescribeMatchedChunk, DescribeDelta, DescribeCAChunk, AtChunk
    <3> QED BY <3>1, <3>2 DEF PackNext, PackStep
  <2>2. PICK m : archive' = Append(archive, m)
    BY <2>1 DEF SendChunkHeader, SendChunk, SendTrailer
  <2>3. /\ Len(archive') = Len(archive) + 1 /\ archive'[Len(archive) + 1] = m
        /\ \A i \in 1..Len(archive) : archive'[i] = archive[i]
    BY <1>1, <1>2, <2>2, AppendIs DEF Extends
  <2>4. UNCHANGED <<inputFiles, inputPaths, chunkDeps>>
    BY <2>1 DEF SendChunkHeader, SendChunk, SendTrailer, depVars
  <2>5. CASE SendChunkHeader
    <3>1. phase' = "payloads" /\ Len(archive) = Len(new) + 1
      BY <1>2, <2>5 DEF SendChunkHeader, WrittenInv
    <3> QED BY <1>1, <1>2, <2>3, <2>4, <3>1 DEF DataInv
  <2>6. CASE SendChunk
    <3>1. PICK n : n = Len(archive) - Len(new) - 2
      OBVIOUS
    <3>2. /\ phase = "payloads" /\ phase' = "payloads" /\ n < Len(chunkDeps) /\ n \in Nat
          /\ archive'[Len(archive) + 1].data \in DataOf(chunkDeps[n + 1])
      <4>1. /\ phase = "payloads" /\ phase' = "payloads" /\ PayloadsSent < Len(chunkDeps)
            /\ \E data \in DataOf(chunkDeps[PayloadsSent + 1]) : archive' = Append(archive, CAChunk(data))
        BY <2>6 DEF SendChunk
      <4>2. PayloadsSent = n /\ n \in Nat
        <5>1. Len(archive) \in Len(new) + 2..Len(new) + 2 + Len(chunkDeps)
          BY <1>2, <4>1 DEF WrittenInv
        <5> QED BY <1>2, <3>1, <5>1 DEF PayloadsSent
      <4>3. PICK data \in DataOf(chunkDeps[n + 1]) : archive' = Append(archive, CAChunk(data))
        BY <4>1, <4>2
      <4>4. archive'[Len(archive) + 1].data = data
        BY <1>2, <4>3, AppendIs DEF CAChunk
      <4> QED BY <4>1, <4>2, <4>3, <4>4
    <3>3. ASSUME NEW i \in 1..Len(chunkDeps), Len(new) + 2 + i <= Len(archive')
          PROVE  archive'[Len(new) + 2 + i].data \in DataOf(chunkDeps[i])
      <4>1. CASE Len(new) + 2 + i <= Len(archive)
        <5>1. Len(new) + 2 + i \in 1..Len(archive)
          BY <1>2, <4>1
        <5> QED BY <2>3, <3>2, <4>1, <5>1 DEF DataInv
      <4>2. CASE Len(new) + 2 + i > Len(archive)
        <5>1. i \in Nat
          BY <1>2, <3>3
        <5>2. Len(new) + 2 + i = Len(archive) + 1
          BY <1>2, <2>3, <3>3, <4>2, <5>1
        <5>3. i = n + 1
          <6>1. PICK a, b : a = Len(archive) /\ b = Len(new)
            OBVIOUS
          <6>2. a \in Nat /\ b \in Nat /\ n = a - b - 2 /\ b + 2 + i = a + 1
            BY <1>2, <3>1, <5>2, <6>1
          <6> QED BY <5>1, <6>2
        <5> QED BY <3>2, <5>2, <5>3
      <4> QED BY <1>2, <4>1, <4>2
    <3>4. \A i \in 1..Len(chunkDeps') : Len(new') + 2 + i <= Len(archive') =>
            archive'[Len(new') + 2 + i].data \in (DataOf(chunkDeps[i]))'
      <4> SUFFICES ASSUME NEW i \in 1..Len(chunkDeps), Len(new) + 2 + i <= Len(archive')
                   PROVE  archive'[Len(new) + 2 + i].data \in (DataOf(chunkDeps[i]))'
        BY <1>1, <2>4
      <4>1. PICK p : p = chunkDeps[i] /\ p = chunkDeps'[i]
        BY <2>4
      <4>2. archive'[Len(new) + 2 + i].data \in DataOf(p)'
        BY <1>3, <3>3, <4>1
      <4> QED BY <4>1, <4>2
    <3> QED BY <3>2, <3>4 DEF DataInv
  <2>7. CASE SendTrailer
    <3>1. /\ phase = "payloads" /\ phase' = "done" /\ m = archive'[Len(archive')] /\ TrailerOf(m)
      BY <1>2, <2>2, <2>3, <2>7, AppendIs DEF SendTrailer, TrailerOf
    <3>2. Len(archive) = Len(new) + 2 + Len(chunkDeps) /\ ChunkCount = Len(chunkDeps)
      <4>1. PayloadsSent = Len(chunkDeps)
        BY <2>7 DEF SendTrailer
      <4>2. Len(archive) = Len(new) + 2 + Len(chunkDeps)
        <5>1. PICK a, n, d : a = Len(archive) /\ n = Len(new) /\ d = Len(chunkDeps)
          OBVIOUS
        <5>2. a \in Nat /\ n \in Nat /\ d \in Nat /\ a - n - 2 = d
          BY <1>2, <4>1, <5>1 DEF PayloadsSent
        <5>3. a = n + 2 + d
          BY <5>2
        <5> QED BY <5>1, <5>3
      <4> QED BY <1>2, <3>1, <4>2 DEF WrittenInv
    <3>3. ChunkCount' = Len(chunkDeps)
      BY <1>1, <1>2, <2>3, <3>2 DEF ChunkCount
    <3>4. TrailerOf(archive[Len(archive)])'
      BY <1>1, <2>4, <3>1 DEF TrailerOf, FileRow, inputVars
    <3>5. \A i \in 1..Len(chunkDeps') : Len(new') + 2 + i <= Len(archive') =>
            archive'[Len(new') + 2 + i].data \in (DataOf(chunkDeps[i]))'
      <4> SUFFICES ASSUME NEW i \in 1..Len(chunkDeps)
                   PROVE  archive'[Len(new) + 2 + i].data \in (DataOf(chunkDeps[i]))'
        BY <1>1, <2>4
      <4>1. PICK p : p = chunkDeps[i] /\ p = chunkDeps'[i]
        BY <2>4
      <4>2. Len(new) + 2 + i <= Len(archive) /\ Len(new) + 2 + i \in 1..Len(archive)
        BY <1>2, <3>2
      <4>3. archive'[Len(new) + 2 + i].data \in DataOf(p)
        BY <2>3, <3>1, <4>1, <4>2 DEF DataInv
      <4> QED BY <1>3, <4>1, <4>3
    <3> QED BY <2>4, <3>1, <3>3, <3>4, <3>5 DEF DataInv
  <2> QED BY <2>1, <2>5, <2>6, <2>7
<1> QED BY <1>4, <1>5, <1>6

(* dnar-pack writes the right things, in every step.                       *)
LEMMA WrittenRightKept ==
  ASSUME PackInv, PackInv', ArchiveInv, WrittenRight, PackNext
  PROVE  WrittenRight'
BY SentKept, AtHandKept, BlocksKept, DepsKept, DataKept DEF WrittenRight

(* Nothing is written at the start.                                        *)
LEMMA WrittenRightInit ==
  ASSUME PackInv, PackInit
  PROVE  WrittenRight
<1>1. /\ phase = "start" /\ archive = <<>> /\ recursiveDir = {} /\ ref = {} /\ chunkDeps = <<>>
      /\ inputFiles = <<>> /\ Len(new) \in Nat
  BY CountsAre DEF PackInit, PackInitIn
<1>2. SentInv
  <2>1. \A j \in 1..Len(new) : ~(j < Len(archive))
    BY <1>1, EmptyIsSeq
  <2> QED BY <2>1 DEF SentInv
<1>3. AtHandInv /\ BlocksInv /\ DepsInv /\ DataInv
  BY <1>1, EmptyIsSeq DEF AtHandInv, BlocksInv, DepsInv, DataInv
<1> QED BY <1>2, <1>3 DEF WrittenRight

-----------------------------------------------------------------------------
(* What dnar-unpack has read. *)

(* The NARs read are messages of the archive. *)
NarsRead == \A j \in 1..Len(nars) : j + 1 <= Len(archive) /\ nars[j] = archive[j + 1]

(* The payloads read so far are those sent first. *)
StoreRead ==
  /\ IsSeq(store)
  /\ uphase \in {"narHeader", "nars"} => Len(store) = 0
  /\ uphase = "chunks" =>
       /\ Len(store) = pos - Len(new) - 2
       /\ \A k \in 1..Len(store) : store[k] = archive[Len(new) + 2 + k].data

(* All is read: every input of the trailer is the file that dnar-pack      *)
(* meant, and every payload is in the store, as it was read for it.        *)
AllRead ==
  /\ phase = "done"
  /\ \A i \in DOMAIN inputFiles :
       i \in DOMAIN inputs /\ inputs[i] = <<inputFiles[i][1], EntryOf(inputFiles[i]).path>>
  /\ \A i \in 1..Len(chunkDeps) : i \in DOMAIN store /\ store[i] \in DataOf(chunkDeps[i])

(* Nothing is written before all is read. *)
Writing == uphase \in {"eof", "nextNar", "write", "complete", "error"} \/ Len(out) > 0

ReadInv ==
  /\ NarsRead /\ StoreRead
  /\ uphase \in {"narHeader", "nars", "chunks"} => Len(out) = 0
  /\ Writing => AllRead

(* A step of dnar-pack comes before all is read, and leaves what is read.  *)
LEMMA ReadStays ==
  ASSUME StreamInv, ReadInv, PackNext, UNCHANGED unpackVars
  PROVE  ReadInv' /\ ~Writing /\ ~Writing'
<1>1. /\ UNCHANGED <<new, uphase, pos, nars, store, inputs, out>>
      /\ Extends(archive, archive') /\ phase # "done"
  BY GrowInNext DEF StreamInv, inputVars, unpackVars, readVars, writeVars
<1>2. /\ DOMAIN archive = 1..Len(archive) /\ Len(archive) \in Nat /\ Len(new) \in Nat
      /\ Len(nars) \in Nat /\ Len(store) \in Nat /\ Len(archive) <= Len(archive')
      /\ \A i \in 1..Len(archive) : archive'[i] = archive[i]
  BY <1>1, CountsAre, SeqIs DEF StreamInv, HostInv, NarsInv, ReadInv, StoreRead, Extends
<1>3. ~Writing /\ ~Writing'
  BY <1>1 DEF ReadInv, AllRead, Writing
<1>4. NarsRead'
  <2> SUFFICES ASSUME NEW j \in 1..Len(nars)
               PROVE  j + 1 <= Len(archive') /\ nars[j] = archive'[j + 1]
    BY <1>1 DEF NarsRead
  <2>1. j + 1 <= Len(archive) /\ nars[j] = archive[j + 1] /\ j \in Nat
    BY <1>2 DEF ReadInv, NarsRead
  <2>2. j + 1 \in 1..Len(archive)
    BY <1>2, <2>1
  <2>3. j + 1 <= Len(archive')
    <3>1. Len(archive') \in Nat
      <4>1. PackInv'
        BY PackNextInv DEF StreamInv
      <4> QED BY <4>1, CountsAre, SeqIs DEF PackInv, ListsInv
    <3> QED BY <1>2, <2>1, <3>1
  <2> QED BY <1>2, <2>1, <2>2, <2>3
<1>5. StoreRead'
  <2>1. ASSUME uphase = "chunks", NEW k \in 1..Len(store)
        PROVE  store[k] = archive'[Len(new) + 2 + k].data
    <3>1. Len(store) = pos - Len(new) - 2 /\ pos \in 0..Len(archive)
      BY <2>1 DEF ReadInv, StoreRead, StreamInv, ReaderInv
    <3>2. Len(new) + 2 + k \in 1..Len(archive)
      <4>1. PICK a, b, s : a = Len(archive) /\ b = Len(new) /\ s = Len(store)
        OBVIOUS
      <4>2. a \in Nat /\ b \in Nat /\ s \in Nat /\ k \in 1..s /\ s = pos - b - 2 /\ pos \in 0..a
        BY <1>2, <3>1, <4>1
      <4>3. b + 2 + k \in 1..a
        BY <4>2
      <4> QED BY <4>1, <4>3
    <3> QED BY <1>2, <2>1, <3>2 DEF ReadInv, StoreRead
  <2> QED BY <1>1, <2>1 DEF ReadInv, StoreRead, IsSeq
<1> QED BY <1>1, <1>3, <1>4, <1>5 DEF ReadInv

(* The trailer is there only when dnar-pack is done.                       *)
LEMMA TrailerIsLast ==
  ASSUME StreamInv, WrittenRight, uphase = "chunks", want = 0, pos < Len(archive)
  PROVE  /\ phase = "done" /\ pos + 1 = Len(archive) /\ pos - Len(new) - 2 = Len(chunkDeps)
         /\ Len(archive) = Len(new) + 3 + Len(chunkDeps)
<1>1. /\ Len(archive) \in Nat /\ Len(new) \in Nat /\ Len(chunkDeps) \in Nat
      /\ np \in 1..Len(new) + 1 /\ WrittenInv
      /\ phase \in {"start", "nars", "files", "reference", "chunks", "payloads", "done", "failed"}
  BY CountsAre DEF StreamInv, ArchiveInv, PackInv, PhaseInv
<1>2. PICK a, n, d, c : a = Len(archive) /\ n = Len(new) /\ d = Len(chunkDeps) /\ c = ChunkCount
  OBVIOUS
<1>3. pos \in 0..a /\ want \in Nat /\ pos >= n + 2 /\ pos = n + 2 + c
  <2>1. pos \in 0..a /\ want \in Nat /\ pos >= n + 2 /\ pos + want = n + 2 + c
    BY <1>2 DEF StreamInv, ReaderInv
  <2> QED BY <2>1
<1>4. a \in Nat /\ n \in Nat /\ d \in Nat /\ np \in 1..n + 1 /\ pos < a
  BY <1>1, <1>2
<1>5. c \in Nat
  <2>1. Place(n + 2)
    BY <1>2, <1>3, <1>4 DEF StreamInv, ArchiveInv
  <2> QED BY <1>2, <2>1 DEF Place, ChunkCount
<1>6. phase # "start"
  <2>1. phase = "start" => a = 0
    BY <1>1, <1>2 DEF WrittenInv
  <2> QED BY <1>3, <1>4, <2>1
<1>7. phase \notin {"nars", "files", "reference", "chunks"}
  <2>1. phase \in {"nars", "files", "reference", "chunks"} => a = np
    BY <1>1, <1>2 DEF WrittenInv
  <2>2. a # np
    BY <1>3, <1>4
  <2> QED BY <2>1, <2>2
<1>8. phase # "payloads"
  <2>1. phase = "payloads" => a \in n + 2..n + 2 + d /\ c = d
    BY <1>1, <1>2 DEF WrittenInv
  <2> QED BY <1>3, <1>4, <2>1
<1>9. phase # "failed"
  <2>1. phase = "failed" /\ a >= n + 2 => a <= n + 2 + c
    BY <1>2 DEF WrittenRight, DataInv
  <2> QED BY <1>3, <1>4, <1>5, <2>1
<1>10. phase = "done"
  BY <1>1, <1>6, <1>7, <1>8, <1>9
<1>11. a = n + 3 + c
  BY <1>1, <1>2, <1>10 DEF WrittenInv
<1>12. c = d
  BY <1>2, <1>10 DEF WrittenRight, DataInv
<1>13. pos + 1 = a /\ pos - n - 2 = d /\ a = n + 3 + d
  BY <1>3, <1>4, <1>5, <1>11, <1>12
<1> QED BY <1>2, <1>10, <1>13

(* With the trailer all is read. *)
LEMMA TrailerReads ==
  ASSUME StreamInv, WrittenRight, ReadInv, ReadTrailer, UNCHANGED packVars
  PROVE  AllRead'
<1>1. /\ uphase = "chunks" /\ want = 0 /\ pos < Len(archive) /\ store' = store
      /\ inputs' = [i \in DOMAIN Message.files |->
                      <<Message.paths[Message.files[i].storePath], Message.files[i].path>>]
  BY DEF ReadTrailer, Read
<1>2. /\ phase = "done" /\ pos + 1 = Len(archive) /\ pos - Len(new) - 2 = Len(chunkDeps)
      /\ Len(archive) = Len(new) + 3 + Len(chunkDeps)
  BY <1>1, TrailerIsLast
<1>3. /\ InputsInv /\ DOMAIN inputFiles = 1..Len(inputFiles) /\ IsSeq(inputFiles)
      /\ ToSet(inputFiles) \subseteq LocalFiles
      /\ Len(archive) \in Nat /\ Len(new) \in Nat /\ Len(chunkDeps) \in Nat
      /\ \A f \in ToSet(inputFiles) : f[1] \in ToSet(inputPaths)
  BY CountsAre, SeqIs DEF StreamInv, PackInv, ListsInv, WrittenRight, DepsInv
<1>4. UNCHANGED <<phase, inputFiles, chunkDeps, disk, indexed, db>>
  BY DEF packVars, inputVars, depVars
<1>5. TrailerOf(Message)
  BY <1>2 DEF WrittenRight, DataInv, Message
<1>6. ASSUME NEW i \in DOMAIN inputFiles
      PROVE  i \in DOMAIN inputs' /\ inputs'[i] = <<inputFiles[i][1], EntryOf(inputFiles[i]).path>>
  <2>1. PICK f, n : f = inputFiles[i] /\ n = IndexIn(inputPaths, f[1])
    OBVIOUS
  <2>2. f \in ToSet(inputFiles) /\ f \in LocalFiles
    BY <1>3, <2>1 DEF ToSet
  <2>3. f[1] \in ToSet(inputPaths)
    BY <1>3, <2>2
  <2>4. inputPaths[n] = f[1]
    <3>1. \E k \in DOMAIN inputPaths : inputPaths[k] = f[1]
      BY <2>3 DEF ToSet
    <3> QED BY <2>1, <3>1 DEF IndexIn
  <2>5. FileRow(f).path = EntryOf(f).path
    BY <1>3, <2>2, HostFileIs DEF RowTells
  <2>6. /\ Message.paths = inputPaths /\ i \in DOMAIN Message.files
        /\ Message.files[i].storePath = n /\ Message.files[i].path = FileRow(f).path
    BY <1>5, <2>1 DEF TrailerOf, PathTrailer, FileDescriptor
  <2> QED BY <1>1, <2>1, <2>4, <2>5, <2>6
<1>7. ASSUME NEW i \in 1..Len(chunkDeps)
      PROVE  i \in DOMAIN store /\ store[i] \in DataOf(chunkDeps[i])
  <2>1. IsSeq(store) /\ Len(store) = Len(chunkDeps)
    BY <1>1, <1>2 DEF ReadInv, StoreRead
  <2>2. i \in 1..Len(store) /\ i \in DOMAIN store
    BY <2>1, SeqIs
  <2>3. store[i] = archive[Len(new) + 2 + i].data
    BY <1>1, <2>2 DEF ReadInv, StoreRead
  <2>4. Len(new) + 2 + i <= Len(archive)
    <3>1. PICK a, n, d : a = Len(archive) /\ n = Len(new) /\ d = Len(chunkDeps)
      OBVIOUS
    <3>2. n \in Nat /\ d \in Nat /\ i \in 1..d /\ a = n + 3 + d
      BY <1>2, <1>3, <3>1
    <3>3. n + 2 + i <= a
      BY <3>2
    <3> QED BY <3>1, <3>3
  <2>5. archive[Len(new) + 2 + i].data \in DataOf(chunkDeps[i])
    BY <1>2, <2>4 DEF WrittenRight, DataInv
  <2> QED BY <2>2, <2>3, <2>5
<1>8. \A p : DataOf(p)' = DataOf(p)
  BY <1>4 DEF DataOf, BlocksRead, RangeOnDisk, FileOnDisk, OnDisk, FileRow
<1>9. \A i \in 1..Len(chunkDeps') : i \in DOMAIN store' /\ store'[i] \in (DataOf(chunkDeps[i]))'
  <2> SUFFICES ASSUME NEW i \in 1..Len(chunkDeps)
               PROVE  i \in DOMAIN store' /\ store'[i] \in (DataOf(chunkDeps[i]))'
    BY <1>4
  <2>1. PICK p : p = chunkDeps[i] /\ p = chunkDeps'[i]
    BY <1>4
  <2> QED BY <1>1, <1>7, <1>8, <2>1
<1>10. \A i \in DOMAIN inputFiles' :
        i \in DOMAIN inputs' /\ inputs'[i] = <<inputFiles'[i][1], (EntryOf(inputFiles[i]).path)'>>
  BY <1>4, <1>6 DEF EntryOf
<1> QED BY <1>2, <1>4, <1>9, <1>10 DEF AllRead

(* What is read stays read. *)
LEMMA AllReadStays ==
  ASSUME AllRead, UNCHANGED <<packVars, readVars>>
  PROVE  AllRead'
<1>1. UNCHANGED <<phase, inputFiles, chunkDeps, disk, indexed, db, inputs, store>>
  BY DEF packVars, inputVars, depVars, readVars
<1>2. \A p : DataOf(p)' = DataOf(p)
  BY <1>1 DEF DataOf, BlocksRead, RangeOnDisk, FileOnDisk, OnDisk, FileRow
<1>3. \A i \in 1..Len(chunkDeps') : i \in DOMAIN store' /\ store'[i] \in (DataOf(chunkDeps[i]))'
  <2> SUFFICES ASSUME NEW i \in 1..Len(chunkDeps)
               PROVE  i \in DOMAIN store' /\ store'[i] \in (DataOf(chunkDeps[i]))'
    BY <1>1
  <2>1. PICK p : p = chunkDeps[i] /\ p = chunkDeps'[i]
    BY <1>1
  <2> QED BY <1>1, <1>2, <2>1 DEF AllRead
<1>4. \A i \in DOMAIN inputFiles' :
        i \in DOMAIN inputs' /\ inputs'[i] = <<inputFiles'[i][1], (EntryOf(inputFiles[i]).path)'>>
  BY <1>1 DEF AllRead, EntryOf
<1> QED BY <1>1, <1>3, <1>4 DEF AllRead

(* A step that reads nothing. *)
LEMMA ReadHolds ==
  ASSUME ReadInv, UNCHANGED <<packVars, readVars>>, Writing' => Writing,
         uphase' \notin {"narHeader", "nars", "chunks"} \/ UNCHANGED <<uphase, out>>
  PROVE  ReadInv'
<1>1. UNCHANGED <<archive, new, pos, nars, store>>
  BY DEF packVars, inputVars, readVars
<1>2. NarsRead' /\ StoreRead'
  BY <1>1 DEF ReadInv, NarsRead, StoreRead, IsSeq
<1> QED BY <1>2, AllReadStays DEF ReadInv

(* A step that reads a message. *)
LEMMA ReadMore ==
  ASSUME StreamInv, WrittenRight, ReadInv, UNCHANGED packVars,
         ReadNarHeader \/ ReadNAR \/ ReadChunkHeader \/ ReadChunk \/ ReadTrailer
  PROVE  ReadInv'
<1>1. /\ UNCHANGED <<archive, new, out>> /\ pos < Len(archive) /\ pos' = pos + 1
      /\ uphase \in {"narHeader", "nars", "chunks"} /\ uphase' \in {"nars", "chunks", "eof"}
  BY DEF packVars, inputVars, writeVars, Read,
         ReadNarHeader, ReadNAR, ReadChunkHeader, ReadChunk, ReadTrailer
<1>2. /\ Len(archive) \in Nat /\ Len(new) \in Nat /\ IsSeq(nars) /\ Len(nars) \in Nat
      /\ IsSeq(store) /\ Len(store) \in Nat /\ pos \in 0..Len(archive) /\ want \in Nat
  BY CountsAre, SeqIs DEF StreamInv, HostInv, NarsInv, ReaderInv, ReadInv, StoreRead
<1>3. Len(out') = 0 /\ NarsRead /\ StoreRead
  BY <1>1 DEF ReadInv
<1>4. Writing' => uphase' = "eof"
  BY <1>1, <1>3 DEF Writing
<1>5. ASSUME UNCHANGED nars
      PROVE  NarsRead'
  BY <1>1, <1>3, <1>5 DEF NarsRead
<1>6. CASE ReadNarHeader
  <2>1. UNCHANGED <<nars, store>> /\ uphase = "narHeader" /\ uphase' = "nars"
    BY <1>6 DEF ReadNarHeader
  <2>2. StoreRead'
    BY <1>3, <2>1 DEF StoreRead, IsSeq
  <2> QED BY <1>3, <1>4, <1>5, <2>1, <2>2 DEF ReadInv
<1>7. CASE ReadNAR
  <2>1. /\ nars' = Append(nars, archive[pos + 1]) /\ store' = store
        /\ uphase = "nars" /\ uphase' = "nars"
    BY <1>7 DEF ReadNAR, Message
  <2>2. Len(nars) = pos - 1 /\ pos >= 1
    BY <2>1 DEF StreamInv, HostInv, NarsInv, ReaderInv
  <2>3. /\ Len(nars') = Len(nars) + 1 /\ nars'[Len(nars) + 1] = archive[pos + 1]
        /\ \A j \in 1..Len(nars) : nars'[j] = nars[j]
    BY <1>2, <2>1, AppendIs, SeqIs DEF Extends
  <2>4. ASSUME NEW j \in 1..Len(nars')
        PROVE  j + 1 <= Len(archive) /\ nars'[j] = archive[j + 1]
    <3>1. CASE j \in 1..Len(nars)
      BY <1>3, <2>3, <3>1 DEF NarsRead
    <3>2. CASE j = Len(nars) + 1
      <4>1. j + 1 = pos + 1 /\ pos + 1 <= Len(archive)
        <5>1. PICK a, n : a = Len(archive) /\ n = Len(nars)
          OBVIOUS
        <5>2. a \in Nat /\ n \in Nat /\ n = pos - 1 /\ j = n + 1 /\ pos \in 0..a /\ pos < a
          BY <1>1, <1>2, <2>2, <3>2, <5>1
        <5>3. j + 1 = pos + 1 /\ pos + 1 <= a
          BY <5>2
        <5> QED BY <5>1, <5>3
      <4> QED BY <2>3, <3>2, <4>1
    <3>3. j \in 1..Len(nars) \/ j = Len(nars) + 1
      BY <1>2, <2>3
    <3> QED BY <3>1, <3>2, <3>3
  <2>5. NarsRead'
    BY <1>1, <2>4 DEF NarsRead
  <2>6. StoreRead'
    BY <1>3, <2>1 DEF StoreRead, IsSeq
  <2> QED BY <1>3, <1>4, <2>1, <2>5, <2>6 DEF ReadInv
<1>8. CASE ReadChunkHeader
  <2>1. /\ UNCHANGED <<nars, store>> /\ uphase = "nars" /\ uphase' = "chunks" /\ want = 0
    BY <1>8 DEF ReadChunkHeader
  <2>2. pos + want = Len(new) + 1 /\ Len(store) = 0
    BY <1>3, <2>1 DEF StreamInv, ReaderInv, StoreRead
  <2>3. Len(store) = (pos + 1) - Len(new) - 2
    BY <1>2, <2>1, <2>2
  <2>4. StoreRead'
    BY <1>1, <1>3, <2>1, <2>2, <2>3 DEF StoreRead, IsSeq
  <2> QED BY <1>3, <1>4, <1>5, <2>1, <2>4 DEF ReadInv
<1>9. CASE ReadChunk
  <2>1. /\ store' = Append(store, archive[pos + 1].data) /\ nars' = nars
        /\ uphase = "chunks" /\ uphase' = "chunks"
    BY <1>9 DEF ReadChunk, Message
  <2>2. PICK n, s : n = Len(new) /\ s = Len(store)
    OBVIOUS
  <2>3. /\ s = pos - n - 2 /\ n \in Nat /\ s \in Nat /\ pos \in Nat
        /\ \A k \in 1..s : store[k] = archive[n + 2 + k].data
    BY <1>2, <1>3, <2>1, <2>2 DEF StoreRead
  <2>4. /\ IsSeq(store') /\ Len(store') = s + 1 /\ store'[s + 1] = archive[pos + 1].data
        /\ \A k \in 1..s : store'[k] = store[k]
    BY <1>2, <2>1, <2>2, AppendIs, SeqIs DEF Extends
  <2>5. s + 1 = (pos + 1) - n - 2 /\ n + 2 + (s + 1) = pos + 1
    BY <2>3
  <2>6. \A k \in 1..s + 1 : store'[k] = archive[n + 2 + k].data
    <3> SUFFICES ASSUME NEW k \in 1..s + 1
                 PROVE  store'[k] = archive[n + 2 + k].data
      OBVIOUS
    <3>1. k \in 1..s \/ k = s + 1
      BY <2>3
    <3> QED BY <2>3, <2>4, <2>5, <3>1
  <2>7. StoreRead'
    BY <1>1, <2>1, <2>2, <2>4, <2>5, <2>6 DEF StoreRead, IsSeq
  <2> QED BY <1>3, <1>4, <1>5, <2>1, <2>7 DEF ReadInv
<1>10. CASE ReadTrailer
  <2>1. UNCHANGED <<nars, store>> /\ uphase' = "eof"
    BY <1>10 DEF ReadTrailer
  <2>2. StoreRead'
    BY <1>3, <2>1 DEF StoreRead, IsSeq
  <2>3. AllRead'
    BY <1>10, TrailerReads
  <2> QED BY <1>3, <1>5, <2>1, <2>2, <2>3 DEF ReadInv
<1> QED BY <1>6, <1>7, <1>8, <1>9, <1>10

(* A step that only writes what is read. *)
LEMMA ReadWhileWriting ==
  ASSUME StreamInv, ReadInv, UNCHANGED packVars,
         \/ BeginWrite \/ WriteCA \/ WriteFD \/ WriteDelta \/ EndRegular
         \/ WriteDirectory \/ CopyDirectory \/ WriteSymlink \/ EndWrite
         \/ FlushFull \/ EndStream \/ ReadEOF(PackEnded) \/ ReadTruncated(PackEnded) \/ UnpackFail
  PROVE  ReadInv' /\ UNCHANGED readVars
<1>1. /\ UNCHANGED readVars
      /\ \/ uphase' \in {"truncated", "failed"} /\ UNCHANGED out
         \/ uphase \in {"eof", "nextNar", "write"} /\ uphase' \in {"nextNar", "write", "complete", "error"}
  <2>1. CASE BeginWrite \/ FlushFull \/ EndStream \/ ReadEOF(PackEnded) \/ ReadTruncated(PackEnded)
             \/ UnpackFail \/ EndWrite
    BY <2>1 DEF BeginWrite, FlushFull, EndStream, ReadEOF, ReadTruncated, UnpackFail, EndWrite,
                readVars, writeVars
  <2>2. ASSUME uphase = "write", Fail
        PROVE  UNCHANGED readVars /\ uphase' = "error"
    BY <2>2 DEF Fail
  <2>3. ASSUME NEW blocks, uphase = "write", WriteBlocks(blocks)
        PROVE  UNCHANGED readVars /\ uphase' \in {"write", "error"}
    BY <2>2, <2>3 DEF WriteBlocks
  <2>4. ASSUME NEW more, uphase = "write", WriteNodes(more)
        PROVE  UNCHANGED readVars /\ uphase' = "write"
    BY <2>4 DEF WriteNodes
  <2>5. CASE WriteCA \/ WriteFD \/ WriteDelta
    BY <2>2, <2>3, <2>5 DEF WriteCA, WriteFD, WriteDelta, PatchWith, AtChunkOf, AtFileOf
  <2>6. CASE EndRegular \/ WriteDirectory \/ CopyDirectory \/ WriteSymlink
    BY <2>2, <2>4, <2>6 DEF EndRegular, WriteDirectory, CopyDirectory, WriteSymlink, AtFileOf
  <2> QED BY <2>1, <2>5, <2>6
<1>2. Writing' => Writing
  BY <1>1 DEF Writing
<1>3. uphase' \notin {"narHeader", "nars", "chunks"}
  BY <1>1
<1> QED BY <1>1, <1>2, <1>3, ReadHolds

-----------------------------------------------------------------------------
(* What there is to write from. *)

(* There is one entry at a path. *)
LEMMA OnlyEntry ==
  ASSUME NEW t \in Tree, NEW i \in 1..Len(t), NEW e \in ToSet(t), e.path = t[i].path
  PROVE  e = t[i]
<1>1. /\ Len(t) \in Nat /\ DOMAIN t = 1..Len(t) /\ Listing(t)
      /\ \A j \in 1..Len(t) : t[j].path \in Path
  BY TreeIs DEF Tree
<1>2. PICK j \in 1..Len(t) : e = t[j]
  BY <1>1 DEF ToSet
<1>3. IsPrefix(t[i].path, t[j].path) /\ IsPrefix(t[j].path, t[i].path)
  BY <1>1, <1>2, PrefixAlways
<1>4. i <= j /\ j <= i
  BY <1>1, <1>3 DEF Listing
<1> QED BY <1>2, <1>4

(* A file that has not changed is on the disk what it was. *)
LEMMA DiskIs ==
  ASSUME InputsInv, NEW f, f[1] \in StorePath, f[2] \in 1..Len(indexed[f[1]]),
         EntryOf(f).type = "regular", ~Changed(f[1])
  PROVE  FileOnDisk(f) = {ContentOf(f)}
<1>1. PICK t, i : t = indexed[f[1]] /\ i = f[2]
  OBVIOUS
<1>2. /\ t \in Tree /\ i \in 1..Len(t) /\ EntryOf(f) = t[i] /\ disk[f[1]] = t
      /\ FileRow(f).path = t[i].path /\ t[i] \in ToSet(t)
  BY <1>1, RowsTell, TreeIs DEF EntryOf, FileRow, RowTells, Changed
<1>3. OnDisk(f) = {t[i]}
  BY <1>2, OnlyEntry DEF OnDisk
<1> QED BY <1>2, <1>3 DEF FileOnDisk, ContentOf

(* An input that has not changed is on the host what dnar-pack meant.      *)
LEMMA InputThere ==
  ASSUME StreamInv, AllRead, NEW n \in DOMAIN inputFiles, NEW f, f = inputFiles[n], ~Changed(f[1])
  PROVE  /\ f \in LocalFiles /\ EntryOf(f) \in Entry
         /\ EntriesAt(inputs[n]) = {EntryOf(f)} /\ inputs[n][2] = EntryOf(f).path
         /\ target[inputs[n][1]] = indexed[f[1]]
         /\ EntryOf(f).type = "regular" => FileOnDisk(f) = {ContentOf(f)}
<1>1. InputsInv /\ ToSet(inputFiles) \subseteq LocalFiles /\ f \in ToSet(inputFiles)
  BY DEF StreamInv, PackInv, ListsInv, ToSet
<1>2. PICK t, i : t = indexed[f[1]] /\ i = f[2]
  OBVIOUS
<1>3. /\ f \in LocalFiles /\ f[1] \in local /\ f[1] \in StorePath /\ i \in 1..Len(t) /\ t \in Tree
      /\ EntryOf(f) = t[i] /\ EntryOf(f) \in Entry
  BY <1>1, <1>2, HostFileIs
<1>4. inputs[n][1] = f[1] /\ inputs[n][2] = t[i].path /\ target[f[1]] = t
  BY <1>2, <1>3 DEF AllRead, Changed
<1>5. t[i] \in ToSet(t)
  BY <1>3, TreeIs
<1>6. EntriesAt(inputs[n]) = {t[i]}
  BY <1>3, <1>4, <1>5, OnlyEntry DEF EntriesAt
<1>7. EntryOf(f).type = "regular" => FileOnDisk(f) = {ContentOf(f)}
  BY <1>1, <1>2, <1>3, DiskIs
<1> QED BY <1>2, <1>3, <1>4, <1>6, <1>7

(* A range of a file that has not changed can be read and is the one meant. *)
LEMMA InputReads ==
  ASSUME StreamInv, AllRead, NEW d, FileInput(d), ~Changed(inputFiles[d.index][1]),
         d.offset + d.size <= Len(InputContent(d))
  PROVE  InputRange(d) = {ReadAt(InputContent(d), d.offset, d.size)}
<1>1. PICK n, f, e : n = d.index /\ f = inputFiles[n] /\ e = EntryOf(f)
  OBVIOUS
<1>2. n \in DOMAIN inputFiles /\ e.type = "regular" /\ InputContent(d) = e.content
  BY <1>1 DEF FileInput, InputContent, ContentOf
<1>3. EntriesAt(inputs[n]) = {e}
  BY <1>1, <1>2, InputThere
<1>4. Readable(e, d.offset, d.size)
  BY <1>2 DEF Readable
<1> QED BY <1>1, <1>2, <1>3, <1>4 DEF InputRange

(* A payload read of a file that has not changed is the chunk it is of.    *)
LEMMA PayloadIs ==
  ASSUME StreamInv, WrittenRight, AllRead, NEW n, PayloadResolves(n, "chunk"),
         ~Changed(chunkDeps[n].file[1])
  PROVE  n \in DOMAIN store /\ store[n] = Verbatim(chunkDeps[n].hash)
<1>1. PICK p, f, full : p = chunkDeps[n] /\ f = p.file /\ full = ContentOf(f)
  OBVIOUS
<1>2. InputsInv /\ n \in 1..Len(chunkDeps) /\ n \in DOMAIN chunkDeps /\ p.kind = "chunk"
  BY <1>1, SeqIs DEF StreamInv, PackInv, ListsInv, PayloadResolves
<1>3. PayloadRight(p)
  BY <1>1, <1>2 DEF WrittenRight, DepsInv
<1>4. /\ f[1] \in StorePath /\ f[2] \in DOMAIN indexed[f[1]] /\ EntryOf(f).type = "regular"
      /\ p.size = 1 /\ p.offset \in Nat /\ p.offset + 1 <= Len(full)
      /\ p.hash = ReadAt(full, p.offset, 1)
  BY <1>1, <1>3 DEF PayloadRight
<1>5. f[2] \in 1..Len(indexed[f[1]])
  BY <1>2, <1>4, RowsTell
<1>6. FileOnDisk(f) = {full}
  BY <1>1, <1>2, <1>4, <1>5, DiskIs
<1>7. Len(full) \in Nat
  <2>1. RowTells(f[1], f[2])
    BY <1>2, <1>4, <1>5, RowsTell
  <2>2. full \in Seq(Block)
    BY <1>1, <2>1 DEF RowTells, Entry, ContentOf, EntryOf
  <2> QED BY <2>2
<1>8. RangeOnDisk(f, p) = {p.hash}
  BY <1>4, <1>6 DEF RangeOnDisk
<1>9. {d \in FileOnDisk(f) : p.offset + p.size > Len(d)} = {}
  BY <1>4, <1>6, <1>7
<1>10. BlocksRead(p) = {p.hash}
  BY <1>1, <1>8, <1>9 DEF BlocksRead
<1>11. DataOf(p) = {Verbatim(p.hash)}
  BY <1>2, <1>10 DEF DataOf
<1>12. n \in DOMAIN store /\ store[n] \in DataOf(p)
  BY <1>1, <1>2 DEF AllRead
<1> QED BY <1>1, <1>11, <1>12

(* A delta is read as it was computed. *)
LEMMA DeltaIs ==
  ASSUME StreamInv, AllRead, NEW n, PayloadResolves(n, "delta")
  PROVE  n \in DOMAIN store /\ store[n] = DeltaOf(chunkDeps[n].base, chunkDeps[n].result)
<1>1. PICK p : p = chunkDeps[n]
  OBVIOUS
<1>2. n \in 1..Len(chunkDeps) /\ p.kind = "delta"
  BY <1>1, SeqIs DEF StreamInv, PackInv, ListsInv, PayloadResolves
<1>3. store[n] \in DataOf(p) /\ n \in DOMAIN store
  BY <1>1, <1>2 DEF AllRead
<1> QED BY <1>1, <1>2, <1>3 DEF DataOf

-----------------------------------------------------------------------------
(* What a descriptor writes. *)

(* What a message is made of is as it was, or the message is not           *)
(* FromChanged.                                                            *)
LEMMA SourcesAre ==
  ASSUME NEW msg, ~FromChanged(msg), NEW file \in ToSet(msg.files)
  PROVE  /\ ~Changed(msg.path)
         /\ Copied(file) => ~Changed(inputFiles[file.from][1])
         /\ \A d \in ToSet(file.chunks) : file.type = "regular" =>
              /\ d.chunk = "ca" => ~Changed(chunkDeps[d.index].file[1])
              /\ d.chunk # "ca" => ~Changed(inputFiles[d.index][1])
<1>1. ~Changed(msg.path)
  BY DEF FromChanged, SourcesOf
<1>2. Copied(file) => ~Changed(inputFiles[file.from][1])
  <2> SUFFICES ASSUME Copied(file) PROVE ~Changed(inputFiles[file.from][1])
    OBVIOUS
  <2>1. file.from \in InputsOf(msg)
    BY DEF Copied, InputsOf
  <2>2. inputFiles[file.from][1] \in SourcesOf(msg)
    BY <2>1 DEF SourcesOf
  <2> QED BY <2>2 DEF FromChanged
<1>3. ASSUME file.type = "regular", NEW d \in ToSet(file.chunks)
      PROVE  d \in DescriptorsOf(msg)
  BY <1>3 DEF DescriptorsOf
<1>4. ASSUME NEW d \in DescriptorsOf(msg), d.chunk = "ca"
      PROVE  ~Changed(chunkDeps[d.index].file[1])
  <2>1. chunkDeps[d.index].file[1] \in SourcesOf(msg)
    BY <1>4 DEF SourcesOf
  <2> QED BY <2>1 DEF FromChanged
<1>5. ASSUME NEW d \in DescriptorsOf(msg), d.chunk # "ca"
      PROVE  ~Changed(inputFiles[d.index][1])
  <2>1. d.index \in InputsOf(msg)
    BY <1>5 DEF InputsOf
  <2>2. inputFiles[d.index][1] \in SourcesOf(msg)
    BY <2>1 DEF SourcesOf
  <2> QED BY <2>2 DEF FromChanged
<1> QED BY <1>1, <1>2, <1>3, <1>4, <1>5

(* All of a sequence, and what there is of it before the first place.      *)
LEMMA AllOfSeq ==
  ASSUME NEW S, NEW s \in Seq(S)
  PROVE  SubSeq(s, 1, Len(s)) = s /\ SubSeq(s, 1, 0) = <<>> /\ ReadAt(s, 0, Len(s)) = s
<1>1. SubSeq(s, 1, Len(s)) = s /\ SubSeq(s, 1, 0) = <<>>
  OBVIOUS
<1>2. Len(s) \in Nat
  OBVIOUS
<1> QED BY <1>1, <1>2 DEF ReadAt

(* A descriptor writes what it makes. *)
LEMMA DescriptorWrites ==
  ASSUME StreamInv, WrittenRight, AllRead, NEW d, d = uchunk,
         d.chunk = "ca" => ~Changed(chunkDeps[d.index].file[1]),
         d.chunk # "ca" => ~Changed(inputFiles[d.index][1]),
         NEW sp \in StorePath, NEW i \in 1..Len(indexed[sp]), ~Changed(sp),
         indexed[sp][i].type = "regular",
         NEW full, full = ContentAt(sp, i), NEW k, NEW blocks,
         \/ MakesWhole(d, full) /\ blocks = full
         \/ MakesBlock(d, sp, i, k) /\ k \in 1..Len(full) /\ blocks = <<full[k]>>,
         WriteCA \/ WriteFD \/ WriteDelta
  PROVE  WriteBlocks(blocks)
<1>1. InputsInv /\ full \in Seq(Block) /\ Len(full) \in Nat
  <2>1. InputsInv
    BY DEF StreamInv, PackInv
  <2>2. RowTells(sp, i)
    BY <2>1, RowsTell
  <2> QED BY <2>1, <2>2 DEF RowTells, Entry, ContentAt
<1>2. ASSUME NEW c, FileInput(c), ~Changed(inputFiles[c.index][1])
      PROVE  /\ InputContent(c) \in Seq(Block) /\ Len(InputContent(c)) \in Nat
             /\ FileOnDisk(inputFiles[c.index]) = {InputContent(c)}
  <2>1. PICK n, f : n = c.index /\ f = inputFiles[n]
    OBVIOUS
  <2>2. /\ n \in DOMAIN inputFiles /\ EntryOf(f).type = "regular" /\ InputContent(c) = ContentOf(f)
    BY <1>2, <2>1 DEF FileInput, InputContent
  <2>3. EntryOf(f) \in Entry /\ FileOnDisk(f) = {ContentOf(f)}
    BY <1>2, <2>1, <2>2, InputThere
  <2> QED BY <2>1, <2>2, <2>3 DEF Entry, ContentOf
<1>3. CASE MakesWhole(d, full) /\ blocks = full
  <2>1. /\ d.chunk = "fd" /\ FileInput(d) /\ InputContent(d) = full
        /\ d.size = Len(full) /\ d.offset = 0
    BY <1>3 DEF MakesWhole
  <2>2. InputRange(d) = {ReadAt(full, 0, Len(full))}
    BY <1>1, <2>1, InputReads
  <2>3. InputRange(uchunk) = {blocks}
    BY <1>1, <1>3, <2>2, AllOfSeq
  <2>4. WriteFD
    BY <2>1 DEF WriteCA, WriteDelta, AtChunkOf
  <2> QED BY <2>3, <2>4 DEF WriteFD
<1>4. CASE MakesBlock(d, sp, i, k) /\ k \in 1..Len(full) /\ blocks = <<full[k]>>
  <2>1. CASE d.chunk = "ca" /\ FromPayload(d, blocks)
    <3>1. d.index \in DOMAIN store /\ store[d.index] = Verbatim(blocks)
      BY <2>1, PayloadIs DEF FromPayload
    <3>2. WriteCA
      BY <2>1 DEF WriteFD, WriteDelta, AtChunkOf
    <3> QED BY <3>1, <3>2 DEF WriteCA, BytesOf, Verbatim
  <2>2. CASE d.chunk = "fd" /\ FromInput(d, blocks)
    <3>1. /\ FileInput(d) /\ d.size = 1 /\ d.offset + d.size <= Len(InputContent(d))
          /\ ReadAt(InputContent(d), d.offset, d.size) = blocks
      BY <2>2 DEF FromInput
    <3>2. InputRange(uchunk) = {blocks}
      BY <2>2, <3>1, InputReads
    <3>3. WriteFD
      BY <2>2 DEF WriteCA, WriteDelta, AtChunkOf
    <3> QED BY <3>2, <3>3 DEF WriteFD
  <2>3. CASE d.chunk = "delta" /\ FromDelta(d, sp, i, k)
    <3>1. PICK base, result, p : /\ p = chunkDeps[d.deltaIndex] /\ base = p.base /\ result = p.result
      OBVIOUS
    <3>2. /\ FileInput(d) /\ d.size = Len(InputContent(d)) /\ d.offset = 0 /\ d.resultSize = 1
          /\ PayloadResolves(d.deltaIndex, "delta")
          /\ base \in FileOnDisk(inputFiles[d.index])
          /\ result \in RangeOnDisk(<<sp, i>>, [size |-> 1, offset |-> k - 1])
      BY <2>3, <3>1 DEF FromDelta
    <3>3. base = InputContent(d) /\ base \in Seq(Block)
      BY <1>2, <2>3, <3>2
    <3>4. InputRange(uchunk) = {base}
      <4>1. InputRange(d) = {ReadAt(base, 0, Len(base))}
        BY <1>2, <2>3, <3>2, <3>3, InputReads
      <4> QED BY <3>3, <4>1, AllOfSeq
    <3>5. result = blocks
      <4>1. PICK f : f = <<sp, i>>
        OBVIOUS
      <4>2. FileOnDisk(f) = {full}
        <5>1. /\ f[1] = sp /\ f[2] = i /\ EntryOf(f) = indexed[sp][i] /\ ContentOf(f) = full
          BY <4>1 DEF EntryOf, ContentOf, ContentAt
        <5> QED BY <1>1, <5>1, DiskIs
      <4>3. result = ReadAt(full, k - 1, 1)
        BY <3>2, <4>1, <4>2 DEF RangeOnDisk
      <4>4. k \in Nat /\ (k - 1) + 1 = k
        BY <1>1, <1>4
      <4>5. ReadAt(full, k - 1, 1) = <<full[k]>>
        BY <1>1, <1>4, <4>4, OneOfSeq DEF ReadAt
      <4> QED BY <1>4, <4>3, <4>5
    <3>6. d.deltaIndex \in DOMAIN store /\ store[d.deltaIndex] = DeltaOf(base, blocks)
      BY <3>1, <3>2, <3>5, DeltaIs
    <3>7. Len(blocks) = 1
      BY <1>1, <1>4
    <3>8. WriteDelta
      BY <2>3 DEF WriteCA, WriteFD, AtChunkOf
    <3>9. PatchWith(base, store[uchunk.deltaIndex])
      BY <3>4, <3>6, <3>8 DEF WriteDelta
    <3>10. store[uchunk.deltaIndex].blocks = blocks
      BY <3>6 DEF DeltaOf
    <3> QED BY <3>2, <3>6, <3>7, <3>9, <3>10 DEF PatchWith
  <2> QED BY <1>4, <2>1, <2>2, <2>3 DEF MakesBlock
<1> QED BY <1>3, <1>4

-----------------------------------------------------------------------------
(* What dnar-unpack has written. *)

(* A NAR that is to be what was sent: nothing is confused in its store     *)
(* path, and it is made of nothing that has changed.                       *)
Good(j) == ~Confused(new[j]) /\ ~FromChanged(nars[j])

(* The blocks written of a file are those of its first descriptors.        *)
BlocksWritten(ds, sp, i) ==
  /\ uc \in 1..Len(ds) + 1
  /\ \/ Whole(ds, sp, i) /\ content = (IF uc = 1 THEN <<>> ELSE ContentAt(sp, i))
     \/ ByBlock(ds, sp, i) /\ content = SubSeq(ContentAt(sp, i), 1, uc - 1)

(* The nodes written are those of the entries that the files passed make.  *)
WrittenSoFar(g, fs, sp) ==
  /\ IsSeq(fs) /\ Chain(g, fs, sp, Len(indexed[sp]) + 1)
  /\ uf \in 1..Len(fs) + 1
  /\ nodes = SubSeq(NarOf(indexed[sp]), 1, g[uf] - 1)
  /\ uf <= Len(fs) /\ fs[uf].type = "regular" => BlocksWritten(fs[uf].chunks, sp, g[uf])

NarAtHand == uphase = "write" /\ Good(un) => \E g : WrittenSoFar(g, nars[un].files, new[un])

OutRight == \A j \in 1..Len(out) : out[j].nodes = NarOf(disk[new[j]]) \/ ~Good(j)

FailRight == uphase = "error" => un <= Len(nars) /\ ~Good(un)

HandedRight == NarAtHand /\ OutRight /\ FailRight

(* Such a NAR is being written. *)
AtNar(g, fs, sp) ==
  /\ uphase = "write" /\ un \in 1..Len(nars) /\ Good(un)
  /\ fs = nars[un].files /\ sp = new[un] /\ WrittenSoFar(g, fs, sp)

(* The store path of the NAR being written, as it is everywhere.           *)
LEMMA PathAtHand ==
  ASSUME StreamInv, NEW g, NEW fs, NEW sp, AtNar(g, fs, sp)
  PROVE  /\ sp \in StorePath /\ indexed[sp] \in Tree /\ Len(indexed[sp]) \in Nat
         /\ nars[un].path = sp /\ un \in 1..Len(new)
         /\ Len(fs) \in Nat /\ DOMAIN fs = 1..Len(fs) /\ uf \in 1..Len(fs) + 1
         /\ NarOf(indexed[sp]) \in Seq(ToSet(NarOf(indexed[sp])))
         /\ Len(NarOf(indexed[sp])) = Len(indexed[sp])
         /\ disk[sp] = indexed[sp]
         /\ g \in [1..Len(fs) + 1 -> 1..Len(indexed[sp]) + 1]
<1>1. InputsInv /\ Len(new) \in Nat /\ Len(nars) \in Nat /\ Len(nars) <= Len(new)
  BY CountsAre, SeqIs DEF StreamInv, PackInv, HostInv, NarsInv
<1>2. un \in 1..Len(new) /\ nars[un].path = sp
  BY <1>1 DEF AtNar, StreamInv, HostInv, NarsInv
<1>3. sp \in StorePath
  BY <1>1, <1>2 DEF AtNar, InputsInv
<1>4. indexed[sp] \in Tree /\ Len(indexed[sp]) \in Nat
  BY <1>1, <1>3, RowsTell
<1>5. /\ IsSeq(fs) /\ uf \in 1..Len(fs) + 1
      /\ g \in [1..Len(fs) + 1 -> 1..Len(indexed[sp]) + 1]
  BY DEF AtNar, WrittenSoFar, Chain
<1>6. PICK t, nar : t = indexed[sp] /\ nar = NarOf(t)
  OBVIOUS
<1>7. nar \in Seq(ToSet(nar)) /\ Len(nar) = Len(t)
  BY <1>4, <1>6, NarIsSeq
<1>8. disk[sp] = indexed[sp]
  <2>1. ~Changed(sp)
    BY <1>2 DEF AtNar, Good, FromChanged, SourcesOf
  <2> QED BY <2>1 DEF Changed
<1> QED BY <1>2, <1>3, <1>4, <1>5, <1>6, <1>7, <1>8, SeqIs

(* The file at hand makes its entries, and what it is made of is as it was. *)
LEMMA FileAtHand ==
  ASSUME StreamInv, NEW g, NEW fs, NEW sp, AtNar(g, fs, sp), uf <= Len(fs)
  PROVE  /\ ufile = fs[uf] /\ uf \in 1..Len(fs)
         /\ Makes(ufile, sp, g[uf], g[uf + 1])
         /\ g[uf] \in 1..Len(indexed[sp]) /\ g[uf + 1] \in g[uf] + 1..Len(indexed[sp]) + 1
         /\ RowTells(sp, g[uf]) /\ ~Changed(sp)
         /\ Copied(ufile) => ~Changed(inputFiles[ufile.from][1])
         /\ \A d \in ToSet(ufile.chunks) : ufile.type = "regular" =>
              /\ d.chunk = "ca" => ~Changed(chunkDeps[d.index].file[1])
              /\ d.chunk # "ca" => ~Changed(inputFiles[d.index][1])
<1>1. /\ sp \in StorePath /\ indexed[sp] \in Tree /\ Len(indexed[sp]) \in Nat /\ nars[un].path = sp
      /\ Len(fs) \in Nat /\ DOMAIN fs = 1..Len(fs) /\ uf \in 1..Len(fs) + 1
      /\ g \in [1..Len(fs) + 1 -> 1..Len(indexed[sp]) + 1]
  BY PathAtHand
<1>2. uf \in 1..Len(fs) /\ ufile = fs[uf] /\ ufile \in ToSet(nars[un].files)
  BY <1>1 DEF AtNar, ufile, ToSet
<1>3. Makes(ufile, sp, g[uf], g[uf + 1])
  BY <1>2 DEF AtNar, WrittenSoFar, Chain
<1>4. g[uf] \in 1..Len(indexed[sp]) /\ RowTells(sp, g[uf])
  <2>1. InputsInv
    BY DEF StreamInv, PackInv
  <2> QED BY <1>1, <1>3, <2>1, RowsTell DEF Makes
<1>5. g[uf + 1] \in g[uf] + 1..Len(indexed[sp]) + 1
  <2>1. CASE Copied(ufile)
    BY <1>3, <2>1 DEF Makes, MakesTree, Spanned
  <2>2. CASE ~Copied(ufile)
    BY <1>1, <1>3, <1>4, <2>2 DEF Makes
  <2> QED BY <2>1, <2>2
<1>6. ~FromChanged(nars[un])
  BY DEF AtNar, Good
<1> QED BY <1>1, <1>2, <1>3, <1>4, <1>5, <1>6, SourcesAre

(* What files make, they make when nothing changes. *)
LEMMA ChainHolds ==
  ASSUME PackInv, UNCHANGED packVars, NEW g, NEW fs, NEW sp, NEW e, Chain(g, fs, sp, e)
  PROVE  Chain(g, fs, sp, e)'
<1>1. /\ UNCHANGED <<inputVars, indexed, inputFiles, chunkDeps>>
      /\ IsSeq(inputFiles) /\ IsSeq(chunkDeps)
  BY DEF packVars, inputVars, depVars, PackInv, ListsInv
<1>2. ListsGrow
  BY <1>1, SameIsPrefix DEF ListsGrow
<1>3. \A k \in 1..Len(fs) : Makes(fs[k], sp, g[k], g[k + 1])'
  BY <1>2, MakesStays DEF Chain
<1> QED BY <1>1, <1>3 DEF Chain

(* The next file begins, if there is one. *)
LEMMA FileBegins ==
  ASSUME InputsInv, UNCHANGED packVars, NEW g, NEW fs, NEW sp \in StorePath, IsSeq(fs),
         Chain(g, fs, sp, Len(indexed[sp]) + 1), Chain(g, fs, sp, Len(indexed[sp]) + 1)',
         uf' \in 1..Len(fs) + 1, uc' = 1, content' = <<>>,
         nodes' = SubSeq(NarOf(indexed[sp]), 1, g[uf'] - 1)
  PROVE  WrittenSoFar(g, fs, sp)'
<1>1. indexed' = indexed
  BY DEF packVars, inputVars
<1>2. PICK n, i : n = uf' /\ i = g[n]
  OBVIOUS
<1>3. ASSUME n <= Len(fs), fs[n].type = "regular"
      PROVE  BlocksWritten(fs[n].chunks, sp, i)'
  <2>1. Len(fs) \in Nat /\ n \in 1..Len(fs)
    BY <1>2, <1>3, SeqIs
  <2>2. Makes(fs[n], sp, i, g[n + 1])' /\ Makes(fs[n], sp, i, g[n + 1])
    BY <1>2, <2>1 DEF Chain
  <2>3. PICK ds : ds = fs[n].chunks
    OBVIOUS
  <2>4. (Whole(ds, sp, i) \/ ByBlock(ds, sp, i))' /\ IsSeq(ds)
    BY <1>3, <2>2, <2>3 DEF Makes, MakesRegular, IsSeq
  <2>5. i \in 1..Len(indexed[sp])
    BY <2>2, RowsTell DEF Makes
  <2>6. (ContentAt(sp, i))' \in Seq(Block)
    <3>1. RowTells(sp, i)
      BY <2>5, RowsTell
    <3>2. ContentAt(sp, i) \in Seq(Block)
      BY <3>1 DEF RowTells, Entry, ContentAt
    <3> QED BY <1>1, <3>2 DEF ContentAt
  <2>7. content' = SubSeq((ContentAt(sp, i))', 1, uc' - 1)
    <3>1. uc' - 1 = 0
      OBVIOUS
    <3> QED BY <2>6, <3>1, AllOfSeq
  <2>8. uc' \in 1..Len(ds) + 1
    BY <2>4, SeqIs
  <2> QED BY <2>3, <2>4, <2>7, <2>8 DEF BlocksWritten
<1> QED BY <1>1, <1>2, <1>3 DEF WrittenSoFar, IsSeq

(* What there is of a sequence up to a place, and what follows up to       *)
(* another one.                                                            *)
LEMMA JoinSubs ==
  ASSUME NEW S, NEW s \in Seq(S), NEW a \in 1..Len(s), NEW b \in a..Len(s) + 1
  PROVE  SubSeq(s, 1, a - 1) \o SubSeq(s, a, b - 1) = SubSeq(s, 1, b - 1)
<1>1. PICK p, q, r : p = SubSeq(s, 1, a - 1) /\ q = SubSeq(s, a, b - 1) /\ r = SubSeq(s, 1, b - 1)
  OBVIOUS
<1>2. /\ p \in Seq(S) /\ Len(p) = a - 1 /\ \A k \in 1..a - 1 : p[k] = s[k]
      /\ Len(s) \in Nat /\ a \in Nat /\ b \in Nat
  BY <1>1
<1>3. q \in Seq(S) /\ Len(q) = b - a /\ \A k \in 1..b - a : q[k] = s[a + k - 1]
  BY <1>1, <1>2
<1>4. r \in Seq(S) /\ Len(r) = b - 1 /\ \A k \in 1..b - 1 : r[k] = s[k]
  <2>1. PICK c : c = b - 1 /\ c \in 0..Len(s)
    BY <1>2
  <2>2. r \in Seq(S) /\ Len(r) = c /\ \A k \in 1..c : r[k] = s[k]
    <3>1. \A k \in 1..c : s[k] \in S
      BY <1>2, <2>1
    <3>2. c \in Int /\ 1 \in Int /\ r = SubSeq(s, 1, c)
      BY <1>1, <1>2, <2>1
    <3>3. /\ r \in Seq(S) /\ Len(r) = IF 1 <= c THEN c - 1 + 1 ELSE 0
          /\ \A k \in 1..c - 1 + 1 : r[k] = s[1 + k - 1]
      BY <3>1, <3>2, SubSeqProperties
    <3> QED BY <1>2, <2>1, <3>3
  <2> QED BY <2>1, <2>2
<1>5. PICK t : t = p \o q
  OBVIOUS
<1>6. /\ t \in Seq(S) /\ Len(t) = b - 1
      /\ \A k \in 1..b - 1 : t[k] = IF k <= a - 1 THEN p[k] ELSE q[k - (a - 1)]
  BY <1>2, <1>3, <1>5
<1>7. ASSUME NEW k \in 1..b - 1
      PROVE  t[k] = r[k]
  <2>1. CASE k <= a - 1
    BY <1>2, <1>4, <1>6, <2>1
  <2>2. CASE k > a - 1
    <3>1. k - (a - 1) \in 1..b - a /\ a + (k - (a - 1)) - 1 = k
      BY <1>2, <2>2
    <3>2. t[k] = q[k - (a - 1)]
      BY <1>2, <1>6, <2>2
    <3> QED BY <1>3, <1>4, <3>1, <3>2
  <2> QED BY <1>2, <2>1, <2>2
<1>8. t = r
  BY <1>4, <1>6, <1>7
<1> QED BY <1>1, <1>5, <1>8

(* How descriptors make a file, they do when nothing changes. *)
LEMMA KindHolds ==
  ASSUME PackInv, UNCHANGED packVars, NEW ds, NEW sp, NEW i
  PROVE  /\ Whole(ds, sp, i) => Whole(ds, sp, i)'
         /\ ByBlock(ds, sp, i) => ByBlock(ds, sp, i)'
<1>1. /\ UNCHANGED <<inputVars, indexed, inputFiles, chunkDeps>>
      /\ IsSeq(inputFiles) /\ IsSeq(chunkDeps)
  BY DEF packVars, inputVars, depVars, PackInv, ListsInv
<1>2. ListsGrow
  BY <1>1, SameIsPrefix DEF ListsGrow
<1>3. ContentAt(sp, i)' = ContentAt(sp, i)
  BY <1>1 DEF ContentAt
<1>4. ByBlock(ds, sp, i) => ByBlock(ds, sp, i)'
  BY <1>2, <1>3, BlockStays DEF ByBlock
<1>5. Whole(ds, sp, i) => Whole(ds, sp, i)'
  BY <1>1, <1>3 DEF Whole, MakesWhole, FileInput, InputContent, ContentOf, EntryOf
<1> QED BY <1>4, <1>5

(* A chunk written is what its descriptor makes. *)
LEMMA BlockAdded ==
  ASSUME StreamInv, WrittenRight, AllRead, UNCHANGED packVars,
         NEW g, NEW fs, NEW sp, AtNar(g, fs, sp), WriteCA \/ WriteFD \/ WriteDelta
  PROVE  UNCHANGED <<uphase, nars, un, out>> /\ WrittenSoFar(g, fs, sp)'
<1>1. uf <= Len(fs) /\ ufile.type = "regular" /\ uc <= Len(ufile.chunks)
  BY DEF WriteCA, WriteFD, WriteDelta, AtChunkOf, AtFileOf, AtNar
<1>2. PICK i, ds, full, d : /\ i = g[uf] /\ ds = ufile.chunks /\ full = ContentAt(sp, i)
                            /\ d = uchunk
  OBVIOUS
<1>3. /\ ufile = fs[uf] /\ uf \in 1..Len(fs) /\ Makes(ufile, sp, i, g[uf + 1])
      /\ i \in 1..Len(indexed[sp]) /\ RowTells(sp, i) /\ ~Changed(sp)
      /\ \A c \in ToSet(ds) : /\ c.chunk = "ca" => ~Changed(chunkDeps[c.index].file[1])
                              /\ c.chunk # "ca" => ~Changed(inputFiles[c.index][1])
  BY <1>1, <1>2, FileAtHand
<1>4. /\ ufile.size = Len(full) /\ IsSeq(ds) /\ indexed[sp][i].type = "regular"
  BY <1>1, <1>2, <1>3 DEF Makes, MakesRegular
<1>5. full \in Seq(Block) /\ Len(full) \in Nat
  <2>1. full \in Seq(Block)
    BY <1>2, <1>3 DEF RowTells, Entry, ContentAt
  <2> QED BY <2>1
<1>6. sp \in StorePath /\ PackInv /\ indexed' = indexed /\ (ContentAt(sp, i))' = full
  BY <1>2, PathAtHand DEF StreamInv, ContentAt, packVars, inputVars
<1>7. BlocksWritten(ds, sp, i) /\ Len(ds) \in Nat /\ uc \in 1..Len(ds)
  <2>1. BlocksWritten(ds, sp, i)
    BY <1>1, <1>2, <1>3 DEF AtNar, WrittenSoFar
  <2>2. Len(ds) \in Nat /\ uc \in 1..Len(ds) + 1
    BY <1>4, <2>1, SeqIs DEF BlocksWritten
  <2> QED BY <1>1, <1>2, <2>1, <2>2
<1>8. /\ d \in ToSet(ds) /\ d = ds[uc]
      /\ d.chunk = "ca" => ~Changed(chunkDeps[d.index].file[1])
      /\ d.chunk # "ca" => ~Changed(inputFiles[d.index][1])
  <2>1. d = ds[uc] /\ uc \in DOMAIN ds
    BY <1>2, <1>4, <1>7, SeqIs DEF uchunk
  <2>2. d \in ToSet(ds)
    BY <2>1 DEF ToSet
  <2> QED BY <1>3, <2>1, <2>2
<1>9. ASSUME NEW blocks, WriteBlocks(blocks), Len(content) + Len(blocks) <= Len(full),
             (BlocksWritten(ds, sp, i))'
      PROVE  UNCHANGED <<uphase, nars, un, out>> /\ WrittenSoFar(g, fs, sp)'
  <2>1. ~(Len(content) + Len(blocks) > ufile.size)
    <3>1. PICK a, b, c : a = Len(content) + Len(blocks) /\ b = Len(full) /\ c = ufile.size
      OBVIOUS
    <3>2. a <= b /\ c = b
      BY <1>4, <1>9, <3>1
    <3> QED BY <3>1, <3>2
  <2>2. UNCHANGED <<uphase, nars, un, uf, nodes, out>>
    BY <1>9, <2>1 DEF WriteBlocks, readVars
  <2>3. Chain(g, fs, sp, Len(indexed[sp]) + 1)
    BY DEF AtNar, WrittenSoFar
  <2>4. PICK last : last = Len(indexed[sp]) + 1 /\ last = Len(indexed'[sp]) + 1
    BY <1>6
  <2>5. Chain(g, fs, sp, last)'
    BY <1>6, <2>3, <2>4, ChainHolds
  <2>6. (IsSeq(fs))' /\ uf' \in 1..Len(fs) + 1 /\ nodes' = SubSeq(NarOf(indexed'[sp]), 1, g[uf'] - 1)
    BY <1>6, <2>2 DEF AtNar, WrittenSoFar, IsSeq
  <2>7. uf' <= Len(fs) /\ fs[uf'].type = "regular" => (BlocksWritten(fs[uf].chunks, sp, g[uf]))'
    BY <1>2, <1>3, <1>9, <2>2
  <2>8. WrittenSoFar(g, fs, sp)'
    BY <2>4, <2>5, <2>6, <2>7 DEF WrittenSoFar
  <2> QED BY <2>2, <2>8
<1>10. ASSUME NEW blocks, \/ MakesWhole(d, full) /\ blocks = full
                          \/ MakesBlock(d, sp, i, uc) /\ uc \in 1..Len(full) /\ blocks = <<full[uc]>>
       PROVE  WriteBlocks(blocks)
  BY <1>2, <1>3, <1>4, <1>6, <1>8, <1>10, DescriptorWrites
<1>11. CASE Whole(ds, sp, i) /\ content = (IF uc = 1 THEN <<>> ELSE ContentAt(sp, i))
  <2>1. uc = 1 /\ Len(ds) = 1 /\ content = <<>> /\ MakesWhole(d, full)
    BY <1>2, <1>7, <1>8, <1>11 DEF Whole
  <2>2. WriteBlocks(full)
    BY <1>10, <2>1
  <2>3. Len(content) + Len(full) <= Len(full) /\ content \o full = full
    BY <1>5, <2>1
  <2>4. content' = full /\ uc' = 2
    <3>1. ~(Len(content) + Len(full) > ufile.size)
      <4>1. Len(content) = 0
        BY <2>1
      <4> QED BY <1>4, <1>5, <4>1
    <3> QED BY <2>1, <2>2, <2>3, <3>1 DEF WriteBlocks
  <2>5. (BlocksWritten(ds, sp, i))'
    <3>1. Whole(ds, sp, i)'
      BY <1>6, <1>11, KindHolds
    <3> QED BY <1>6, <2>1, <2>4, <3>1 DEF BlocksWritten
  <2> QED BY <1>9, <2>2, <2>3, <2>5
<1>12. CASE ByBlock(ds, sp, i) /\ content = SubSeq(ContentAt(sp, i), 1, uc - 1)
  <2>1. /\ Len(ds) = Len(full) /\ MakesBlock(d, sp, i, uc) /\ content = SubSeq(full, 1, uc - 1)
        /\ uc \in 1..Len(full) /\ uc \in Nat
    BY <1>2, <1>5, <1>7, <1>8, <1>12 DEF ByBlock
  <2>2. PICK blocks : blocks = <<full[uc]>>
    OBVIOUS
  <2>3. WriteBlocks(blocks)
    BY <1>10, <2>1, <2>2
  <2>4. Len(content) = uc - 1 /\ Len(blocks) = 1
    BY <1>5, <2>1, <2>2
  <2>5. Len(content) + Len(blocks) = uc
    BY <2>1, <2>4
  <2>6. content \o blocks = SubSeq(full, 1, uc)
    <3>1. SubSeq(full, uc, (uc + 1) - 1) = blocks /\ (uc + 1) - 1 = uc /\ uc + 1 \in uc..Len(full) + 1
      BY <1>5, <2>1, <2>2, OneOfSeq
    <3>2. SubSeq(full, 1, uc - 1) \o SubSeq(full, uc, (uc + 1) - 1) = SubSeq(full, 1, (uc + 1) - 1)
      BY <1>5, <2>1, <3>1, JoinSubs
    <3> QED BY <2>1, <3>1, <3>2
  <2>7. content' = SubSeq(full, 1, uc) /\ uc' = uc + 1
    <3>1. ~(Len(content) + Len(blocks) > ufile.size)
      BY <1>4, <1>5, <2>1, <2>5
    <3> QED BY <2>3, <2>6, <3>1 DEF WriteBlocks
  <2>8. (BlocksWritten(ds, sp, i))'
    <3>1. ByBlock(ds, sp, i)'
      BY <1>6, <1>12, KindHolds
    <3>2. uc' \in 1..Len(ds) + 1 /\ uc' - 1 = uc
      BY <1>7, <2>1, <2>7
    <3> QED BY <1>6, <2>7, <3>1, <3>2 DEF BlocksWritten
  <2>9. Len(content) + Len(blocks) <= Len(full)
    BY <1>5, <2>1, <2>5
  <2> QED BY <1>9, <2>3, <2>8, <2>9
<1> QED BY <1>7, <1>11, <1>12 DEF BlocksWritten

(* A file that is done adds the nodes of the entries it makes. *)
LEMMA NodesAdded ==
  ASSUME StreamInv, UNCHANGED packVars, NEW g, NEW fs, NEW sp, AtNar(g, fs, sp), uf <= Len(fs),
         NEW more, WriteNodes(more), more = SubSeq(NarOf(indexed[sp]), g[uf], g[uf + 1] - 1)
  PROVE  UNCHANGED <<uphase, nars, un, out>> /\ WrittenSoFar(g, fs, sp)'
<1>1. PICK nar, i, e, last : /\ nar = NarOf(indexed[sp]) /\ i = g[uf] /\ e = g[uf + 1]
                             /\ last = Len(indexed[sp]) + 1
  OBVIOUS
<1>2. /\ sp \in StorePath /\ nar \in Seq(ToSet(nar)) /\ Len(nar) = Len(indexed[sp])
      /\ Len(indexed[sp]) \in Nat /\ Len(fs) \in Nat
  BY <1>1, PathAtHand
<1>3. uf \in 1..Len(fs) /\ i \in 1..Len(nar) /\ e \in i + 1..Len(nar) + 1
  BY <1>1, <1>2, FileAtHand
<1>4. e \in i..Len(nar) + 1
  BY <1>2, <1>3
<1>5. nodes = SubSeq(nar, 1, i - 1) /\ IsSeq(fs) /\ Chain(g, fs, sp, last)
  BY <1>1 DEF AtNar, WrittenSoFar
<1>6. nodes \o more = SubSeq(nar, 1, e - 1)
  BY <1>1, <1>2, <1>3, <1>4, <1>5, JoinSubs
<1>7. /\ UNCHANGED <<uphase, nars, un, out>> /\ uf' = uf + 1 /\ uc' = 1 /\ content' = <<>>
      /\ nodes' = SubSeq(nar, 1, e - 1)
  BY <1>6 DEF WriteNodes, NextFile, readVars
<1>8. uf' \in 1..Len(fs) + 1 /\ nodes' = SubSeq(NarOf(indexed[sp]), 1, g[uf'] - 1)
  BY <1>1, <1>2, <1>3, <1>7
<1>9. PackInv /\ InputsInv /\ indexed' = indexed
  BY DEF StreamInv, PackInv, packVars, inputVars
<1>10. Chain(g, fs, sp, Len(indexed[sp]) + 1)'
  <2>1. Chain(g, fs, sp, last)' /\ last = Len(indexed'[sp]) + 1
    BY <1>1, <1>5, <1>9, ChainHolds
  <2> QED BY <2>1
<1> QED BY <1>1, <1>2, <1>5, <1>7, <1>8, <1>9, <1>10, FileBegins

(* The node of an entry is what a NAR has at its place. *)
LEMMA NodeOf ==
  ASSUME NEW t \in Tree, NEW i \in 1..Len(t), NEW e, e = t[i]
  PROVE  /\ SubSeq(NarOf(t), i, (i + 1) - 1) = <<Node(e.path, e)>>
         /\ e.type = "regular" => Node(e.path, e) = [path |-> e.path, type |-> "regular",
              content |-> e.content, exec |-> e.exec, target |-> Nil]
         /\ e.type = "directory" => Node(e.path, e) = [path |-> e.path, type |-> "directory",
              content |-> <<>>, exec |-> FALSE, target |-> Nil]
         /\ e.type = "symlink" => Node(e.path, e) = [path |-> e.path, type |-> "symlink",
              content |-> <<>>, exec |-> FALSE, target |-> e.target]
<1>1. /\ Len(t) \in Nat /\ e \in Entry
  BY TreeIs
<1>2. /\ e.exec \in BOOLEAN /\ e.type \in {"regular", "directory", "symlink"}
      /\ e.type # "regular" => e.content = <<>>
      /\ e.type # "symlink" => e.target = Nil
  BY <1>1 DEF Entry
<1>3. PICK nar : nar = NarOf(t)
  OBVIOUS
<1>4. nar = [k \in 1..Len(t) |-> Node(t[k].path, t[k])]
  BY <1>3, NarIs
<1>5. nar \in Seq(ToSet(nar)) /\ Len(nar) = Len(t) /\ nar[i] = Node(e.path, e)
  BY <1>1, <1>3, <1>4, NarIsSeq
<1>6. (i + 1) - 1 = i
  BY <1>1
<1>7. SubSeq(nar, i, (i + 1) - 1) = <<Node(e.path, e)>>
  BY <1>5, <1>6, OneOfSeq
<1>8. e.type = "regular" => (e.type = "regular" /\ e.exec) = e.exec
  BY <1>2
<1>9. e.type # "regular" => (e.type = "regular" /\ e.exec) = FALSE
  BY <1>2
<1>10. /\ e.type = "regular" => Node(e.path, e) = [path |-> e.path, type |-> "regular",
            content |-> e.content, exec |-> e.exec, target |-> Nil]
  BY <1>2, <1>8 DEF Node
<1>11. /\ e.type = "directory" => Node(e.path, e) = [path |-> e.path, type |-> "directory",
            content |-> <<>>, exec |-> FALSE, target |-> Nil]
  BY <1>2, <1>9 DEF Node
<1>12. /\ e.type = "symlink" => Node(e.path, e) = [path |-> e.path, type |-> "symlink",
            content |-> <<>>, exec |-> FALSE, target |-> e.target]
  BY <1>2, <1>9 DEF Node
<1> QED BY <1>3, <1>7, <1>10, <1>11, <1>12

(* A file that ends adds what it makes. *)
LEMMA FileEnds ==
  ASSUME StreamInv, AllRead, UNCHANGED packVars, NEW g, NEW fs, NEW sp, AtNar(g, fs, sp),
         EndRegular \/ WriteDirectory \/ CopyDirectory \/ WriteSymlink
  PROVE  UNCHANGED <<uphase, nars, un, out>> /\ WrittenSoFar(g, fs, sp)'
<1>1. uf <= Len(fs)
  BY DEF EndRegular, WriteDirectory, CopyDirectory, WriteSymlink, AtFileOf, AtNar
<1>2. PICK t, i, e, b : t = indexed[sp] /\ i = g[uf] /\ e = t[i] /\ b = g[uf + 1]
  OBVIOUS
<1>3. /\ Makes(ufile, sp, i, b) /\ i \in 1..Len(t) /\ RowTells(sp, i) /\ ufile = fs[uf]
      /\ Copied(ufile) => ~Changed(inputFiles[ufile.from][1])
  BY <1>1, <1>2, FileAtHand
<1>4. t \in Tree /\ Len(t) \in Nat
  BY <1>2, PathAtHand
<1>5. /\ ufile.type = e.type /\ ufile.path = e.path
      /\ Copied(ufile) => MakesTree(ufile, sp, i, b)
      /\ ~Copied(ufile) => b = i + 1
      /\ ufile.type = "symlink" => ufile.target = e.target
      /\ ufile.type = "regular" => MakesRegular(ufile, sp, i)
  BY <1>2, <1>3 DEF Makes
<1>6. /\ SubSeq(NarOf(t), i, (i + 1) - 1) = <<Node(e.path, e)>>
      /\ e.type = "regular" => Node(e.path, e) = [path |-> e.path, type |-> "regular",
           content |-> e.content, exec |-> e.exec, target |-> Nil]
      /\ e.type = "directory" => Node(e.path, e) = [path |-> e.path, type |-> "directory",
           content |-> <<>>, exec |-> FALSE, target |-> Nil]
      /\ e.type = "symlink" => Node(e.path, e) = [path |-> e.path, type |-> "symlink",
           content |-> <<>>, exec |-> FALSE, target |-> e.target]
  BY <1>2, <1>3, <1>4, NodeOf
<1>7. ASSUME NEW more, WriteNodes(more), more = SubSeq(NarOf(t), i, b - 1)
      PROVE  UNCHANGED <<uphase, nars, un, out>> /\ WrittenSoFar(g, fs, sp)'
  BY <1>1, <1>2, <1>7, NodesAdded
<1>8. ASSUME NEW node, WriteNodes(<<node>>), node = Node(e.path, e), ~Copied(ufile)
      PROVE  UNCHANGED <<uphase, nars, un, out>> /\ WrittenSoFar(g, fs, sp)'
  <2>1. b - 1 = (i + 1) - 1
    BY <1>5, <1>8
  <2>2. SubSeq(NarOf(t), i, b - 1) = <<node>>
    BY <1>6, <1>8, <2>1
  <2> QED BY <1>7, <1>8, <2>2
<1>9. CASE EndRegular
  <2>1. ufile.type = "regular" /\ uc > Len(ufile.chunks) /\ ~Copied(ufile)
    BY <1>9 DEF EndRegular, AtFileOf, Copied
  <2>2. PICK ds, full : ds = ufile.chunks /\ full = ContentAt(sp, i)
    OBVIOUS
  <2>3. /\ ufile.size = Len(full) /\ ufile.exec = e.exec /\ IsSeq(ds)
        /\ full = e.content /\ full \in Seq(Block) /\ Len(full) \in Nat
    <3>1. full = e.content /\ full \in Seq(Block)
      BY <1>2, <1>3, <2>2 DEF ContentAt, RowTells, Entry
    <3> QED BY <1>2, <1>5, <2>1, <2>2, <3>1 DEF MakesRegular
  <2>4. BlocksWritten(ds, sp, i)
    BY <1>1, <1>2, <1>3, <2>1, <2>2 DEF AtNar, WrittenSoFar
  <2>5. uc = Len(ds) + 1 /\ Len(ds) \in Nat
    <3>1. Len(ds) \in Nat /\ uc \in 1..Len(ds) + 1 /\ uc > Len(ds)
      BY <2>1, <2>2, <2>3, <2>4, SeqIs DEF BlocksWritten
    <3> QED BY <3>1
  <2>6. content = full
    <3>1. CASE Whole(ds, sp, i) /\ content = (IF uc = 1 THEN <<>> ELSE ContentAt(sp, i))
      BY <2>2, <2>5, <3>1 DEF Whole
    <3>2. CASE ByBlock(ds, sp, i) /\ content = SubSeq(ContentAt(sp, i), 1, uc - 1)
      <4>1. uc - 1 = Len(full)
        BY <2>2, <2>5, <3>2 DEF ByBlock
      <4> QED BY <2>2, <2>3, <3>2, <4>1, AllOfSeq
    <3> QED BY <2>4, <3>1, <3>2 DEF BlocksWritten
  <2>7. PICK node : node = [path |-> ufile.path, type |-> "regular", content |-> content,
                            exec |-> ufile.exec, target |-> Nil]
    OBVIOUS
  <2>8. WriteNodes(<<node>>)
    BY <1>9, <2>3, <2>6, <2>7 DEF EndRegular
  <2>9. node = Node(e.path, e)
    BY <1>5, <1>6, <2>1, <2>3, <2>6, <2>7
  <2> QED BY <1>8, <2>1, <2>8, <2>9
<1>10. CASE WriteDirectory
  <2>1. PICK node : node = [path |-> ufile.path, type |-> "directory", content |-> <<>>,
                            exec |-> FALSE, target |-> Nil]
    OBVIOUS
  <2>2. WriteNodes(<<node>>) /\ ufile.type = "directory" /\ ~Copied(ufile)
    BY <1>10, <2>1 DEF WriteDirectory, AtFileOf, Copied
  <2>3. node = Node(e.path, e)
    BY <1>5, <1>6, <2>1, <2>2
  <2> QED BY <1>8, <2>2, <2>3
<1>11. CASE WriteSymlink
  <2>1. PICK node : node = [path |-> ufile.path, type |-> "symlink", content |-> <<>>,
                            exec |-> FALSE, target |-> ufile.target]
    OBVIOUS
  <2>2. WriteNodes(<<node>>) /\ ufile.type = "symlink" /\ ~Copied(ufile)
    BY <1>11, <2>1 DEF WriteSymlink, AtFileOf, Copied
  <2>3. node = Node(e.path, e)
    BY <1>5, <1>6, <2>1, <2>2
  <2> QED BY <1>8, <2>2, <2>3
<1>12. CASE CopyDirectory
  <2>1. Copied(ufile)
    BY <1>12 DEF CopyDirectory, AtFileOf, Copied
  <2>2. PICK n, f : n = ufile.from /\ f = inputFiles[n]
    OBVIOUS
  <2>3. /\ n \in DOMAIN inputFiles
        /\ NodesAt(indexed[f[1]], EntryOf(f).path, ufile.path) = SubSeq(NarOf(t), i, b - 1)
    BY <1>2, <1>5, <2>1, <2>2 DEF MakesTree
  <2>4. /\ EntriesAt(inputs[n]) # {} /\ target[inputs[n][1]] = indexed[f[1]]
        /\ inputs[n][2] = EntryOf(f).path
    <3>1. ~Changed(f[1])
      BY <1>3, <2>1, <2>2
    <3>2. /\ EntriesAt(inputs[n]) = {EntryOf(f)} /\ target[inputs[n][1]] = indexed[f[1]]
          /\ inputs[n][2] = EntryOf(f).path
      BY <2>2, <2>3, <3>1, InputThere
    <3> QED BY <3>2
  <2>5. WriteNodes(NodesAt(target[inputs[n][1]], inputs[n][2], ufile.path))
    BY <1>12, <2>2, <2>4 DEF CopyDirectory
  <2> QED BY <1>7, <2>3, <2>4, <2>5
<1> QED BY <1>9, <1>10, <1>11, <1>12

-----------------------------------------------------------------------------
(* Every step. *)

(* What dnar-pack has written stays right while it does nothing.           *)
LEMMA WrittenRightHolds ==
  ASSUME PackInv, WrittenRight, UNCHANGED packVars
  PROVE  WrittenRight'
<1>1. /\ UNCHANGED <<inputVars, archive, phase, np, nf, files, recursiveDir>>
      /\ UNCHANGED <<chunks, ref, descs, inputPaths, inputFiles, chunkDeps>>
      /\ IsSeq(archive) /\ IsSeq(inputFiles) /\ IsSeq(chunkDeps)
  BY DEF packVars, narVars, fileVars, depVars, PackInv, ListsInv
<1>2. ListsGrow /\ Extends(archive, archive')
  BY <1>1, SameIsPrefix DEF ListsGrow
<1>3. SentInv'
  <2> SUFFICES ASSUME phase' # "failed", NEW j \in 1..Len(new'), j < Len(archive')
               PROVE  SentWhole(j)'
    BY DEF SentInv
  <2>1. phase # "failed" /\ j \in 1..Len(new) /\ j < Len(archive) /\ SentInv
    BY <1>1 DEF inputVars, WrittenRight
  <2> QED BY <1>2, <2>1, SentStays
<1>4. AtHandInv'
  <2>1. (Confused(new[np]))' <=> Confused(new[np])
    BY <1>1, StillConfused
  <2>2. ASSUME NEW e, MadeUpTo(e)
        PROVE  MadeUpTo(e)'
    <3>1. (Made(files, new[np], e))'
      BY <1>1, <1>2, <2>2, MadeOn DEF MadeUpTo
    <3>2. rows' = rows /\ nf \in Nat
      BY <1>1 DEF rows, inputVars, PackInv, PhaseInv
    <3>3. e \in Nat /\ SkipsFrom(e)
      BY <2>2, <3>2 DEF MadeUpTo
    <3>4. nf' \in Nat /\ nf <= nf' /\ e <= e
      BY <1>1, <3>2, <3>3
    <3>5. UNCHANGED <<inputVars, np, recursiveDir>>
      BY <1>1
    <3>6. SkipsFrom(e)'
      BY <3>2, <3>3, <3>4, <3>5, SkipsOn
    <3> QED BY <1>1, <2>2, <3>1, <3>2, <3>6 DEF MadeUpTo
  <2>3. PICK i : i = nf /\ i = nf'
    BY <1>1
  <2>4. MadeUpTo(i) => MadeUpTo(i)'
    BY <2>2
  <2>5. (\E e : MadeUpTo(e)) => (\E e : MadeUpTo(e)')
    BY <2>2
  <2> QED BY <1>1, <2>1, <2>3, <2>4, <2>5 DEF WrittenRight, AtHandInv
<1>5. BlocksInv'
  <2>1. PICK sp, i : sp = new[np] /\ i = nf
    OBVIOUS
  <2>2. /\ row' = row /\ new' = new /\ ContentAt(new[np], nf)' = ContentAt(new[np], nf)
        /\ \A c, k : (BlockOf(c, new[np], nf, k))' <=> BlockOf(c, new[np], nf, k)
    BY <1>1, RowStays
  <2>3. ASSUME NEW k \in 1..Len(descs), MakesBlock(descs[k], new[np], nf, k)
        PROVE  (MakesBlock(descs[k], new[np], nf, k))'
    <3>1. PICK d : d = descs[k] /\ d = descs'[k]
      BY <1>1
    <3>2. MakesBlock(d, sp, i, k)'
      BY <1>2, <2>1, <2>3, <3>1, BlockStays
    <3>3. sp = (new[np])' /\ i = nf'
      BY <1>1, <2>1, <2>2
    <3> QED BY <3>1, <3>2, <3>3
  <2>4. \A f : EntryOf(f)' = EntryOf(f)
    BY <1>1 DEF EntryOf, inputVars
  <2>5. BlocksInv
    BY DEF WrittenRight
  <2>6. phase = "chunks" => \A k \in 1..Len(descs') : (MakesBlock(descs[k], new[np], nf, k))'
    BY <1>1, <2>3, <2>5 DEF BlocksInv
  <2>7. \A f \in ref' : EntryOf(f)'.type = "regular"
    BY <1>1, <2>4, <2>5 DEF BlocksInv
  <2>8. phase \in {"reference", "chunks"} =>
           \A k \in DOMAIN chunks' : (BlockOf(chunks[k], new[np], nf, k))'
    BY <1>1, <2>2, <2>5 DEF BlocksInv
  <2> QED BY <1>1, <2>2, <2>5, <2>6, <2>7, <2>8 DEF BlocksInv
<1>6. DepsInv'
  <2>1. \A p : PayloadRight(p)' <=> PayloadRight(p)
    BY <1>1 DEF PayloadRight, EntryOf, ContentOf, inputVars
  <2>2. ASSUME NEW i \in DOMAIN chunkDeps', chunkDeps'[i].kind = "chunk"
        PROVE  (PayloadRight(chunkDeps[i]))'
    <3>1. PICK p : p = chunkDeps[i] /\ p = chunkDeps'[i]
      BY <1>1
    <3>2. PayloadRight(p)
      BY <1>1, <2>2, <3>1 DEF WrittenRight, DepsInv
    <3> QED BY <2>1, <3>1, <3>2
  <2> QED BY <1>1, <2>2 DEF WrittenRight, DepsInv
<1>7. DataInv'
  <2>1. \A p : DataOf(p)' = DataOf(p)
    BY <1>1 DEF DataOf, BlocksRead, RangeOnDisk, FileOnDisk, OnDisk, FileRow, inputVars
  <2>2. TrailerOf(archive[Len(archive)]) => (TrailerOf(archive[Len(archive)]))'
    BY <1>1 DEF TrailerOf, FileRow, inputVars
  <2>3. ASSUME NEW i \in 1..Len(chunkDeps), archive[Len(new) + 2 + i].data \in DataOf(chunkDeps[i])
        PROVE  (archive[Len(new) + 2 + i].data \in DataOf(chunkDeps[i]))'
    <3>1. PICK p : p = chunkDeps[i] /\ p = chunkDeps'[i]
      BY <1>1
    <3> QED BY <1>1, <2>1, <2>3, <3>1 DEF inputVars
  <2>4. ChunkCount' = ChunkCount /\ new' = new
    BY <1>1 DEF ChunkCount, inputVars
  <2>5. DataInv
    BY DEF WrittenRight
  <2>6. phase' \in {"payloads", "done"} =>
          \A i \in 1..Len(chunkDeps') : Len(new') + 2 + i <= Len(archive') =>
            (archive[Len(new) + 2 + i].data \in DataOf(chunkDeps[i]))'
    BY <1>1, <2>3, <2>4, <2>5 DEF DataInv
  <2> QED BY <1>1, <2>2, <2>4, <2>5, <2>6 DEF DataInv
<1> QED BY <1>3, <1>4, <1>5, <1>6, <1>7 DEF WrittenRight

(* Which NARs are to be what was sent does not change.                     *)
LEMMA SameGood ==
  ASSUME UNCHANGED <<packVars, target, nars>>
  PROVE  \A j : Good(j)' <=> Good(j)
<1>1. UNCHANGED <<inputVars, disk, indexed, local, new, target, nars, inputFiles, chunkDeps>>
  BY DEF packVars, inputVars, depVars
<1>2. \A sp : Changed(sp)' <=> Changed(sp)
  BY <1>1 DEF Changed
<1>3. \A msg : SourcesOf(msg)' = SourcesOf(msg)
  BY <1>1 DEF SourcesOf, InputsOf, DescriptorsOf
<1>4. \A msg : FromChanged(msg)' <=> FromChanged(msg)
  BY <1>2, <1>3 DEF FromChanged
<1>5. ASSUME NEW j
      PROVE  Good(j)' <=> Good(j)
  <2>1. PICK sp, msg : sp = new[j] /\ msg = nars[j]
    OBVIOUS
  <2>2. (Confused(sp)' <=> Confused(sp)) /\ (FromChanged(msg)' <=> FromChanged(msg))
    BY <1>1, <1>4, SameHost
  <2>3. sp = new'[j] /\ msg = nars'[j]
    BY <1>1, <2>1
  <2> QED BY <2>1, <2>2, <2>3 DEF Good
<1> QED BY <1>5

(* A NAR begins with nothing, which is what no files make.                 *)
LEMMA BeginWriteRight ==
  ASSUME StreamInv, WrittenRight, ReadInv, UNCHANGED packVars, BeginWrite
  PROVE  NarAtHand'
<1>1. /\ uphase = "nextNar" /\ un <= Len(nars) /\ UNCHANGED <<target, nars, un>>
      /\ uf' = 1 /\ uc' = 1 /\ content' = <<>> /\ nodes' = <<>>
  BY DEF BeginWrite, readVars
<1>2. /\ PackInv /\ InputsInv /\ Len(new) \in Nat /\ Len(nars) \in Nat /\ Len(nars) <= Len(new)
      /\ Len(out) \in Nat /\ un = Len(out) + 1 /\ new' = new /\ indexed' = indexed
      /\ Len(archive) \in Nat
  BY CountsAre, SeqIs DEF StreamInv, PackInv, HostInv, NarsInv, OutInv, packVars, inputVars
<1>3. un \in 1..Len(nars) /\ un \in 1..Len(new)
  BY <1>1, <1>2
<1>4. phase = "done" /\ NarsRead
  BY <1>1 DEF ReadInv, Writing, AllRead
<1>5. un < Len(archive) /\ nars[un] = archive[un + 1]
  <2>1. un + 1 <= Len(archive) /\ nars[un] = archive[un + 1]
    BY <1>3, <1>4 DEF NarsRead
  <2> QED BY <1>2, <1>3, <2>1
<1>6. PICK fs, sp : fs = nars[un].files /\ sp = new[un]
  OBVIOUS
<1>7. ASSUME ~Confused(sp)
      PROVE  \E g : WrittenSoFar(g, fs, sp)'
  <2>1. SentWhole(un)
    BY <1>3, <1>4, <1>5 DEF WrittenRight, SentInv
  <2>2. Made(fs, sp, Len(indexed[sp]) + 1)
    BY <1>5, <1>6, <1>7, <2>1 DEF SentWhole
  <2>3. PICK g : Chain(g, fs, sp, Len(indexed[sp]) + 1) /\ IsSeq(fs)
    BY <2>2 DEF Made
  <2>4. PICK last : last = Len(indexed[sp]) + 1 /\ last = Len(indexed'[sp]) + 1
    BY <1>2
  <2>5. Chain(g, fs, sp, Len(indexed[sp]) + 1)'
    <3>1. Chain(g, fs, sp, last)'
      BY <1>2, <2>3, <2>4, ChainHolds
    <3> QED BY <2>4, <3>1
  <2>6. sp \in StorePath
    BY <1>2, <1>3, <1>6 DEF InputsInv
  <2>7. nodes' = SubSeq(NarOf(indexed[sp]), 1, g[uf'] - 1)
    <3>1. g[1] = 1 /\ g[1] - 1 = 0
      BY <2>3 DEF Chain
    <3>2. PICK nar, t : t = indexed[sp] /\ nar = NarOf(t)
      OBVIOUS
    <3>3. nar \in Seq(ToSet(nar))
      BY <1>2, <2>6, <3>2, RowsTell, NarIsSeq
    <3>4. SubSeq(nar, 1, 0) = <<>>
      BY <3>3, AllOfSeq
    <3> QED BY <1>1, <3>1, <3>2, <3>4
  <2>8. uf' \in 1..Len(fs) + 1
    <3>1. Len(fs) \in Nat
      BY <2>3, SeqIs
    <3> QED BY <1>1, <3>1
  <2>9. WrittenSoFar(g, fs, sp)'
    BY <1>1, <1>2, <2>3, <2>5, <2>6, <2>7, <2>8, FileBegins
  <2> QED BY <2>9
<1>8. Good(un)' => ~Confused(sp)
  <2>1. PICK j : j = un /\ j = un'
    BY <1>1
  <2>2. Good(j)' => Good(j)
    BY <1>1, SameGood
  <2> QED BY <1>6, <2>1, <2>2 DEF Good
<1>9. fs = (nars[un].files)' /\ sp = (new[un])'
  BY <1>1, <1>2, <1>6
<1>10. PICK b, j : b = uphase' /\ j = un'
  OBVIOUS
<1>11. (\E g : WrittenSoFar(g, fs, sp)') => (\E g : (WrittenSoFar(g, nars[un].files, new[un]))')
  <2> SUFFICES ASSUME NEW g, WrittenSoFar(g, fs, sp)'
               PROVE  (WrittenSoFar(g, nars[un].files, new[un]))'
    OBVIOUS
  <2> QED BY <1>9
<1> QED BY <1>7, <1>8, <1>11 DEF NarAtHand

(* A NAR that is done is that of its store path.                           *)
LEMMA EndWriteRight ==
  ASSUME StreamInv, HandedRight, UNCHANGED packVars, EndWrite
  PROVE  OutRight'
<1>1. PICK n : /\ n = [path |-> nars[un].path, nodes |-> nodes] /\ out' = Append(out, n)
               /\ uphase = "write" /\ uf > Len(nars[un].files)
               /\ UNCHANGED <<target, nars>>
  BY DEF EndWrite, readVars
<1>2. IsSeq(out) /\ Len(out) \in Nat /\ un = Len(out) + 1 /\ un <= Len(nars) /\ Len(nars) \in Nat
  BY <1>1, SeqIs DEF StreamInv, HostInv, NarsInv, OutInv
<1>3. /\ Len(out') = Len(out) + 1 /\ out'[Len(out) + 1] = n
      /\ \A j \in 1..Len(out) : out'[j] = out[j]
  BY <1>1, <1>2, AppendIs, SeqIs DEF Extends
<1>4. UNCHANGED <<disk, new>> /\ \A j : Good(j)' <=> Good(j)
  BY <1>1, SameGood DEF packVars, inputVars
<1>5. ASSUME Good(un)
      PROVE  nodes = NarOf(disk[new[un]])
  <2>1. PICK g, fs, sp : fs = nars[un].files /\ sp = new[un] /\ WrittenSoFar(g, fs, sp)
    BY <1>1, <1>5 DEF HandedRight, NarAtHand
  <2>2. AtNar(g, fs, sp)
    BY <1>1, <1>2, <1>5, <2>1 DEF AtNar
  <2>3. /\ Len(fs) \in Nat /\ uf \in 1..Len(fs) + 1 /\ disk[sp] = indexed[sp]
        /\ NarOf(indexed[sp]) \in Seq(ToSet(NarOf(indexed[sp])))
        /\ Len(NarOf(indexed[sp])) = Len(indexed[sp]) /\ Len(indexed[sp]) \in Nat
    BY <2>2, PathAtHand
  <2>4. uf = Len(fs) + 1
    <3>1. PICK k : k = Len(fs)
      OBVIOUS
    <3>2. uf > k
      BY <1>1, <2>1, <3>1
    <3> QED BY <2>3, <3>1, <3>2
  <2>5. g[uf] = Len(indexed[sp]) + 1 /\ nodes = SubSeq(NarOf(indexed[sp]), 1, g[uf] - 1)
    BY <2>1, <2>4 DEF WrittenSoFar, Chain
  <2>6. g[uf] - 1 = Len(NarOf(indexed[sp]))
    BY <2>3, <2>5
  <2>7. nodes = NarOf(indexed[sp])
    BY <2>3, <2>5, <2>6, AllOfSeq
  <2> QED BY <2>1, <2>3, <2>7
<1>6. ASSUME NEW j \in 1..Len(out')
      PROVE  out'[j].nodes = NarOf(disk'[new'[j]]) \/ ~Good(j)
  <2>1. CASE j = Len(out) + 1
    BY <1>1, <1>2, <1>3, <1>4, <1>5, <2>1
  <2>2. CASE j \in 1..Len(out)
    BY <1>3, <1>4, <2>2 DEF HandedRight, OutRight
  <2> QED BY <1>2, <1>3, <2>1, <2>2
<1> QED BY <1>4, <1>6 DEF OutRight

(* What is written of a NAR goes on being right.                           *)
LEMMA WritingRight ==
  ASSUME StreamInv, WrittenRight, ReadInv, HandedRight, UNCHANGED packVars,
         \/ WriteCA \/ WriteFD \/ WriteDelta \/ EndRegular
         \/ WriteDirectory \/ CopyDirectory \/ WriteSymlink
  PROVE  HandedRight'
<1>1. uphase = "write"
  BY DEF WriteCA, WriteFD, WriteDelta, EndRegular, WriteDirectory, CopyDirectory, WriteSymlink,
         AtChunkOf, AtFileOf
<1>2. /\ UNCHANGED <<target, nars, un, out>> /\ uphase' \in {"write", "error"}
  <2>1. ASSUME Fail
        PROVE  UNCHANGED <<target, nars, un, out>> /\ uphase' \in {"write", "error"}
    BY <2>1 DEF Fail, readVars
  <2>2. ASSUME NEW blocks, WriteBlocks(blocks)
        PROVE  UNCHANGED <<target, nars, un, out>> /\ uphase' \in {"write", "error"}
    BY <1>1, <2>1, <2>2 DEF WriteBlocks, readVars
  <2>3. ASSUME NEW more, WriteNodes(more)
        PROVE  UNCHANGED <<target, nars, un, out>> /\ uphase' \in {"write", "error"}
    BY <1>1, <2>3 DEF WriteNodes, readVars
  <2>4. CASE WriteCA \/ WriteFD \/ WriteDelta
    BY <2>1, <2>2, <2>4 DEF WriteCA, WriteFD, WriteDelta, PatchWith
  <2>5. CASE EndRegular \/ WriteDirectory \/ CopyDirectory \/ WriteSymlink
    BY <2>1, <2>3, <2>5 DEF EndRegular, WriteDirectory, CopyDirectory, WriteSymlink
  <2> QED BY <2>4, <2>5
<1>3. /\ Len(nars) \in Nat /\ Len(out) \in Nat /\ un = Len(out) + 1 /\ un <= Len(nars)
      /\ UNCHANGED <<disk, new>> /\ AllRead
  BY <1>1, SeqIs DEF StreamInv, HostInv, NarsInv, OutInv, packVars, inputVars, ReadInv, Writing
<1>4. \A j : Good(j)' <=> Good(j)
  BY <1>2, SameGood
<1>5. OutRight'
  BY <1>2, <1>3, <1>4 DEF HandedRight, OutRight
<1>6. PICK j, fs, sp : j = un /\ fs = nars[un].files /\ sp = new[un]
  OBVIOUS
<1>7. (Good(un))' <=> Good(j)
  BY <1>2, <1>4, <1>6
<1>8. CASE Good(un)
  <2>1. PICK g : WrittenSoFar(g, fs, sp)
    BY <1>1, <1>6, <1>8 DEF HandedRight, NarAtHand
  <2>2. AtNar(g, fs, sp)
    BY <1>1, <1>3, <1>6, <1>8, <2>1 DEF AtNar
  <2>3. uphase' = "write" /\ WrittenSoFar(g, fs, sp)'
    <3>1. CASE WriteCA \/ WriteFD \/ WriteDelta
      BY <1>1, <2>2, <3>1, <1>3, BlockAdded
    <3>2. CASE EndRegular \/ WriteDirectory \/ CopyDirectory \/ WriteSymlink
      BY <1>1, <2>2, <3>2, <1>3, FileEnds
    <3> QED BY <3>1, <3>2
  <2>4. (WrittenSoFar(g, nars[un].files, new[un]))'
    <3>1. fs = (nars[un].files)' /\ sp = (new[un])'
      BY <1>2, <1>3, <1>6
    <3> QED BY <2>3, <3>1
  <2> QED BY <1>5, <2>3, <2>4 DEF HandedRight, NarAtHand, FailRight
<1>9. CASE ~Good(un)
  BY <1>2, <1>3, <1>5, <1>6, <1>7, <1>9 DEF HandedRight, NarAtHand, FailRight
<1> QED BY <1>8, <1>9

(* A step that neither writes nor begins to, or that changes nothing of    *)
(* what is written.                                                        *)
LEMMA HandedHolds ==
  ASSUME PackInv, HandedRight, UNCHANGED <<packVars, target, nars, un, out>>,
         \/ uphase' \notin {"write", "error"}
         \/ UNCHANGED <<uphase, uf, uc, content, nodes>>
  PROVE  HandedRight'
<1>1. UNCHANGED <<disk, new, indexed>> /\ \A j : Good(j)' <=> Good(j)
  BY SameGood DEF packVars, inputVars
<1>2. OutRight'
  BY <1>1 DEF HandedRight, OutRight
<1>3. CASE uphase' \notin {"write", "error"}
  BY <1>2, <1>3 DEF HandedRight, NarAtHand, FailRight
<1>4. CASE UNCHANGED <<uphase, uf, uc, content, nodes>>
  <2>1. PICK j, fs, sp : j = un /\ fs = nars[un].files /\ sp = new[un]
    OBVIOUS
  <2>2. ((Good(un))' <=> Good(j)) /\ fs = (nars[un].files)' /\ sp = (new[un])'
    BY <1>1, <2>1
  <2>3. ASSUME NEW g, WrittenSoFar(g, fs, sp)
        PROVE  WrittenSoFar(g, fs, sp)'
    <3>1. PICK last : last = Len(indexed[sp]) + 1 /\ last = Len(indexed'[sp]) + 1
      BY <1>1
    <3>2. Chain(g, fs, sp, last)'
      BY <2>3, <3>1, ChainHolds DEF WrittenSoFar
    <3>3. \A ds, i : BlocksWritten(ds, sp, i) => BlocksWritten(ds, sp, i)'
      BY <1>1, <1>4, KindHolds DEF BlocksWritten, ContentAt
    <3>4. uf \in 1..Len(fs) + 1 /\ nodes = SubSeq(NarOf(indexed[sp]), 1, g[uf] - 1) /\ IsSeq(fs)
      BY <2>3 DEF WrittenSoFar
    <3>5. PICK ds, i : ds = fs[uf].chunks /\ i = g[uf]
      OBVIOUS
    <3>6. uf <= Len(fs) /\ fs[uf].type = "regular" => BlocksWritten(ds, sp, i)'
      BY <2>3, <3>3, <3>5 DEF WrittenSoFar
    <3> QED BY <1>1, <1>4, <3>1, <3>2, <3>4, <3>5, <3>6 DEF WrittenSoFar, IsSeq
  <2>4. NarAtHand'
    <3> SUFFICES ASSUME uphase' = "write", (Good(un))'
                 PROVE  \E g : (WrittenSoFar(g, nars[un].files, new[un]))'
      BY DEF NarAtHand
    <3>1. PICK g : WrittenSoFar(g, fs, sp)
      BY <1>4, <2>1, <2>2 DEF HandedRight, NarAtHand
    <3>2. (WrittenSoFar(g, nars[un].files, new[un]))'
      BY <2>2, <2>3, <3>1
    <3> QED BY <3>2
  <2>5. FailRight'
    BY <1>4, <2>1, <2>2 DEF HandedRight, FailRight
  <2> QED BY <1>2, <2>4, <2>5 DEF HandedRight
<1> QED BY <1>3, <1>4

(* What is written is right before anything is.                            *)
LEMMA NothingHanded ==
  ASSUME StreamInv', uphase' \notin {"write", "error"}, Len(out') = 0
  PROVE  HandedRight'
BY DEF HandedRight, NarAtHand, OutRight, FailRight

-----------------------------------------------------------------------------
(* The deployment. *)

DeliverInv == StreamInv /\ WrittenRight /\ ReadInv /\ HandedRight

LEMMA DeliverInit == DeployInit => DeliverInv
<1> SUFFICES ASSUME DeployInit PROVE DeliverInv
  OBVIOUS
<1>1. PackInit /\ StreamInv /\ UnpackInit
  BY DeployInitInv DEF DeployInit
<1>2. WrittenRight
  BY <1>1, WrittenRightInit DEF StreamInv
<1>3. /\ uphase = "narHeader" /\ IsSeq(<<>>) /\ Len(<<>>) = 0
      /\ nars = <<>> /\ store = <<>> /\ out = <<>>
  BY <1>1, EmptyIsSeq DEF UnpackInit
<1>4. ReadInv
  BY <1>3 DEF ReadInv, NarsRead, StoreRead, Writing
<1>5. HandedRight
  BY <1>3 DEF HandedRight, NarAtHand, OutRight, FailRight
<1> QED BY <1>1, <1>2, <1>4, <1>5 DEF DeliverInv

(* A step of dnar-pack. *)
LEMMA DeliverWhilePacking ==
  ASSUME DeliverInv, PackNext, UNCHANGED unpackVars, StreamInv'
  PROVE  DeliverInv'
<1>1. ReadInv' /\ ~Writing'
  BY ReadStays DEF DeliverInv
<1>2. WrittenRight'
  BY WrittenRightKept DEF DeliverInv, StreamInv
<1>3. uphase' \notin {"write", "error"} /\ Len(out') = 0
  <2>1. Len(out') \in Nat
    BY SeqIs DEF StreamInv, HostInv, OutInv
  <2> QED BY <1>1, <2>1 DEF Writing
<1> QED BY <1>1, <1>2, <1>3, NothingHanded DEF DeliverInv

(* A step of dnar-unpack. *)
LEMMA DeliverWhileUnpacking ==
  ASSUME DeliverInv, UnpackStep(PackEnded) \/ UnpackFail, UNCHANGED packVars, StreamInv'
  PROVE  DeliverInv'
<1>1. StreamInv /\ PackInv /\ WrittenRight /\ ReadInv /\ HandedRight
  BY DEF DeliverInv, StreamInv
<1>2. WrittenRight'
  BY <1>1, WrittenRightHolds
<1>3. ASSUME ReadInv', HandedRight'
      PROVE  DeliverInv'
  BY <1>2, <1>3 DEF DeliverInv
<1>4. CASE ReadNarHeader \/ ReadNAR \/ ReadChunkHeader \/ ReadChunk \/ ReadTrailer
  <2>1. ReadInv'
    BY <1>1, <1>4, ReadMore
  <2>2. /\ uphase \in {"narHeader", "nars", "chunks"} /\ uphase' \in {"nars", "chunks", "eof"}
        /\ out' = out
    BY <1>4 DEF ReadNarHeader, ReadNAR, ReadChunkHeader, ReadChunk, ReadTrailer, Read, writeVars
  <2>3. HandedRight'
    BY <1>1, <2>2, NothingHanded DEF ReadInv
  <2> QED BY <1>3, <2>1, <2>3
<1>5. CASE ~(ReadNarHeader \/ ReadNAR \/ ReadChunkHeader \/ ReadChunk \/ ReadTrailer)
  <2>1. ReadInv' /\ UNCHANGED readVars
    BY <1>1, <1>5, ReadWhileWriting DEF UnpackStep
  <2>2. CASE BeginWrite
    <3>1. UNCHANGED <<target, nars, un, out>> /\ uphase' = "write"
      BY <2>2 DEF BeginWrite, readVars
    <3>2. UNCHANGED <<disk, new>> /\ \A j : Good(j)' <=> Good(j)
      BY <3>1, SameGood DEF packVars, inputVars
    <3>3. OutRight' /\ FailRight'
      BY <1>1, <3>1, <3>2 DEF HandedRight, OutRight, FailRight
    <3>4. HandedRight'
      BY <1>1, <2>2, <3>3, BeginWriteRight DEF HandedRight
    <3> QED BY <1>3, <2>1, <3>4
  <2>3. CASE EndWrite
    <3>1. OutRight'
      BY <1>1, <2>3, EndWriteRight
    <3>2. uphase' = "nextNar"
      BY <2>3 DEF EndWrite
    <3>3. HandedRight'
      BY <3>1, <3>2 DEF HandedRight, NarAtHand, FailRight
    <3> QED BY <1>3, <2>1, <3>3
  <2>4. CASE \/ WriteCA \/ WriteFD \/ WriteDelta \/ EndRegular
             \/ WriteDirectory \/ CopyDirectory \/ WriteSymlink
    BY <1>1, <1>3, <2>1, <2>4, WritingRight
  <2>5. CASE EndStream \/ ReadEOF(PackEnded) \/ ReadTruncated(PackEnded) \/ UnpackFail
    <3>1. UNCHANGED <<target, nars, un, out>> /\ uphase' \notin {"write", "error"}
      BY <2>5 DEF EndStream, ReadEOF, ReadTruncated, UnpackFail, readVars, writeVars
    <3> QED BY <1>1, <1>3, <2>1, <3>1, HandedHolds
  <2>6. CASE FlushFull
    <3>1. UNCHANGED <<target, nars, un, out, uphase, uf, uc, content, nodes>>
      BY <2>6 DEF FlushFull, readVars
    <3> QED BY <1>1, <1>3, <2>1, <3>1, HandedHolds
  <2> QED BY <1>5, <2>2, <2>3, <2>4, <2>5, <2>6 DEF UnpackStep
<1> QED BY <1>4, <1>5

(* A step of nix-store, or none. *)
LEMMA DeliverHolds ==
  ASSUME DeliverInv, UNCHANGED <<packVars, unpackVars>>, StreamInv'
  PROVE  DeliverInv'
<1>1. UNCHANGED <<target, readVars, uphase, un, uf, uc, content, nodes, out, nars>>
  BY DEF unpackVars, readVars, writeVars
<1>2. WrittenRight'
  BY WrittenRightHolds DEF DeliverInv, StreamInv
<1>3. ReadInv'
  <2>1. Writing' => Writing
    BY <1>1 DEF Writing
  <2> QED BY <1>1, <2>1, ReadHolds DEF DeliverInv
<1>4. HandedRight'
  BY <1>1, HandedHolds DEF DeliverInv, StreamInv
<1> QED BY <1>2, <1>3, <1>4 DEF DeliverInv

(* Every step keeps the invariant. *)
LEMMA DeliverNext == DeliverInv /\ [DeployNext]_deployVars => DeliverInv'
<1> SUFFICES ASSUME DeliverInv, [DeployNext]_deployVars PROVE DeliverInv'
  OBVIOUS
<1>1. StreamInv'
  BY DeployNextInv DEF DeliverInv
<1>2. CASE DoPack
  BY <1>1, <1>2, DeliverWhilePacking DEF DoPack
<1>3. CASE DoUnpack
  BY <1>1, <1>3, DeliverWhileUnpacking DEF DoUnpack
<1>4. CASE DoImport \/ Ended \/ UNCHANGED deployVars
  <2>1. UNCHANGED <<packVars, unpackVars>>
    BY <1>4 DEF DoImport, Ended, deployVars
  <2> QED BY <1>1, <2>1, DeliverHolds
<1> QED BY <1>2, <1>3, <1>4 DEF DeployNext

(* The files of every NAR message make its store path, what is read is     *)
(* what was sent, and what is written is what the files passed make.       *)
THEOREM DeliverInvariant == DeploySpec => []DeliverInv
BY DeliverInit, DeliverNext, PTL DEF DeploySpec

(* For every store: nothing but the three confusions, and an index or      *)
(* gcroots out of date, makes the host take another NAR for one it was     *)
(* sent, and only where it is made of what is out of date (dnar.go:130-329, *)
(* write.go:60-262).                                                       *)
THEOREM DeployOnlyConfusedDiffer == DeploySpec => []OnlyConfusedDiffer
<1>1. DeliverInv => OnlyConfusedDiffer
  <2> SUFFICES ASSUME DeliverInv, NEW i \in DOMAIN out
               PROVE  /\ out[i].path = new[i]
                      /\ \/ out[i].nodes = NarOf(disk[new[i]])
                         \/ Confused(new[i]) \/ FromChanged(nars[i])
    BY DEF OnlyConfusedDiffer
  <2>1. i \in 1..Len(out)
    BY SeqIs DEF DeliverInv, StreamInv, HostInv, OutInv
  <2> QED BY <2>1 DEF DeliverInv, StreamInv, HostInv, OutInv, HandedRight, OutRight, Good
<1> QED BY <1>1, DeliverInvariant, PTL

(* For every store: an archive that dnar-pack wrote is one that            *)
(* dnar-unpack takes, unless files are confused or have changed            *)
(* (write.go:60-262).                                                      *)
THEOREM DeployOnlyConfusedFail == DeploySpec => []OnlyConfusedFail
<1>1. DeliverInv => OnlyConfusedFail
  <2> SUFFICES ASSUME DeliverInv, uphase = "error"
               PROVE  Confused(nars[un].path) \/ FromChanged(nars[un])
    BY DEF OnlyConfusedFail
  <2>1. un <= Len(nars) /\ ~Good(un)
    BY DEF DeliverInv, HandedRight, FailRight
  <2>2. un \in 1..Len(nars)
    <3>1. Len(nars) \in Nat /\ Len(out) \in Nat /\ un = Len(out) + 1
      BY SeqIs DEF DeliverInv, StreamInv, HostInv, NarsInv, OutInv
    <3> QED BY <2>1, <3>1
  <2>3. nars[un].path = new[un]
    BY <2>2 DEF DeliverInv, StreamInv, HostInv, NarsInv
  <2> QED BY <2>1, <2>3 DEF Good
<1> QED BY <1>1, DeliverInvariant, PTL

-----------------------------------------------------------------------------
(* What is promised. *)

(* Nothing of what is to be sent is confused. *)
NothingConfused == \A i \in DOMAIN new : ~Confused(new[i])

(* The index and the gcroots are up to date. *)
NothingChanged == indexed = disk /\ \A sp \in local : target[sp] = indexed[sp]

(* The NARs written are those that were promised, and those taken are the  *)
(* first of them.                                                          *)
NarsRight == \A i \in 1..Len(out) : out[i] = [path |-> new[i], nodes |-> NarOf(disk[new[i]])]

TakenRight == \A i \in 1..Len(imported) : imported[i] = out[i]

PromiseInv == DeliverInv /\ NothingConfused /\ NothingChanged /\ NarsRight /\ TakenRight

(* Then every NAR is to be what was sent. *)
LEMMA AllGood ==
  ASSUME StreamInv, NothingConfused, NothingChanged, NEW j \in 1..Len(nars)
  PROVE  Good(j)
<1>1. j \in DOMAIN new
  <2>1. /\ Len(new) \in Nat /\ Len(nars) \in Nat /\ Len(nars) <= Len(new)
        /\ DOMAIN new = 1..Len(new)
    BY CountsAre, SeqIs DEF StreamInv, PackInv, InputsInv, HostInv, NarsInv
  <2> QED BY <2>1
<1>2. \A sp : ~Changed(sp)
  BY DEF Changed, NothingChanged
<1> QED BY <1>1, <1>2 DEF Good, FromChanged, NothingConfused

(* The host keeps what it has, and only a NAR done or taken adds one.      *)
LEMMA OnlyEndsAdd ==
  ASSUME [DeployNext]_deployVars
  PROVE  /\ target' = target
         /\ out' = out \/ (EndWrite /\ UNCHANGED packVars)
         /\ UNCHANGED imported \/ (ImportPath /\ UNCHANGED unpackVars)
<1>1. CASE DoUnpack
  <2>1. ASSUME Fail PROVE UNCHANGED <<target, out>>
    BY <2>1 DEF Fail
  <2>2. ASSUME NEW blocks, WriteBlocks(blocks) PROVE UNCHANGED <<target, out>>
    BY <2>1, <2>2 DEF WriteBlocks
  <2>3. ASSUME NEW more, WriteNodes(more) PROVE UNCHANGED <<target, out>>
    BY <2>3 DEF WriteNodes
  <2>4. CASE WriteCA \/ WriteFD \/ WriteDelta
    BY <1>1, <2>1, <2>2, <2>4 DEF WriteCA, WriteFD, WriteDelta, PatchWith, DoUnpack, importVars
  <2>5. CASE EndRegular \/ WriteDirectory \/ CopyDirectory \/ WriteSymlink
    BY <1>1, <2>1, <2>3, <2>5
       DEF EndRegular, WriteDirectory, CopyDirectory, WriteSymlink, DoUnpack, importVars
  <2>6. CASE ReadNarHeader \/ ReadNAR \/ ReadChunkHeader \/ ReadChunk \/ ReadTrailer
    BY <1>1, <2>6 DEF ReadNarHeader, ReadNAR, ReadChunkHeader, ReadChunk, ReadTrailer, Read,
                      writeVars, DoUnpack, importVars
  <2>7. CASE \/ BeginWrite \/ EndWrite \/ FlushFull \/ EndStream \/ ReadEOF(PackEnded)
             \/ ReadTruncated(PackEnded) \/ UnpackFail
    BY <1>1, <2>7 DEF BeginWrite, EndWrite, FlushFull, EndStream, ReadEOF, ReadTruncated,
                      UnpackFail, writeVars, DoUnpack, importVars
  <2> QED BY <1>1, <2>4, <2>5, <2>6, <2>7 DEF DoUnpack, UnpackStep
<1>2. CASE DoImport
  BY <1>2 DEF DoImport, ImportStep, ImportEnd, ImportTruncated, unpackVars, writeVars
<1>3. CASE DoPack \/ Ended \/ UNCHANGED deployVars
  BY <1>3 DEF DoPack, Ended, deployVars, unpackVars, writeVars, importVars
<1> QED BY <1>1, <1>2, <1>3 DEF DeployNext

(* What is to be delivered does not change.                                *)
LEMMA PromiseStays ==
  ASSUME PackInv, NothingConfused, NothingChanged, [DeployNext]_deployVars
  PROVE  NothingConfused' /\ NothingChanged' /\ UNCHANGED <<disk, new>>
<1>1. UNCHANGED inputVars
  BY DeployNextPacks, GrowInNext DEF packVars
<1>2. UNCHANGED <<disk, indexed, local, new, target>>
  BY <1>1, OnlyEndsAdd DEF inputVars
<1>3. ASSUME NEW i \in DOMAIN new
      PROVE  ~(Confused(new[i]))'
  <2>1. PICK sp : sp = new[i] /\ sp = new'[i]
    BY <1>2
  <2>2. Confused(sp)' <=> Confused(sp)
    BY <1>1, SameHost
  <2> QED BY <2>1, <2>2 DEF NothingConfused
<1> QED BY <1>2, <1>3 DEF NothingConfused, NothingChanged

(* A NAR that is done is the next one promised.                            *)
LEMMA NarsRightKept ==
  ASSUME StreamInv, StreamInv', OutRight', NothingConfused, NothingChanged, NarsRight,
         UNCHANGED packVars, EndWrite
  PROVE  NarsRight' /\ \A i \in 1..Len(out) : out'[i] = out[i]
<1>1. PICK n : /\ n = [path |-> nars[un].path, nodes |-> nodes] /\ out' = Append(out, n)
               /\ uphase = "write" /\ UNCHANGED <<target, nars>>
  BY DEF EndWrite, readVars
<1>2. IsSeq(out) /\ Len(out) \in Nat /\ un = Len(out) + 1 /\ un <= Len(nars) /\ Len(nars) \in Nat
  BY <1>1, SeqIs DEF StreamInv, HostInv, NarsInv, OutInv
<1>3. /\ Len(out') = Len(out) + 1 /\ out'[Len(out) + 1] = n
      /\ \A i \in 1..Len(out) : out'[i] = out[i]
  BY <1>1, <1>2, AppendIs, SeqIs DEF Extends
<1>4. UNCHANGED <<disk, new>> /\ \A j : Good(j)' <=> Good(j)
  BY <1>1, SameGood DEF packVars, inputVars
<1>5. PICK k : k = Len(out) + 1
  OBVIOUS
<1>6. Good(k)
  BY <1>2, <1>5, AllGood
<1>7. out'[k].nodes = NarOf(disk[new[k]]) /\ out'[k].path = new[k]
  <2>1. k \in 1..Len(out')
    BY <1>2, <1>3, <1>5
  <2>2. Good(k)'
    BY <1>4, <1>6
  <2> QED BY <1>4, <2>1, <2>2 DEF OutRight, StreamInv, HostInv, OutInv
<1>8. n = [path |-> new[k], nodes |-> NarOf(disk[new[k]])]
  <2>1. n.path = new[k] /\ n.nodes = NarOf(disk[new[k]])
    BY <1>3, <1>5, <1>7
  <2> QED BY <1>1, <2>1
<1>9. ASSUME NEW i \in 1..Len(out')
      PROVE  out'[i] = [path |-> new'[i], nodes |-> NarOf(disk'[new'[i]])]
  <2>1. CASE i = k
    BY <1>3, <1>4, <1>5, <1>8, <2>1
  <2>2. CASE i \in 1..Len(out)
    BY <1>3, <1>4, <2>2 DEF NarsRight
  <2> QED BY <1>2, <1>3, <1>5, <2>1, <2>2
<1> QED BY <1>3, <1>9 DEF NarsRight

(* A NAR that is taken is the next one written.                            *)
LEMMA TakenRightKept ==
  ASSUME StreamInv, TakenRight, UNCHANGED unpackVars, ImportPath
  PROVE  TakenRight'
<1>1. PICK n : /\ n = out[Len(imported) + 1] /\ imported' = Append(imported, n) /\ out' = out
  BY DEF ImportPath, unpackVars, writeVars
<1>2. IsSeq(imported) /\ Len(imported) \in Nat
  BY SeqIs DEF StreamInv, HostInv, ImportInv
<1>3. /\ Len(imported') = Len(imported) + 1 /\ imported'[Len(imported) + 1] = n
      /\ \A i \in 1..Len(imported) : imported'[i] = imported[i]
  BY <1>1, <1>2, AppendIs, SeqIs DEF Extends
<1>4. ASSUME NEW i \in 1..Len(imported')
      PROVE  imported'[i] = out'[i]
  <2>1. i = Len(imported) + 1 \/ i \in 1..Len(imported)
    BY <1>2, <1>3
  <2> QED BY <1>1, <1>3, <2>1 DEF TakenRight
<1> QED BY <1>4 DEF TakenRight

LEMMA PromiseNext == PromiseInv /\ [DeployNext]_deployVars => PromiseInv'
<1> SUFFICES ASSUME PromiseInv, [DeployNext]_deployVars PROVE PromiseInv'
  OBVIOUS
<1>1. DeliverInv /\ DeliverInv' /\ StreamInv /\ StreamInv' /\ PackInv /\ OutRight'
  BY DeliverNext DEF PromiseInv, DeliverInv, StreamInv, HandedRight
<1>2. NothingConfused' /\ NothingChanged' /\ UNCHANGED <<disk, new>>
  BY <1>1, PromiseStays DEF PromiseInv
<1>3. NarsRight' /\ \A i \in 1..Len(out) : out'[i] = out[i]
  <2>1. CASE out' = out
    BY <1>2, <2>1 DEF PromiseInv, NarsRight
  <2>2. CASE EndWrite /\ UNCHANGED packVars
    BY <1>1, <2>2, NarsRightKept DEF PromiseInv
  <2> QED BY <2>1, <2>2, OnlyEndsAdd
<1>4. TakenRight'
  <2>1. CASE UNCHANGED imported
    <3>1. Len(imported) \in Nat /\ Len(out) \in Nat /\ Len(imported) <= Len(out)
      BY <1>1, SeqIs DEF StreamInv, HostInv, OutInv, ImportInv
    <3>2. \A i \in 1..Len(imported) : imported'[i] = out'[i]
      BY <1>3, <2>1, <3>1 DEF PromiseInv, TakenRight
    <3> QED BY <2>1, <3>2 DEF TakenRight
  <2>2. CASE ImportPath /\ UNCHANGED unpackVars
    BY <1>1, <2>2, TakenRightKept DEF PromiseInv
  <2> QED BY <2>1, <2>2, OnlyEndsAdd
<1> QED BY <1>1, <1>2, <1>3, <1>4 DEF PromiseInv

LEMMA PromiseStarts == DeployInit /\ NothingConfused /\ NothingChanged => PromiseInv
<1> SUFFICES ASSUME DeployInit, NothingConfused, NothingChanged PROVE PromiseInv
  OBVIOUS
<1>1. DeliverInv
  BY DeliverInit
<1>2. out = <<>> /\ imported = <<>> /\ Len(<<>>) = 0
  BY EmptyIsSeq DEF DeployInit, UnpackInit
<1> QED BY <1>1, <1>2 DEF PromiseInv, NarsRight, TakenRight

(* What is taken is the next of what was promised, and all of it is taken  *)
(* when nix-store reads the end.                                           *)
LEMMA PromiseKept ==
  PromiseInv /\ [DeployNext]_deployVars => [Promise!Next]_(Promise!deliveryVars)
<1> SUFFICES ASSUME PromiseInv, [DeployNext]_deployVars
             PROVE  [Promise!Next]_(Promise!deliveryVars)
  OBVIOUS
<1>1. StreamInv /\ PackInv /\ NarsRight /\ TakenRight /\ Len(new) \in Nat
  BY CountsAre DEF PromiseInv, DeliverInv, StreamInv
<1>2. UNCHANGED <<disk, new>>
  BY <1>1, PromiseStays DEF PromiseInv
<1>3. PICK promised :
        promised = [i \in DOMAIN new |-> [path |-> new[i], nodes |-> NarOf(disk[new[i]])]]
  OBVIOUS
<1>4. /\ Len(promised) = Len(new) /\ DOMAIN new = 1..Len(new)
      /\ promised \in Seq(ToSet(promised))
      /\ \A i \in 1..Len(new) : promised[i] = [path |-> new[i], nodes |-> NarOf(disk[new[i]])]
  <2>1. DOMAIN new = 1..Len(new)
    BY <1>1 DEF PackInv, InputsInv
  <2> QED BY <1>1, <1>3, <2>1 DEF ToSet
<1>5. /\ Len(out) \in Nat /\ Len(imported) \in Nat /\ IsSeq(imported) /\ Len(nars) \in Nat
      /\ Len(out) <= Len(new) /\ Len(imported) <= Len(out)
  <2>1. Len(out) \in Nat /\ Len(imported) \in Nat /\ IsSeq(imported) /\ Len(nars) \in Nat
    BY <1>1, SeqIs DEF StreamInv, HostInv, NarsInv, OutInv, ImportInv
  <2> QED BY <1>1, <2>1 DEF StreamInv, HostInv, NarsInv, OutInv, ImportInv
<1>6. /\ \A i \in 1..Len(out) : out[i] = promised[i]
      /\ \A i \in 1..Len(imported) : imported[i] = promised[i]
  <2>1. ASSUME NEW i \in 1..Len(out)
        PROVE  out[i] = promised[i]
    <3>1. i \in 1..Len(new)
      BY <1>1, <1>5
    <3>2. out[i] = [path |-> new[i], nodes |-> NarOf(disk[new[i]])]
      BY <1>1 DEF NarsRight
    <3> QED BY <1>4, <3>1, <3>2
  <2>2. ASSUME NEW i \in 1..Len(imported)
        PROVE  imported[i] = promised[i]
    <3>1. i \in 1..Len(out)
      BY <1>5
    <3> QED BY <1>1, <2>1, <3>1 DEF TakenRight
  <2> QED BY <2>1, <2>2
<1>7. CASE ImportPath
  <2>1. /\ import = "running" /\ UNCHANGED import /\ Len(imported) < Len(out)
        /\ imported' = Append(imported, out[Len(imported) + 1])
    BY <1>7 DEF ImportPath
  <2>2. out[Len(imported) + 1] = promised[Len(imported) + 1]
    <3>1. Len(imported) + 1 \in 1..Len(out)
      BY <1>5, <2>1
    <3> QED BY <1>6, <3>1
  <2>3. Len(imported) < Len(promised)
    BY <1>4, <1>5, <2>1
  <2>4. Promise!Deliver
    BY <1>2, <1>3, <2>1, <2>2, <2>3 DEF Promise!Deliver
  <2> QED BY <2>4 DEF Promise!Next
<1>8. CASE ImportEnd
  <2>1. /\ import = "running" /\ import' = "complete" /\ UNCHANGED imported
        /\ Len(imported) = Len(out) /\ Len(imported) < flushed
    BY <1>8 DEF ImportEnd
  <2>2. Len(out) = Len(new)
    <3>1. flushed = Len(out) + 1
      BY <1>1, <1>5, <2>1 DEF StreamInv, HostInv, OutInv
    <3>2. un = Len(out) + 1 /\ un = Len(nars) + 1 /\ Len(nars) = Len(new)
      BY <1>1, <3>1 DEF StreamInv, HostInv, NarsInv, OutInv
    <3> QED BY <1>1, <1>5, <3>2
  <2>3. imported = promised
    <3>1. imported \in Seq(ToSet(imported)) /\ Len(imported) = Len(promised)
      BY <1>4, <1>5, <2>1, <2>2 DEF IsSeq
    <3> QED BY <1>4, <1>6, <3>1
  <2>4. Promise!Complete
    BY <1>2, <1>3, <2>1, <2>3 DEF Promise!Complete
  <2> QED BY <2>4 DEF Promise!Next
<1>9. CASE ImportTruncated
  <2>1. Promise!Stop
    BY <1>2, <1>9 DEF ImportTruncated, Promise!Stop
  <2> QED BY <2>1 DEF Promise!Next
<1>10. CASE UNCHANGED importVars
  BY <1>2, <1>10 DEF importVars, Promise!deliveryVars
<1>11. ImportPath \/ ImportEnd \/ ImportTruncated \/ UNCHANGED importVars
  BY DEF DeployNext, DoPack, DoUnpack, DoImport, ImportStep, Ended, deployVars
<1> QED BY <1>7, <1>8, <1>9, <1>10, <1>11

(* Where nothing is confused and the index and the gcroots are up to date, *)
(* the host is handed exactly what was promised, in order, and is told     *)
(* that it has all only when it does: for every store, every way files     *)
(* match and every failure (nix-store-export.go:49-121).                   *)
THEOREM DeployDelivers == DeploySpec /\ NothingConfused /\ NothingChanged => Delivers
<1>1. DeployInit /\ NothingConfused /\ NothingChanged => PromiseInv
  BY PromiseStarts
<1>2. DeployInit => Promise!Init
  BY DEF DeployInit, Promise!Init
<1> QED BY <1>1, <1>2, PromiseNext, PromiseKept, PTL DEF DeploySpec, Delivers, Promise!Spec

=============================================================================
