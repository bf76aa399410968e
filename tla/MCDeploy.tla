------------------------------ MODULE MCDeploy ------------------------------
(***************************************************************************)
(* Small stores for Deploy: two paths the host has, one or two to send.    *)
(***************************************************************************)
EXTENDS Deploy

CONSTANTS L1, L2, N1, N2, bin, lib, lib64, B1, B2, B3, x, y

MCNamePrefix == {<<lib, lib64>>}

File(path, blocks) ==
  [path |-> path, type |-> "regular", content |-> blocks, exec |-> FALSE, target |-> Nil]
Program(path, blocks) ==
  [path |-> path, type |-> "regular", content |-> blocks, exec |-> TRUE, target |-> Nil]
Dir(path) ==
  [path |-> path, type |-> "directory", content |-> <<>>, exec |-> TRUE, target |-> Nil]
SymLink(path, to) ==
  [path |-> path, type |-> "symlink", content |-> <<>>, exec |-> TRUE, target |-> to]

Root == Dir(<<>>)
Single(blocks) == <<File(<<>>, blocks)>>

(* Stores of which the index, the host and the gcroots tell the truth. *)
Stores(l1, l2, n1, n2, list) ==
  LET trees == L1 :> l1 @@ L2 :> l2 @@ N1 :> n1 @@ N2 :> n2 IN
  [disk |-> trees, indexed |-> trees, local |-> {L1, L2}, new |-> list,
   host |-> [trees EXCEPT ![N1] = <<>>, ![N2] = <<>>]]

-----------------------------------------------------------------------------
(* Stores in which nothing is confused. *)

(* Files that share chunks, with two files to take a chunk from and to     *)
(* compute deltas against, one of them too large for the small file; the   *)
(* two new paths share a chunk the host misses.                            *)
SharedChunks ==
  Stores(Single(<<B1, B2, B1>>), <<Root, File(<<bin>>, <<B1>>), SymLink(<<lib>>, x)>>,
         <<Root, File(<<bin>>, <<B1, B3>>)>>, Single(<<B3, B2>>), <<N1, N2>>)

(* A directory matched in full with what follows it, a file matched in     *)
(* full, and an empty file.                                                *)
SharedDirectory ==
  Stores(<<Root, Dir(<<bin>>), Program(<<bin, lib>>, <<B1>>), SymLink(<<bin, lib64>>, x)>>,
         Single(<<B2>>),
         <<Root, Dir(<<bin>>), Program(<<bin, lib>>, <<B1>>), SymLink(<<bin, lib64>>, x),
           Program(<<lib>>, <<B2>>), File(<<lib64>>, <<>>)>>,
         <<Root, Dir(<<lib>>), Dir(<<lib, bin>>), File(<<lib, bin, lib>>, <<B3, B3>>)>>,
         <<N1, N2>>)

(* Two files share chunks with the new one, and one of them more. *)
TwoReferences ==
  Stores(Single(<<B1>>), Single(<<B1, B2>>), Single(<<B2, B1, B3, B1>>), Single(<<B3>>), <<N1>>)

(* A path was collected after it was indexed: it cannot be sent. *)
CollectedSince == [SharedChunks EXCEPT !.disk[N1] = <<>>]

Clear == {SharedChunks, SharedDirectory, TwoReferences, CollectedSince}

-----------------------------------------------------------------------------
(* Stores in which something is confused. *)

(* lib is matched in full, and lib64 follows it. *)
Sibling ==
  Stores(<<Root, Dir(<<lib>>), File(<<lib, bin>>, <<B1>>)>>, Single(<<B2>>),
         <<Root, Dir(<<lib>>), File(<<lib, bin>>, <<B1>>), File(<<lib64>>, <<B3>>)>>,
         Single(<<B2>>), <<N1, N2>>)

(* The two bin differ in the target of a link, or in an executable bit. *)
OtherLink ==
  Stores(<<Root, Dir(<<bin>>), SymLink(<<bin, lib>>, x)>>, Single(<<B2>>),
         <<Root, Dir(<<bin>>), SymLink(<<bin, lib>>, y), File(<<lib>>, <<B2>>)>>,
         Single(<<B3>>), <<N1>>)

OtherMode ==
  Stores(<<Root, Dir(<<bin>>), File(<<bin, lib>>, <<B1>>)>>, Single(<<B2>>),
         <<Root, Dir(<<bin>>), Program(<<bin, lib>>, <<B1>>), File(<<lib>>, <<B2>>)>>,
         Single(<<B3>>), <<N1>>)

(* The host has an empty directory, or an empty file, and misses the other. *)
EmptyFile ==
  Stores(<<Root, Dir(<<bin>>)>>, Single(<<B2>>),
         <<Root, File(<<lib>>, <<>>), File(<<lib64>>, <<B2>>)>>, Single(<<B1>>), <<N1, N2>>)

EmptyDirectory ==
  Stores(<<Root, File(<<bin>>, <<>>)>>, Single(<<B2>>),
         <<Root, Dir(<<lib>>), File(<<lib64>>, <<B2>>)>>, Single(<<B1>>), <<N1, N2>>)

Muddled == {Sibling, OtherLink, OtherMode, EmptyFile, EmptyDirectory}

Everything == Clear \cup Muddled

OnlySibling == {Sibling}
OnlyOtherDirectory == {OtherLink, OtherMode}
OnlyEmpty == {EmptyFile, EmptyDirectory}
OnlyTwoReferences == {TwoReferences}

-----------------------------------------------------------------------------
(* Every combination of small stores. *)

Blocks(set, n) == UNION {[1..k -> set] : k \in 0..n}

(* Paths that are a file each: how the files of the host and the one to    *)
(* send share chunks, the second path sending what the first missed.       *)
EveryFile ==
  {Stores(Single(p), Single(q), Single(r), Single(<<B3>>), <<N1, N2>>) :
     p \in Blocks({B1, B2}, 2), q \in Blocks({B1}, 1), r \in Blocks({B1, B2, B3}, 3)}

(* Directories of up to two files, lib and lib64, of every kind. *)
EntriesFor(name) ==
  { <<>>, <<File(<<name>>, <<>>)>>, <<Program(<<name>>, <<B1>>)>>, <<Dir(<<name>>)>>,
    <<Dir(<<name>>), File(<<name, bin>>, <<B1>>)>>,
    <<Dir(<<name>>), Program(<<name, bin>>, <<B1>>)>>,
    <<Dir(<<name>>), SymLink(<<name, bin>>, x)>>,
    <<Dir(<<name>>), SymLink(<<name, bin>>, y)>> }

EveryDirectory ==
  {Stores(<<Root>> \o p \o q, Single(<<B2>>), <<Root>> \o r \o s, Single(<<B3>>), <<N1>>) :
     p \in EntriesFor(lib), q \in { <<>>, <<Dir(<<lib64>>)>> },
     r \in EntriesFor(lib), s \in EntriesFor(lib64)}

(* Paths that are a file each, where one the host has was another file     *)
(* when it was indexed, or is one on the host, or is gone from one of the  *)
(* stores, or where the first one to send was another file.                *)
Changes == { <<>>, Single(<<B1>>), Single(<<B3, B2>>), Single(<<B1, B2, B1>>), <<Root>> }

Since(w, sp, tree) == [w EXCEPT !.disk[sp] = tree]
Elsewhere(w, sp, tree) == [w EXCEPT !.host[sp] = tree]

OutOfDate(w) ==
  {Since(w, sp, tree) : sp \in {L1, N1}, tree \in Changes}
    \cup {Elsewhere(w, L1, tree) : tree \in Changes}

EveryOutOfDate ==
  UNION {OutOfDate(Stores(Single(p), Single(q), Single(<<B1, B3>>), Single(r), <<N1, N2>>)) :
           p \in {<<B1>>, <<B1, B2>>, <<B2, B2, B1>>, <<B1, B3>>}, q \in Blocks({B1}, 1),
           r \in {<<B3>>, <<B2, B3>>}}
    \cup OutOfDate(SharedDirectory)

Every == EveryFile \cup EveryDirectory \cup EveryOutOfDate

-----------------------------------------------------------------------------
(* A path is named for how it is built and not for what the build made:    *)
(* the host may have another build of one that dnar-pack has too.          *)
OnlyOtherBuild == {Elsewhere(SharedChunks, L1, Single(<<B2, B2, B1>>))}

=============================================================================
