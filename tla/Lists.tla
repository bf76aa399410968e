-------------------------------- MODULE Lists --------------------------------
(***************************************************************************)
(* Walking a list and keeping some of it.  SelectSeq does the same; this   *)
(* is a recursive function, which can be reasoned about.                   *)
(***************************************************************************)
EXTENDS Naturals, Sequences

(* The elements of s that are in set, in their order in s. *)
Kept(s, set) ==
  LET kept[i \in 0..Len(s)] ==
        IF i = 0 THEN <<>>
        ELSE IF s[i] \in set THEN Append(kept[i - 1], s[i]) ELSE kept[i - 1]
  IN  kept[Len(s)]

=============================================================================
