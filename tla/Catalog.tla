------------------------------- MODULE Catalog -------------------------------
(***************************************************************************)
(* What the index of store paths is, whoever fills it: a map that grows by *)
(* sets of store paths.  A set is added in one step, with what it refers   *)
(* to; what a path has in the index never changes again.                   *)
(***************************************************************************)
EXTENDS FiniteSets

CONSTANTS
  StorePath,
  Refs,           \* the references of each store path
  Build           \* what building a store path may result in

VARIABLE catalog  \* what each path indexed has there

Init == DOMAIN catalog = {}

Closed(set) == \A p \in set : Refs[p] \subseteq set

Add(set) ==
  /\ set # {} /\ set \cap DOMAIN catalog = {}
  /\ Closed(DOMAIN catalog \cup set)
  /\ DOMAIN catalog' = DOMAIN catalog \cup set
  /\ \A p \in DOMAIN catalog : catalog'[p] = catalog[p]
  /\ \A p \in set : catalog'[p] \in {p} \X Build

Next == \E set \in SUBSET StorePath : Add(set)

Spec == Init /\ [][Next]_catalog

=============================================================================
