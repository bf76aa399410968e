----------------------------- MODULE MCWorkers -----------------------------
(***************************************************************************)
(* Three files, each with any references out of two and any chunks that    *)
(* the host misses out of two or, for the second, three.                   *)
(***************************************************************************)
EXTENDS DeltaWorkers

MCPlan ==
  {<<[refs |-> r1, missing |-> {1, 2}], [refs |-> r2, missing |-> {1, 2, 4}],
     [refs |-> r3, missing |-> m]>> :
     r1, r2, r3 \in SUBSET File, m \in {{}, {2}}}

=============================================================================
