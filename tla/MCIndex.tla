------------------------------ MODULE MCIndex ------------------------------
(***************************************************************************)
(* Two hosts of which one has an application, a library both applications  *)
(* refer to, and a third host with something that is no gcroot.            *)
(***************************************************************************)
EXTENDS Index

CONSTANTS q1, q2, lib, old, app, h1, h2, h3, one, two

MCRefs == [p \in StorePath |-> CASE p = lib -> {} [] p = old -> {lib, old} [] p = app -> {lib}]

MCInOrder(set) == SelectSeq(<<lib, old, app>>, LAMBDA p : p \in set)

Link(p) == [symlink |-> TRUE, target |-> p]

MCGCRoots == [h \in {h1, h2, h3} |->
  CASE h = h1 -> {Link(old)}
    [] h = h2 -> {}
    [] h = h3 -> {Link(lib), [symlink |-> FALSE, target |-> app]}]

MCJob == {[host |-> h1, path |-> app], [host |-> h2, path |-> app], [host |-> h2, path |-> old],
          [host |-> h3, path |-> lib]}

(* Every store path has had one build so far. *)
MCIndexInit == IndexInit /\ store = [p \in StorePath |-> one]

MCIndexSpec == MCIndexInit /\ [][IndexNext]_indexVars /\ \A q \in Packer : WF_indexVars(PackerStep(q))

=============================================================================
