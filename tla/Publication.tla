----------------------------- MODULE Publication -----------------------------
(***************************************************************************)
(* What a binary cache offers to whoever copies from it, whatever its      *)
(* files hold: for a store path nothing, or one NAR that some archive      *)
(* brought, and never the one of another archive in its place before it    *)
(* has been withdrawn.                                                     *)
(***************************************************************************)
EXTENDS FiniteSets

CONSTANTS
  Path,         \* store paths
  Sent          \* what archives bring: [path, content, refs] records

VARIABLE
  offered       \* for each path the offer it has, if it has one

(* An offer of which the references are not told yet. *)
Untold(offer) == [offer EXCEPT !.refs = {}]

Init == offered = [p \in Path |-> {}]

Publish(p) ==
  /\ offered[p] = {}
  /\ \E offer \in Sent :
       /\ offer.path = p
       /\ \/ offered' = [offered EXCEPT ![p] = {offer}]
          \/ offered' = [offered EXCEPT ![p] = {Untold(offer)}]

TellReferences(p) ==
  \E offer \in Sent :
    /\ offered[p] = {Untold(offer)}
    /\ offered' = [offered EXCEPT ![p] = {offer}]

Withdraw(p) == offered' = [offered EXCEPT ![p] = {}]

Next == \E p \in Path : Publish(p) \/ TellReferences(p) \/ Withdraw(p)

Spec == Init /\ [][Next]_offered

=============================================================================
