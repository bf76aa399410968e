------------------------------ MODULE Delivery ------------------------------
(***************************************************************************)
(* What a deployment with DeltaNAR promises, whatever it is made of: the   *)
(* host is handed the store paths it was promised, each exactly as it is   *)
(* at its origin, in the order promised, and is told that it has them all  *)
(* only when it does.  It may stop short at any time.                      *)
(***************************************************************************)
EXTENDS Naturals, Sequences

VARIABLES
  promised,   \* the store paths to deliver, each with the nodes of its NAR
  delivered,  \* those delivered so far
  status      \* "running", "complete" or "stopped"

deliveryVars == <<promised, delivered, status>>

Init == delivered = <<>> /\ status = "running"

Deliver ==
  /\ status = "running" /\ Len(delivered) < Len(promised)
  /\ delivered' = Append(delivered, promised[Len(delivered) + 1])
  /\ UNCHANGED <<promised, status>>

Complete ==
  /\ status = "running" /\ delivered = promised
  /\ status' = "complete"
  /\ UNCHANGED <<promised, delivered>>

Stop ==
  /\ status = "running"
  /\ status' = "stopped"
  /\ UNCHANGED <<promised, delivered>>

Next == Deliver \/ Complete \/ Stop

Spec == Init /\ [][Next]_deliveryVars

=============================================================================
