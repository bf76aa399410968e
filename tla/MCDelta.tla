------------------------------ MODULE MCDelta -------------------------------
(***************************************************************************)
(* Diff and Patch on every short reference and chunk over two bytes, with  *)
(* an index in which buckets collide and positions overflow.               *)
(***************************************************************************)
EXTENDS Delta

CONSTANTS a, b, MaxBase, MaxTarget

Bytes(n) == UNION {[1..k -> Byte] : k \in 0..n}

MCBase == Bytes(MaxBase)
MCTarget == Bytes(MaxTarget)

(* The other host has the reference, nothing, or a reversed one. *)
MCPeer == {<<>>, <<a, b>>, <<b, a, b, a>>}

(* The bucket is the last byte's: different bytes before it collide. *)
LastByte(bytes) == bytes[Len(bytes)]

=============================================================================
