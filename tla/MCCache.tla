------------------------------ MODULE MCCache ------------------------------
(***************************************************************************)
(* Two store paths, and archives that bring the first one: two builds of   *)
(* it, of different length, references and hash, one whose NAR is not what *)
(* its hash says, and one that misses a payload.                           *)
(***************************************************************************)
EXTENDS BinaryCache

CONSTANTS p1, p2, head, b1, b2

NarOf(path, pieces, hash, refs) ==
  [path |-> path, pieces |-> pieces, hash |-> hash, refs |-> refs]

(* Both paths, the second one with the payload of the first again and an   *)
(* empty payload between them.                                             *)
Both ==
  [chunks |-> <<<<b1, b2>>, <<>>, <<b2>>>>,
   nars |-> <<NarOf(p1, <<Own(<<head>>), Payload(1), Payload(2)>>, <<head, b1, b2>>, {p1}),
              NarOf(p2, <<Own(<<head>>), Payload(3), Payload(1)>>, <<head, b2, b1, b2>>,
                    {p1, p2})>>]

(* Another build of the first, shorter and without references. *)
Rebuilt ==
  [chunks |-> <<<<b2>>>>,
   nars |-> <<NarOf(p1, <<Own(<<head>>), Payload(1)>>, <<head, b2>>, {})>>]

(* The second path again, out of the inputs alone, and the first one: not  *)
(* what its hash says.                                                     *)
Misdescribed ==
  [chunks |-> <<>>,
   nars |-> <<NarOf(p2, <<Own(<<head, b1>>)>>, <<head, b1>>, {p1}),
              NarOf(p1, <<Own(<<head>>), Own(<<b1>>)>>, <<head, b2>>, {})>>]

(* A payload that is not there. *)
Incomplete ==
  [chunks |-> <<<<b1, b2>>>>,
   nars |-> <<NarOf(p1, <<Own(<<head>>), Payload(2)>>, <<head, b2>>, {})>>]

MCArchive == {Both, Rebuilt, Misdescribed, Incomplete}

=============================================================================
