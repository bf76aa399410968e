----------------------------- MODULE DeltaProofs -----------------------------
(***************************************************************************)
(* The round trip of a chunk through Diff and Patch, for every reference,  *)
(* chunk, hash function and width of the index.                            *)
(*                                                                         *)
(* The history variable reach says how much of the chunk the operations    *)
(* cover; the invariant says of each operation that it makes the part of   *)
(* the chunk between its reach and the one before, so that what Patch has  *)
(* put together is the chunk up to the reach of the last one applied.      *)
(***************************************************************************)
EXTENDS Delta, TLAPS

OpSet == [op: {"insert", "copy"}, bytes: Seq(Byte), offset: Int, length: Int]

Upto(r, n) == IF n = 0 THEN 0 ELSE r[n]

(* The operation x makes what the chunk has between from and to. *)
Makes(x, from, to) ==
  /\ from < to /\ to <= Len(target)
  /\ \/ x.op = "insert" /\ x.bytes = Slice(target, from, to)
     \/ /\ x.op = "copy" /\ x.length = to - from /\ x.length >= MinMatch
        /\ x.offset \in Nat /\ x.offset + x.length <= Len(base)
        /\ \A k \in 1..to - from : base[x.offset + k] = target[from + k]

GoodOps(o, r) ==
  /\ o \in Seq(OpSet) /\ r \in Seq(Nat) /\ Len(o) = Len(r)
  /\ \A n \in 1..Len(o) : Makes(o[n], Upto(r, n - 1), Upto(r, n))

Types ==
  /\ base \in Seq(Byte) /\ target \in Seq(Byte) /\ peer \in Seq(Byte)
  /\ stage \in {"index", "scan", "forward", "backward", "patch", "done", "error"}
  /\ i \in Nat /\ litStart \in Nat
  /\ IF stage = "index" THEN i <= Len(base) /\ litStart = 0
                        ELSE i <= Len(target) /\ litStart <= i
  /\ \A h \in DOMAIN head : head[h] \in Int
  /\ bpos \in Nat /\ tpos \in Nat /\ length \in Nat
  /\ out \in Seq(Byte) /\ applied \in 0..Len(ops)

DiffInv ==
  /\ GoodOps(ops, reach)
  /\ Upto(reach, Len(reach)) =
       IF stage \in {"index", "scan", "forward", "backward"} THEN litStart ELSE Len(target)

MatchInv ==
  /\ stage \in {"forward", "backward"} =>
       /\ litStart <= tpos /\ tpos + length <= Len(target) /\ tpos <= i
       /\ length > 0 => bpos + length <= Len(base)
       /\ \A k \in 1..length : base[bpos + k] = target[tpos + k]
  /\ stage = "forward" => tpos = i /\ i < Len(target)
  /\ stage = "backward" => length >= MinMatch /\ i <= tpos + length

PatchInv ==
  /\ stage \in {"index", "scan", "forward", "backward"} => out = <<>> /\ applied = 0
  /\ Len(out) <= Len(target)
  /\ stage = "done" => Len(out) = Len(target)
  /\ peer = base =>
       /\ stage # "error"
       /\ Len(out) = Upto(reach, applied)
       /\ \A k \in 1..Len(out) : out[k] = target[k]

DeltaInv == Types /\ DiffInv /\ MatchInv /\ PatchInv

-----------------------------------------------------------------------------
(* The elements of a slice. *)
LEMMA SliceIs ==
  ASSUME NEW S, NEW s \in Seq(S), NEW from \in Nat, NEW to \in Nat,
         from <= to, to <= Len(s)
  PROVE  /\ Slice(s, from, to) \in Seq(S)
         /\ Len(Slice(s, from, to)) = to - from
         /\ \A k \in 1..to - from : Slice(s, from, to)[k] = s[from + k]
BY DEF Slice

(* The elements of a sequence with one more. *)
LEMMA AppendIs ==
  ASSUME NEW S, NEW s \in Seq(S), NEW e \in S
  PROVE  /\ Append(s, e) \in Seq(S)
         /\ Len(Append(s, e)) = Len(s) + 1
         /\ Append(s, e)[Len(s) + 1] = e
         /\ \A n \in 1..Len(s) : Append(s, e)[n] = s[n]
OBVIOUS

(* Operations that make the chunk up to some point, and one more from      *)
(* there on.                                                               *)
LEMMA AppendOp ==
  ASSUME NEW o, NEW r, GoodOps(o, r), target \in Seq(Byte),
         NEW x \in OpSet, NEW to \in Nat, to <= Len(target),
         Makes(x, Upto(r, Len(r)), to)
  PROVE  /\ GoodOps(Append(o, x), Append(r, to))
         /\ Upto(Append(r, to), Len(Append(r, to))) = to
         /\ \A n \in 0..Len(r) : Upto(Append(r, to), n) = Upto(r, n)
<1>1. /\ o \in Seq(OpSet) /\ r \in Seq(Nat) /\ Len(o) = Len(r)
      /\ \A n \in 1..Len(o) : Makes(o[n], Upto(r, n - 1), Upto(r, n))
  BY DEF GoodOps
<1>2. /\ Append(o, x) \in Seq(OpSet) /\ Append(r, to) \in Seq(Nat)
      /\ Len(Append(o, x)) = Len(o) + 1 /\ Len(Append(r, to)) = Len(o) + 1
      /\ Append(r, to)[Len(o) + 1] = to /\ Append(o, x)[Len(o) + 1] = x
      /\ \A n \in 1..Len(o) : Append(o, x)[n] = o[n] /\ Append(r, to)[n] = r[n]
  <2>1. /\ Append(o, x) \in Seq(OpSet) /\ Len(Append(o, x)) = Len(o) + 1
        /\ Append(o, x)[Len(o) + 1] = x /\ \A n \in 1..Len(o) : Append(o, x)[n] = o[n]
    BY <1>1, AppendIs
  <2>2. /\ Append(r, to) \in Seq(Nat) /\ Len(Append(r, to)) = Len(r) + 1
        /\ Append(r, to)[Len(r) + 1] = to /\ \A n \in 1..Len(r) : Append(r, to)[n] = r[n]
    BY <1>1, AppendIs
  <2> QED BY <1>1, <2>1, <2>2
<1>3. \A n \in 0..Len(r) : Upto(Append(r, to), n) = Upto(r, n)
  BY <1>1, <1>2 DEF Upto
<1>4. Upto(Append(r, to), Len(o) + 1) = to
  BY <1>1, <1>2 DEF Upto
<1>5. ASSUME NEW n \in 1..Len(o) + 1
      PROVE  Makes(Append(o, x)[n], Upto(Append(r, to), n - 1), Upto(Append(r, to), n))
  <2>1. CASE n = Len(o) + 1
    <3>1. Upto(Append(r, to), n - 1) = Upto(r, Len(r))
      BY <1>1, <1>3, <2>1
    <3> QED BY <1>2, <1>4, <2>1, <3>1
  <2>2. CASE n # Len(o) + 1
    <3>1. n \in 1..Len(o) /\ n \in 0..Len(r) /\ n - 1 \in 0..Len(r)
      BY <1>1, <2>2
    <3> QED BY <1>1, <1>2, <1>3, <3>1
  <2> QED BY <2>1, <2>2
<1> QED BY <1>1, <1>2, <1>3, <1>4, <1>5 DEF GoodOps

(* What emitLiteral adds makes the chunk up to where it is called for. *)
LEMMA LiteralIs ==
  ASSUME GoodOps(ops, reach), target \in Seq(Byte), litStart \in Nat,
         Upto(reach, Len(reach)) = litStart,
         NEW end \in Nat, litStart <= end, end <= Len(target)
  PROVE  /\ GoodOps(WithLiteral(end).ops, WithLiteral(end).reach)
         /\ Upto(WithLiteral(end).reach, Len(WithLiteral(end).reach)) = end
<1>1. CASE end <= litStart
  BY <1>1 DEF WithLiteral
<1>2. CASE ~(end <= litStart)
  <2> DEFINE x == Insert(Slice(target, litStart, end))
  <2>1. x \in OpSet
    BY SliceIs, <1>2 DEF Insert, OpSet
  <2>2. Makes(x, Upto(reach, Len(reach)), end)
    BY <1>2 DEF Makes, Insert
  <2>3. WithLiteral(end) = [ops |-> Append(ops, x), reach |-> Append(reach, end)]
    BY <1>2 DEF WithLiteral
  <2> QED BY <2>1, <2>2, <2>3, AppendOp
<1> QED BY <1>1, <1>2

-----------------------------------------------------------------------------
(* At the start no operation is there and the match is empty. *)
LEMMA InitInv == DeltaInit => DeltaInv
<1> SUFFICES ASSUME DeltaInit PROVE DeltaInv
  OBVIOUS
<1>1. base \in Seq(Byte) /\ target \in Seq(Byte) /\ peer \in Seq(Byte)
  BY DeltaAssumption DEF DeltaInit
<1>2. Types
  BY <1>1 DEF DeltaInit, Types
<1>3. DiffInv
  BY <1>1 DEF DeltaInit, DiffInv, GoodOps, Upto
<1>4. MatchInv /\ PatchInv
  BY <1>1 DEF DeltaInit, MatchInv, PatchInv, Upto
<1> QED BY <1>2, <1>3, <1>4 DEF DeltaInv

(* What the operations make does not change while a chunk is diffed. *)
LEMMA SameOps ==
  ASSUME GoodOps(ops, reach), UNCHANGED <<inputs, ops, reach>>
  PROVE  GoodOps(ops, reach)' /\ Upto(reach, Len(reach))' = Upto(reach, Len(reach))
BY DEF GoodOps, Makes, Upto, inputs, Slice

(* A position stored is some number, whatever it has lost. *)
LEMMA Int32IsInt == ASSUME NEW n \in Int PROVE Int32(n) \in Int
<1>1. 2 ^ Bits \in Nat \ {0} /\ 2 ^ (Bits - 1) \in Int
  BY DeltaAssumption
<1> QED BY <1>1 DEF Int32

(* NewIndex. *)
LEMMA IndexInv == DeltaInv /\ (IndexPosition \/ EndIndex) => DeltaInv'
<1> SUFFICES ASSUME DeltaInv, IndexPosition \/ EndIndex PROVE DeltaInv'
  OBVIOUS
<1>0. Types /\ DiffInv /\ MatchInv /\ PatchInv /\ HashLen \in Nat \ {0}
  BY DeltaAssumption DEF DeltaInv
<1>1. /\ UNCHANGED <<base, target, peer, ops, reach, out, applied, litStart>>
      /\ UNCHANGED <<bpos, tpos, length>>
      /\ stage = "index" /\ stage' \in {"index", "scan"}
  BY DEF IndexPosition, EndIndex, inputs, patchVars, matchVars
<1>2. \A h \in DOMAIN head' : head'[h] \in Int
  <2>1. CASE IndexPosition
    <3> DEFINE hash == Hash(Slice(base, i, i + HashLen))
    <3>1. head' = [h \in DOMAIN head \cup {hash} |->
                     IF h = hash THEN Int32(i + 1) ELSE head[h]]
      BY <2>1 DEF IndexPosition
    <3>2. Int32(i + 1) \in Int /\ \A h \in DOMAIN head : head[h] \in Int
      BY <1>0, Int32IsInt DEF Types
    <3> HIDE DEF hash
    <3> QED BY <3>1, <3>2
  <2>2. CASE EndIndex
    BY <1>0, <2>2 DEF Types, EndIndex
  <2> QED BY <2>1, <2>2
<1>3. /\ stage' = "index" => i' \in Nat /\ i' <= Len(base)
      /\ stage' = "scan" => i' = 0
  BY <1>0, <1>1 DEF Types, IndexPosition, EndIndex
<1>4. Types'
  BY <1>0, <1>1, <1>2, <1>3 DEF Types
<1>5. DiffInv'
  BY <1>0, <1>1, SameOps DEF DiffInv, inputs
<1>6. MatchInv' /\ PatchInv'
  BY <1>0, <1>1 DEF MatchInv, PatchInv, Upto
<1> QED BY <1>4, <1>5, <1>6 DEF DeltaInv

(* A match starts empty at the candidate, or the scan moves on. *)
LEMMA ScanInv == DeltaInv /\ Scan => DeltaInv'
<1> SUFFICES ASSUME DeltaInv, Scan PROVE DeltaInv'
  OBVIOUS
<1>0. Types /\ DiffInv /\ MatchInv /\ PatchInv /\ HashLen \in Nat \ {0}
  BY DeltaAssumption DEF DeltaInv
<1>1. UNCHANGED <<base, target, peer, head, ops, reach, out, applied, litStart>>
  BY DEF Scan, inputs, patchVars
<1>2. Candidate \in Int
  BY <1>0 DEF Candidate, Types
<1>3. /\ i + HashLen <= Len(target) /\ stage = "scan"
      /\ \/ /\ stage' = "forward" /\ bpos' \in Nat /\ tpos' = i /\ length' = 0 /\ i' = i
         \/ /\ stage' = "scan" /\ i' = i + 1
            /\ UNCHANGED <<bpos, tpos, length>>
  BY <1>2 DEF Scan, matchVars
<1>4. Types'
  <2>1. i' \in Nat /\ i' <= Len(target) /\ litStart <= i'
    BY <1>0, <1>3 DEF Types
  <2>2. bpos' \in Nat /\ tpos' \in Nat /\ length' \in Nat
    BY <1>0, <1>3 DEF Types
  <2> QED BY <1>0, <1>1, <1>3, <2>1, <2>2 DEF Types
<1>5. DiffInv'
  BY <1>0, <1>1, <1>3, SameOps DEF DiffInv, inputs
<1>6. MatchInv'
  <2>1. CASE stage' = "scan"
    BY <2>1 DEF MatchInv
  <2>2. CASE stage' = "forward"
    <3>1. bpos' \in Nat /\ tpos' = i /\ length' = 0 /\ i' = i
      BY <1>3, <2>2
    <3>2. \A k \in 1..length' : base'[bpos' + k] = target'[tpos' + k]
      BY <3>1
    <3>3. /\ litStart' <= tpos' /\ tpos' + length' <= Len(target') /\ tpos' = i'
          /\ tpos' <= i' /\ i' < Len(target') /\ ~(length' > 0)
      BY <1>0, <1>1, <1>3, <3>1 DEF Types
    <3> QED BY <2>2, <3>2, <3>3 DEF MatchInv
  <2> QED BY <1>3, <2>1, <2>2
<1>7. PatchInv'
  BY <1>0, <1>1, <1>3 DEF PatchInv, Upto
<1> QED BY <1>4, <1>5, <1>6, <1>7 DEF DeltaInv

(* matchLen: a match grows forward, or it ends and is long enough or not. *)
LEMMA ForwardInv == DeltaInv /\ (ExtendForward \/ EndForward) => DeltaInv'
<1> SUFFICES ASSUME DeltaInv, ExtendForward \/ EndForward PROVE DeltaInv'
  OBVIOUS
<1> USE DeltaAssumption DEF DeltaInv, Types
<1>1. UNCHANGED <<base, target, peer, head, ops, reach, out, applied, litStart, bpos, tpos>>
  BY DEF ExtendForward, EndForward, inputs, patchVars, diffVars, matchVars
<1>2. Types'
  <2>1. i \in Nat /\ i < Len(target)
    BY DEF ExtendForward, EndForward, MatchInv
  <2>2. CASE ExtendForward
    BY <1>1, <2>1, <2>2 DEF ExtendForward, diffVars
  <2>3. CASE EndForward
    BY <1>1, <2>1, <2>3 DEF EndForward, matchVars
  <2> QED BY <2>2, <2>3
<1>3. DiffInv'
  BY <1>1, SameOps DEF DiffInv, ExtendForward, EndForward, inputs
<1>4. MatchInv'
  <2>0. stage = "forward" /\ MatchInv
    BY DEF ExtendForward, EndForward
  <2>1. length \in Nat /\ bpos \in Nat /\ tpos \in Nat /\ MinMatch \in Nat \ {0}
        /\ i \in Nat /\ litStart \in Nat /\ Len(base) \in Nat /\ Len(target) \in Nat
    BY DeltaAssumption
  <2> HIDE DEF DeltaInv, Types
  <2>2. /\ litStart <= tpos /\ tpos + length <= Len(target) /\ tpos = i /\ i < Len(target)
        /\ length > 0 => bpos + length <= Len(base)
    BY <2>0, <2>1 DEF MatchInv
  <2>3. \A k \in 1..length : base[bpos + k] = target[tpos + k]
    BY <2>0 DEF MatchInv
  <2>4. CASE ExtendForward
    <3>1. length' = length + 1 /\ stage' = "forward" /\ i' = i
          /\ bpos + length < Len(base) /\ tpos + length < Len(target)
          /\ base[bpos + length + 1] = target[tpos + length + 1]
      BY <2>4 DEF ExtendForward, MatchGoesOn, diffVars
    <3>2. ASSUME NEW k \in 1..length + 1 PROVE base[bpos + k] = target[tpos + k]
      <4>1. CASE k = length + 1
        BY <2>1, <3>1, <4>1
      <4>2. CASE k # length + 1
        <5>1. k \in 1..length
          BY <2>1, <4>2
        <5> QED BY <2>3, <5>1
      <4> QED BY <4>1, <4>2
    <3>3. \A k \in 1..length' : base'[bpos' + k] = target'[tpos' + k]
      BY <1>1, <3>1, <3>2
    <3>4. /\ litStart' <= tpos' /\ tpos' + length' <= Len(target') /\ tpos' = i' /\ i' < Len(target')
          /\ bpos' + length' <= Len(base')
      BY <1>1, <2>1, <2>2, <3>1
    <3> QED BY <2>1, <1>1, <3>1, <3>3, <3>4 DEF MatchInv
  <2>5. CASE EndForward /\ length >= MinMatch
    <3>1. stage' = "backward" /\ i' = i /\ length' = length
      BY <2>5 DEF EndForward, matchVars
    <3>2. \A k \in 1..length' : base'[bpos' + k] = target'[tpos' + k]
      BY <1>1, <2>3, <3>1
    <3>3. /\ litStart' <= tpos' /\ tpos' + length' <= Len(target') /\ tpos' <= i'
          /\ length' > 0 => bpos' + length' <= Len(base')
          /\ length' >= MinMatch /\ i' <= tpos' + length'
      BY <1>1, <2>1, <2>2, <2>5, <3>1
    <3> QED BY <3>1, <3>2, <3>3 DEF MatchInv
  <2>6. CASE EndForward /\ ~(length >= MinMatch)
    BY <2>6 DEF EndForward, MatchInv
  <2> QED BY <2>4, <2>5, <2>6
<1>5. PatchInv'
  BY <1>1 DEF PatchInv, ExtendForward, EndForward, Upto
<1> QED BY <1>2, <1>3, <1>4, <1>5

(* A match grows back into the literals, and no further. *)
LEMMA BackwardInv == DeltaInv /\ ExtendBackward => DeltaInv'
<1> SUFFICES ASSUME DeltaInv, ExtendBackward PROVE DeltaInv'
  OBVIOUS
<1>0. Types /\ DiffInv /\ MatchInv /\ PatchInv
  BY DEF DeltaInv
<1>1. UNCHANGED <<base, target, peer, head, ops, reach, out, applied, litStart, stage, i>>
  BY DEF ExtendBackward, inputs, patchVars, diffVars
<1>2. /\ bpos' = bpos - 1 /\ tpos' = tpos - 1 /\ length' = length + 1
      /\ tpos > litStart /\ bpos > 0 /\ base[bpos] = target[tpos]
      /\ stage = "backward"
  BY DEF ExtendBackward, MatchGoesBack
<1>3. Types'
  BY <1>0, <1>1, <1>2 DEF Types
<1>4. DiffInv'
  BY <1>0, <1>1, SameOps DEF DiffInv, inputs
<1>5. MatchInv'
  <2>1. length \in Nat /\ bpos \in Nat /\ tpos \in Nat /\ MinMatch \in Nat \ {0}
        /\ i \in Nat /\ litStart \in Nat /\ Len(base) \in Nat /\ Len(target) \in Nat
    BY <1>0, DeltaAssumption DEF Types
  <2>2. /\ length >= MinMatch /\ i <= tpos + length
        /\ tpos + length <= Len(target) /\ tpos <= i
        /\ length > 0 => bpos + length <= Len(base)
    BY <1>0, <1>2 DEF MatchInv
  <2>3. \A k \in 1..length : base[bpos + k] = target[tpos + k]
    BY <1>0, <1>2 DEF MatchInv
  <2>4. ASSUME NEW k \in 1..length + 1
        PROVE  base[(bpos - 1) + k] = target[(tpos - 1) + k]
    <3>1. CASE k = 1
      BY <1>2, <2>1, <3>1
    <3>2. CASE k # 1
      <4>1. k - 1 \in 1..length
        BY <2>1, <3>2
      <4>2. base[bpos + (k - 1)] = target[tpos + (k - 1)]
        BY <2>3, <4>1
      <4>3. bpos + (k - 1) = (bpos - 1) + k /\ tpos + (k - 1) = (tpos - 1) + k
        BY <2>1
      <4> QED BY <4>2, <4>3
    <3> QED BY <3>1, <3>2
  <2>5. \A k \in 1..length' : base'[bpos' + k] = target'[tpos' + k]
    BY <1>1, <1>2, <2>4
  <2>6. /\ litStart' <= tpos' /\ tpos' + length' <= Len(target') /\ tpos' <= i'
        /\ length' > 0 => bpos' + length' <= Len(base')
        /\ length' >= MinMatch /\ i' <= tpos' + length'
    BY <1>1, <1>2, <2>1, <2>2
  <2> QED BY <1>1, <1>2, <2>5, <2>6 DEF MatchInv
<1>6. PatchInv'
  BY <1>0, <1>1 DEF PatchInv, Upto
<1> QED BY <1>3, <1>4, <1>5, <1>6 DEF DeltaInv

(* The literals before a match and the match are two operations that go on *)
(* where the last one stopped.                                             *)
LEMMA EmitCopyInv == DeltaInv /\ EmitCopy => DeltaInv'
<1> SUFFICES ASSUME DeltaInv, EmitCopy PROVE DeltaInv'
  OBVIOUS
<1> DEFINE w == WithLiteral(tpos)
           x == Copy(bpos, length)
           to == tpos + length
<1>1. UNCHANGED <<base, target, peer, head, out, applied, bpos, tpos, length>>
  BY DEF EmitCopy, inputs, patchVars, matchVars
<1>2. /\ stage = "backward" /\ stage' = "scan" /\ i' = to /\ litStart' = to
      /\ ops' = Append(w.ops, x) /\ reach' = Append(w.reach, to)
  BY DEF EmitCopy
<1>3. /\ litStart <= tpos /\ to <= Len(target) /\ length >= MinMatch
      /\ length > 0 /\ bpos + length <= Len(base)
      /\ \A k \in 1..length : base[bpos + k] = target[tpos + k]
  BY <1>2, DeltaAssumption DEF DeltaInv, Types, MatchInv
<1>4. /\ GoodOps(w.ops, w.reach) /\ Upto(w.reach, Len(w.reach)) = tpos
  <2>1. /\ target \in Seq(Byte) /\ litStart \in Nat /\ tpos \in Nat
        /\ litStart <= tpos /\ tpos <= Len(target)
    BY <1>3 DEF DeltaInv, Types
  <2>2. GoodOps(ops, reach) /\ Upto(reach, Len(reach)) = litStart
    BY <1>2 DEF DeltaInv, DiffInv
  <2> QED BY <2>1, <2>2, LiteralIs
<1>5. x \in OpSet
  BY DEF DeltaInv, Types, Copy, OpSet
<1>6. Makes(x, tpos, to)
  <2>1. bpos \in Nat /\ tpos \in Nat /\ length \in Nat
    BY DEF DeltaInv, Types
  <2>2. to - tpos = length /\ tpos < to
    BY <1>3, <2>1
  <2>3. x.op = "copy" /\ x.length = length /\ x.offset = bpos
    BY DEF Copy
  <2> HIDE DEF x, to
  <2> QED BY <1>3, <2>1, <2>2, <2>3 DEF Makes
<1>7. /\ GoodOps(Append(w.ops, x), Append(w.reach, to))
      /\ Upto(Append(w.reach, to), Len(Append(w.reach, to))) = to
  <2>1. target \in Seq(Byte) /\ to \in Nat /\ to <= Len(target)
    BY <1>3 DEF DeltaInv, Types
  <2>2. Makes(x, Upto(w.reach, Len(w.reach)), to)
    BY <1>4, <1>6
  <2> HIDE DEF w, x, to
  <2> QED BY <1>4, <1>5, <2>1, <2>2, AppendOp
<1>8. DiffInv'
  <2>1. PICK o, r : o = Append(w.ops, x) /\ r = Append(w.reach, to)
    OBVIOUS
  <2>2. GoodOps(o, r) /\ Upto(r, Len(r)) = to
    BY <1>7, <2>1
  <2>3. ops' = o /\ reach' = r
    BY <1>2, <2>1
  <2> HIDE DEF w, x, to
  <2>4. GoodOps(o, r)'
    BY <1>1, <2>2 DEF GoodOps, Makes, Slice
  <2> QED BY <1>2, <2>2, <2>3, <2>4 DEF DiffInv, GoodOps, Upto
<1>9. out = <<>> /\ applied = 0
  BY <1>2 DEF DeltaInv, PatchInv
<1>10. Types'
  BY <1>1, <1>2, <1>3, <1>8, <1>9 DEF DeltaInv, Types, DiffInv, GoodOps
<1>11. MatchInv'
  BY <1>2 DEF MatchInv
<1>12. PatchInv'
  BY <1>1, <1>2, <1>9 DEF DeltaInv, Types, PatchInv, Upto
<1> QED BY <1>8, <1>10, <1>11, <1>12 DEF DeltaInv

(* The last literals reach the end of the chunk. *)
LEMMA EndDiffInv == DeltaInv /\ EndDiff => DeltaInv'
<1> SUFFICES ASSUME DeltaInv, EndDiff PROVE DeltaInv'
  OBVIOUS
<1> DEFINE w == WithLiteral(Len(target))
<1>1. UNCHANGED <<base, target, peer, head, out, applied, bpos, tpos, length, i, litStart>>
  BY DEF EndDiff, inputs, patchVars, matchVars
<1>2. /\ stage = "scan" /\ stage' = "patch" /\ ops' = w.ops /\ reach' = w.reach
  BY DEF EndDiff
<1>3. /\ GoodOps(w.ops, w.reach) /\ Upto(w.reach, Len(w.reach)) = Len(target)
  BY <1>2, LiteralIs DEF DeltaInv, Types, DiffInv
<1>4. DiffInv'
  <2>1. PICK o, r : o = w.ops /\ r = w.reach
    OBVIOUS
  <2> HIDE DEF w
  <2>2. GoodOps(o, r) /\ Upto(r, Len(r)) = Len(target)
    BY <1>3, <2>1
  <2>3. GoodOps(o, r)'
    BY <1>1, <2>2 DEF GoodOps, Makes, Slice
  <2> QED BY <1>1, <1>2, <2>1, <2>2, <2>3 DEF DiffInv, GoodOps, Upto
<1>5. out = <<>> /\ applied = 0
  BY <1>2 DEF DeltaInv, PatchInv
<1>6. Types'
  BY <1>1, <1>2, <1>4, <1>5 DEF DeltaInv, Types, DiffInv, GoodOps
<1>7. MatchInv'
  BY <1>2 DEF MatchInv
<1>8. PatchInv'
  BY <1>1, <1>2, <1>5 DEF DeltaInv, Types, PatchInv, Upto
<1> QED BY <1>4, <1>6, <1>7, <1>8 DEF DeltaInv

(* Where an operation starts and ends in the chunk. *)
LEMMA OpEnds ==
  ASSUME GoodOps(ops, reach), NEW n \in 1..Len(ops)
  PROVE  /\ Upto(reach, n - 1) \in Nat /\ Upto(reach, n) \in Nat
         /\ Makes(ops[n], Upto(reach, n - 1), Upto(reach, n))
BY DEF GoodOps, Upto

(* Patch has put together the part of the chunk before operation x; what x *)
(* adds is the next part, when it is applied to the reference.             *)
LEMMA ApplyInv == DeltaInv /\ (ApplyInsert \/ ApplyCopy) => DeltaInv'
<1> SUFFICES ASSUME DeltaInv, ApplyInsert \/ ApplyCopy PROVE DeltaInv'
  OBVIOUS
<1> DEFINE n == applied + 1
           from == Upto(reach, applied)
           to == Upto(reach, n)
           part == IF op.op = "insert" THEN op.bytes
                   ELSE Slice(peer, op.offset, op.offset + op.length)
<1>0. Types /\ DiffInv /\ MatchInv /\ PatchInv /\ MinMatch \in Nat \ {0}
  BY DeltaAssumption DEF DeltaInv
<1>1. /\ UNCHANGED <<base, target, peer, head, bpos, tpos, length, i, litStart, ops, reach>>
      /\ stage = "patch" /\ applied < Len(ops) /\ stage' \in {"patch", "error"}
      /\ op = ops[n]
  BY DEF ApplyInsert, ApplyCopy, AppendBytes, PatchError, AtOp, op, inputs, matchVars,
         diffVars
<1>2. ops \in Seq(OpSet) /\ n \in 1..Len(ops) /\ op \in OpSet /\ applied \in Nat
  BY <1>0, <1>1 DEF Types, DiffInv, GoodOps
<1>3. from \in Nat /\ to \in Nat /\ Makes(op, from, to)
  <2>1. applied = n - 1
    BY <1>2
  <2> QED BY <1>0, <1>1, <1>2, <2>1, OpEnds DEF DiffInv
<1>4. /\ base \in Seq(Byte) /\ target \in Seq(Byte) /\ peer \in Seq(Byte)
      /\ out \in Seq(Byte) /\ Len(out) <= Len(target)
  BY <1>0 DEF Types, PatchInv
<1>5. \/ stage' = "error" /\ UNCHANGED <<out, applied>>
      \/ /\ stage' = "patch" /\ applied' = n /\ out' = out \o part
         /\ Len(out) + Len(part) <= Len(target)
         /\ op.op = "copy" =>
              ~(op.length <= 0 \/ op.offset < 0 \/ op.offset + op.length > Len(peer))
  BY <1>1 DEF ApplyInsert, ApplyCopy, AppendBytes, PatchError, AtOp, patchVars
<1>6. stage' = "patch" => part \in Seq(Byte)
  <2>1. CASE op.op = "insert"
    <3>1. part = op.bytes
      BY <2>1
    <3> HIDE DEF part, op
    <3> QED BY <1>2, <3>1 DEF OpSet
  <2>2. CASE op.op = "copy" /\ stage' = "patch"
    <3>1. /\ op.offset \in Nat /\ op.offset + op.length \in Nat
          /\ op.offset <= op.offset + op.length /\ op.offset + op.length <= Len(peer)
      <4>1. op.offset \in Int /\ op.length \in Int
        BY <1>2 DEF OpSet
      <4>2. ~(op.length <= 0 \/ op.offset < 0 \/ op.offset + op.length > Len(peer))
        BY <1>5, <2>2
      <4>3. Len(peer) \in Nat
        BY <1>4
      <4> QED BY <4>1, <4>2, <4>3
    <3>2. part = Slice(peer, op.offset, op.offset + op.length)
      BY <2>2
    <3> HIDE DEF part
    <3> QED BY <1>4, <3>1, <3>2, SliceIs
  <2> QED BY <1>2, <2>1, <2>2 DEF OpSet
<1>7. ASSUME peer = base
      PROVE  /\ Len(part) = to - from /\ \A k \in 1..to - from : part[k] = target[from + k]
             /\ op.op = "copy" =>
                  ~(op.length <= 0 \/ op.offset < 0 \/ op.offset + op.length > Len(peer))
  <2>1. CASE op.op = "insert"
    <3>1. part = Slice(target, from, to) /\ from <= to /\ to <= Len(target)
      BY <1>3, <2>1 DEF Makes
    <3> HIDE DEF part, from, to
    <3> QED BY <1>3, <1>4, <2>1, <3>1, SliceIs
  <2>2. CASE op.op = "copy"
    <3> DEFINE off == op.offset
               end == op.offset + op.length
    <3>1. /\ from < to /\ op.length = to - from /\ off \in Nat /\ end <= Len(base)
          /\ \A k \in 1..to - from : base[off + k] = target[from + k]
      BY <1>3, <2>2 DEF Makes
    <3>2. op.length \in Nat /\ op.length > 0 /\ end \in Nat /\ off <= end
          /\ end - off = to - from
      BY <1>3, <3>1
    <3>3. part = Slice(base, off, end)
      BY <1>7, <2>2
    <3>4. Len(part) = end - off /\ \A k \in 1..end - off : part[k] = base[off + k]
      <4>1. base \in Seq(Byte) /\ off \in Nat /\ end \in Nat /\ off <= end /\ end <= Len(base)
        BY <1>4, <3>1, <3>2
      <4> HIDE DEF part, off, end
      <4>2. /\ Len(Slice(base, off, end)) = end - off
            /\ \A k \in 1..end - off : Slice(base, off, end)[k] = base[off + k]
        BY <4>1, SliceIs
      <4> QED BY <3>3, <4>2
    <3> QED BY <1>7, <2>2, <3>1, <3>2, <3>4
  <2> QED BY <1>2, <2>1, <2>2 DEF OpSet
<1>8. peer = base => stage' = "patch"
  <2> SUFFICES ASSUME peer = base PROVE stage' = "patch"
    OBVIOUS
  <2>1. Len(out) = from
    BY <1>0 DEF PatchInv
  <2>2. to <= Len(target) /\ from < to
    BY <1>3 DEF Makes
  <2>3. Len(out) + Len(part) <= Len(target)
    <3> HIDE DEF part, from, to
    <3> QED BY <1>3, <1>4, <1>7, <2>1, <2>2
  <2>4. /\ op.op = "insert" => Len(out) + Len(op.bytes) <= Len(target)
        /\ op.op = "copy" =>
             Len(out) + Len(Slice(peer, op.offset, op.offset + op.length)) <= Len(target)
    BY <2>3
  <2> HIDE DEF part, from, to
  <2> QED BY <1>1, <1>4, <1>7, <2>4
          DEF ApplyInsert, ApplyCopy, AppendBytes, PatchError, AtOp, patchVars
<1> HIDE DEF part, from, to
<1>9. Types'
  <2>1. out' \in Seq(Byte)
    <3>1. CASE UNCHANGED out
      BY <1>4, <3>1
    <3>2. CASE stage' = "patch" /\ out' = out \o part
      BY <1>4, <1>6, <3>2
    <3> QED BY <1>5, <3>1, <3>2
  <2>2. applied' \in 0..Len(ops)
    BY <1>1, <1>2, <1>5
  <2> QED BY <1>0, <1>1, <2>1, <2>2 DEF Types
<1>10. DiffInv'
  BY <1>0, <1>1, SameOps DEF DiffInv, inputs
<1>11. MatchInv'
  BY <1>1 DEF MatchInv
<1>12. PatchInv'
  <2>1. CASE stage' = "error"
    BY <1>0, <1>1, <1>4, <1>5, <1>8, <2>1 DEF PatchInv
  <2>2. CASE stage' = "patch"
    <3>1. out' = out \o part /\ applied' = n /\ Len(out) + Len(part) <= Len(target)
      BY <1>5, <2>2
    <3>2. Len(out') = Len(out) + Len(part) /\ Len(out') <= Len(target')
      BY <1>1, <1>4, <1>6, <2>2, <3>1
    <3>3. ASSUME peer = base
          PROVE  /\ Len(out') = to
                 /\ \A k \in 1..Len(out') : out'[k] = target[k]
      <4>1. Len(out) = from /\ \A k \in 1..Len(out) : out[k] = target[k]
        BY <1>0, <3>3 DEF PatchInv, from
      <4>2. Len(out') = to
        BY <1>3, <1>7, <3>2, <3>3, <4>1
      <4>3. ASSUME NEW k \in 1..to PROVE out'[k] = target[k]
        <5>1. CASE k <= from
          BY <1>3, <1>4, <1>6, <2>2, <3>1, <4>1, <5>1
        <5>2. CASE k > from
          <6>1. k - from \in 1..to - from /\ from + (k - from) = k
            BY <1>3, <5>2
          <6>2. out'[k] = part[k - from]
            <7>1. out \in Seq(Byte) /\ part \in Seq(Byte) /\ out' = out \o part
              BY <1>4, <1>6, <2>2, <3>1
            <7>2. Len(out) = from /\ Len(part) = to - from /\ k - Len(out) \in 1..Len(part)
              BY <1>7, <3>3, <4>1, <6>1
            <7> QED BY <7>1, <7>2, <5>2, <4>1
          <6> QED BY <1>7, <3>3, <6>1, <6>2
        <5> QED BY <1>3, <5>1, <5>2
      <4> QED BY <4>2, <4>3
    <3>4. (Upto(reach, applied))' = to
      BY <1>1, <3>1 DEF Upto, to
    <3> QED BY <1>1, <2>2, <3>2, <3>3, <3>4 DEF PatchInv
  <2> QED BY <1>1, <2>1, <2>2
<1> QED BY <1>9, <1>10, <1>11, <1>12 DEF DeltaInv

(* What all operations have made is the chunk. *)
LEMMA EndPatchInv == DeltaInv /\ EndPatch => DeltaInv'
<1> SUFFICES ASSUME DeltaInv, EndPatch PROVE DeltaInv'
  OBVIOUS
<1>0. Types /\ DiffInv /\ MatchInv /\ PatchInv
  BY DEF DeltaInv
<1>1. /\ UNCHANGED <<base, target, peer, head, bpos, tpos, length, i, litStart, ops, reach>>
      /\ UNCHANGED <<out, applied>>
      /\ stage = "patch" /\ applied = Len(ops)
      /\ stage' = IF Len(out) = Len(target) THEN "done" ELSE "error"
  BY DEF EndPatch, inputs, matchVars, diffVars, patchVars
<1>2. Types'
  BY <1>0, <1>1 DEF Types
<1>3. DiffInv'
  BY <1>0, <1>1, SameOps DEF DiffInv, inputs
<1>4. MatchInv'
  BY <1>1 DEF MatchInv
<1>5. peer = base => Len(out) = Len(target)
  <2>1. Len(reach) = Len(ops)
    BY <1>0 DEF DiffInv, GoodOps
  <2> QED BY <1>0, <1>1, <2>1 DEF DiffInv, PatchInv
<1>6. PatchInv'
  BY <1>0, <1>1, <1>5 DEF PatchInv, Upto
<1> QED BY <1>2, <1>3, <1>4, <1>6 DEF DeltaInv

-----------------------------------------------------------------------------
(* The invariant of Diff and Patch: the operations so far make the chunk   *)
(* up to where the scan is, the match at hand agrees with the reference,   *)
(* and what Patch has put together is the beginning of the chunk           *)
(* (delta.go:47-162).                                                      *)
THEOREM DeltaInvariant == DeltaSpec => []DeltaInv
<1>1. DeltaInit => DeltaInv
  BY InitInv
<1>2. DeltaInv /\ [DeltaNext]_deltaVars => DeltaInv'
  <2> SUFFICES ASSUME DeltaInv, [DeltaNext]_deltaVars PROVE DeltaInv'
    OBVIOUS
  <2>1. CASE DeltaStep
    BY <2>1, IndexInv, ScanInv, ForwardInv, BackwardInv, EmitCopyInv, EndDiffInv, ApplyInv,
       EndPatchInv DEF DeltaStep
  <2>2. CASE UNCHANGED deltaVars
    <3>1. UNCHANGED <<base, target, peer, head, stage, bpos, tpos, length, i, litStart, ops,
                      reach, out, applied>>
      BY <2>2 DEF deltaVars, inputs, matchVars, diffVars, patchVars
    <3>2. Types' /\ MatchInv' /\ PatchInv'
      BY <3>1 DEF DeltaInv, Types, MatchInv, PatchInv, Upto
    <3>3. DiffInv'
      BY <3>1, SameOps DEF DeltaInv, DiffInv, inputs
    <3> QED BY <3>2, <3>3 DEF DeltaInv
  <2> QED BY <2>1, <2>2 DEF DeltaNext, Finished
<1> QED BY <1>1, <1>2, PTL DEF DeltaSpec

(* Diff and Patch keep the types of their state: every position lies in    *)
(* the sequence it is a position of.                                       *)
THEOREM DeltaTypeCorrect == DeltaSpec => []DeltaTypeOK
<1>1. DeltaInv => DeltaTypeOK
  <2> SUFFICES ASSUME Types PROVE DeltaTypeOK
    BY DEF DeltaInv
  <2>1. Len(base) \in Nat /\ Len(target) \in Nat
    BY DEF Types
  <2> QED BY <2>1 DEF Types, DeltaTypeOK
<1> QED BY <1>1, DeltaInvariant, PTL

(* A chunk diffed against a reference and patched with the same one is     *)
(* what it was, and Patch does not complain: for every hash function,      *)
(* whatever positions the index loses or gets wrong.                       *)
THEOREM ChunkRoundTrip == DeltaSpec => []RoundTrip
<1>1. DeltaInv => RoundTrip
  <2> SUFFICES ASSUME DeltaInv, peer = base
               PROVE  stage # "error" /\ (stage = "done" => out = target)
    BY DEF RoundTrip
  <2>1. /\ stage # "error" /\ \A k \in 1..Len(out) : out[k] = target[k]
        /\ stage = "done" => Len(out) = Len(target)
        /\ out \in Seq(Byte) /\ target \in Seq(Byte)
    BY DEF DeltaInv, Types, PatchInv
  <2> QED BY <2>1
<1> QED BY <1>1, DeltaInvariant, PTL

(* The operations cover the chunk, each going on where the one before      *)
(* stopped, and no COPY is short or leaves the reference.                  *)
THEOREM ChunkCovered == DeltaSpec => []OpsCover
<1>1. DeltaInv => OpsCover
  <2> SUFFICES ASSUME DeltaInv PROVE OpsCover
    OBVIOUS
  <2>0. Types /\ DiffInv /\ GoodOps(ops, reach)
    BY DEF DeltaInv, DiffInv
  <2>1. ASSUME NEW n \in DOMAIN ops
        PROVE  /\ LengthOf(n) = reach[n] - (IF n = 1 THEN 0 ELSE reach[n - 1])
               /\ ops[n].op = "copy" =>
                    ops[n].length >= MinMatch /\ ops[n].offset + ops[n].length <= Len(base)
    <3> DEFINE from == Upto(reach, n - 1)
               to == Upto(reach, n)
    <3>1. n \in 1..Len(ops) /\ target \in Seq(Byte)
      BY <2>0 DEF GoodOps, Types
    <3>2. from \in Nat /\ to \in Nat /\ Makes(ops[n], from, to)
      BY <2>0, <3>1, OpEnds
    <3>3. to = reach[n] /\ from = IF n = 1 THEN 0 ELSE reach[n - 1]
      BY <3>1 DEF Upto
    <3>4. LengthOf(n) = to - from
      <4> HIDE DEF from, to
      <4>1. CASE ops[n].op = "insert"
        <5>1. ops[n].bytes = Slice(target, from, to) /\ from < to /\ to <= Len(target)
          BY <3>2, <4>1 DEF Makes
        <5>2. Len(Slice(target, from, to)) = to - from
          BY <3>1, <3>2, <5>1, SliceIs
        <5> QED BY <4>1, <5>1, <5>2 DEF LengthOf
      <4>2. CASE ops[n].op = "copy"
        BY <3>2, <4>2 DEF Makes, LengthOf
      <4> QED BY <3>2, <4>1, <4>2 DEF Makes
    <3>5. ops[n].op = "copy" =>
            ops[n].length >= MinMatch /\ ops[n].offset + ops[n].length <= Len(base)
      BY <3>2 DEF Makes
    <3> HIDE DEF from, to
    <3> QED BY <3>3, <3>4, <3>5
  <2>2. stage \in {"patch", "done", "error"} =>
          IF ops = <<>> THEN target = <<>> ELSE reach[Len(ops)] = Len(target)
    <3>1. CASE ops = <<>>
      BY <2>0, <3>1 DEF DiffInv, GoodOps, Upto, Types
    <3>2. CASE ops # <<>>
      <4>1. Len(ops) \in 1..Len(ops) /\ Len(reach) = Len(ops)
        BY <2>0, <3>2 DEF GoodOps
      <4> QED BY <2>0, <3>2, <4>1 DEF DiffInv, Upto
    <3> QED BY <3>1, <3>2
  <2> QED BY <2>1, <2>2 DEF OpsCover
<1> QED BY <1>1, DeltaInvariant, PTL

=============================================================================
