------------------------------- MODULE Delta --------------------------------
(***************************************************************************)
(* internal/delta: a chunk is diffed against a reference on one host       *)
(* (Index.Diff) and patched together again on another one (Patch).         *)
(*                                                                         *)
(* The loops of both are loops of actions.  Positions count from 0, as in  *)
(* the code: the byte at position n of a sequence s is s[n + 1].           *)
(***************************************************************************)
EXTENDS Integers, Sequences

CONSTANTS
  Byte,
  Hash(_),      \* the bucket of hashLen bytes
  MinMatch,     \* minMatch: a shorter match is not worth a COPY
  HashLen,      \* hashLen: the bytes a bucket is computed from
  Bits,         \* the width of a position in the index: 32
  Base,         \* the references,
  Target,       \*   the chunks and
  Peer          \*   what the other host may have for a reference

ASSUME DeltaAssumption ==
  /\ MinMatch \in Nat \ {0} /\ HashLen \in Nat \ {0} /\ Bits \in Nat \ {0}
  /\ 2 ^ Bits \in Nat \ {0} /\ 2 ^ (Bits - 1) \in Nat
  /\ Base \subseteq Seq(Byte) /\ Target \subseteq Seq(Byte) /\ Peer \subseteq Seq(Byte)

VARIABLES
  base,         \* the reference the chunk is diffed against
  target,       \* the chunk
  peer,         \* the reference it is patched with
  head,         \* the index: a position in base, plus one, for a bucket
  stage,        \* "index"; "scan", "forward", "backward"; "patch"; "done", "error"
  i,            \* the position NewIndex is at in base, then Diff in target
  litStart,     \* where the bytes start that no operation covers yet
  bpos,         \* the match, in base and
  tpos,         \*   in target,
  length,       \*   and its length so far
  ops,          \* the operations of the delta
  out,          \* what Patch has put together
  applied,      \* the operations it has applied
  reach         \* history: how much of target the first n operations cover

inputs == <<base, target, peer>>
matchVars == <<bpos, tpos, length>>
diffVars == <<i, litStart, ops, reach>>
patchVars == <<out, applied>>
deltaVars == <<inputs, head, stage, matchVars, diffVars, patchVars>>

Slice(s, from, to) == SubSeq(s, from + 1, to)

Insert(bytes) == [op |-> "insert", bytes |-> bytes, offset |-> 0, length |-> 0]
Copy(offset, len) == [op |-> "copy", bytes |-> <<>>, offset |-> offset, length |-> len]

(* int32(n): the Bits low bits of n, as a signed number. *)
Int32(n) == ((n + 2 ^ (Bits - 1)) % 2 ^ Bits) - 2 ^ (Bits - 1)

-----------------------------------------------------------------------------
DeltaInit ==
  /\ base \in Base /\ target \in Target /\ peer \in Peer \cup {base}
  /\ head = <<>>
  /\ stage = "index" /\ i = 0 /\ litStart = 0
  /\ bpos = 0 /\ tpos = 0 /\ length = 0
  /\ ops = <<>> /\ reach = <<>>
  /\ out = <<>> /\ applied = 0

(* NewIndex: of the positions in one bucket the last one stays. *)
IndexPosition ==
  /\ stage = "index" /\ i + HashLen <= Len(base)
  /\ LET hash == Hash(Slice(base, i, i + HashLen)) IN
     head' = [h \in DOMAIN head \cup {hash} |-> IF h = hash THEN Int32(i + 1) ELSE head[h]]
  /\ i' = i + 1
  /\ UNCHANGED <<inputs, stage, matchVars, litStart, ops, reach, patchVars>>

EndIndex ==
  /\ stage = "index" /\ i + HashLen > Len(base)
  /\ stage' = "scan" /\ i' = 0
  /\ UNCHANGED <<inputs, head, matchVars, litStart, ops, reach, patchVars>>

(* The candidate in the bucket of the bytes at i, negative when it is empty. *)
Candidate ==
  LET hash == Hash(Slice(target, i, i + HashLen)) IN
  (IF hash \in DOMAIN head THEN head[hash] ELSE 0) - 1

Scan ==
  /\ stage = "scan" /\ i + HashLen <= Len(target)
  /\ IF Candidate >= 0
     THEN /\ stage' = "forward"
          /\ bpos' = Candidate /\ tpos' = i /\ length' = 0
          /\ UNCHANGED i
     ELSE /\ i' = i + 1
          /\ UNCHANGED <<stage, matchVars>>
  /\ UNCHANGED <<inputs, head, litStart, ops, reach, patchVars>>

(* matchLen *)
MatchGoesOn ==
  /\ bpos + length < Len(base) /\ tpos + length < Len(target)
  /\ base[bpos + length + 1] = target[tpos + length + 1]

ExtendForward ==
  /\ stage = "forward" /\ MatchGoesOn
  /\ length' = length + 1
  /\ UNCHANGED <<inputs, head, stage, bpos, tpos, diffVars, patchVars>>

(* Faulty: a match that is too short is met again. *)
EndForwardInPlace ==
  /\ stage = "forward" /\ ~MatchGoesOn
  /\ stage' = IF length >= MinMatch THEN "backward" ELSE "scan"
  /\ UNCHANGED <<inputs, head, i, matchVars, litStart, ops, reach, patchVars>>

EndForward ==
  /\ stage = "forward" /\ ~MatchGoesOn
  /\ IF length >= MinMatch THEN stage' = "backward" /\ UNCHANGED i
                           ELSE stage' = "scan" /\ i' = i + 1
  /\ UNCHANGED <<inputs, head, matchVars, litStart, ops, reach, patchVars>>

(* Faulty: the match also absorbs what an operation covers already. *)
MatchGoesBackToStart ==
  /\ tpos > 0 /\ bpos > 0
  /\ base[bpos] = target[tpos]

(* The match absorbs the literals before it. *)
MatchGoesBack ==
  /\ tpos > litStart /\ bpos > 0
  /\ base[bpos] = target[tpos]

ExtendBackward ==
  /\ stage = "backward" /\ MatchGoesBack
  /\ bpos' = bpos - 1 /\ tpos' = tpos - 1 /\ length' = length + 1
  /\ UNCHANGED <<inputs, head, stage, diffVars, patchVars>>

(* emitLiteral: the bytes no operation covers yet, if there are any. *)
WithLiteral(end) ==
  IF end <= litStart THEN [ops |-> ops, reach |-> reach]
  ELSE [ops |-> Append(ops, Insert(Slice(target, litStart, end))),
        reach |-> Append(reach, end)]

(* Faulty: the scan leaves out a byte after a match. *)
EmitCopyAndSkip ==
  /\ stage = "backward" /\ ~MatchGoesBack
  /\ ops' = Append(WithLiteral(tpos).ops, Copy(bpos, length))
  /\ reach' = Append(WithLiteral(tpos).reach, tpos + length)
  /\ i' = tpos + length + 1 /\ litStart' = tpos + length
  /\ stage' = "scan"
  /\ UNCHANGED <<inputs, head, matchVars, patchVars>>

EmitCopy ==
  /\ stage = "backward" /\ ~MatchGoesBack
  /\ ops' = Append(WithLiteral(tpos).ops, Copy(bpos, length))
  /\ reach' = Append(WithLiteral(tpos).reach, tpos + length)
  /\ i' = tpos + length /\ litStart' = tpos + length
  /\ stage' = "scan"
  /\ UNCHANGED <<inputs, head, matchVars, patchVars>>

(* Faulty: the bytes after the last match are lost. *)
EndDiffAtOnce ==
  /\ stage = "scan" /\ i + HashLen > Len(target)
  /\ stage' = "patch"
  /\ UNCHANGED <<inputs, head, diffVars, matchVars, patchVars>>

EndDiff ==
  /\ stage = "scan" /\ i + HashLen > Len(target)
  /\ ops' = WithLiteral(Len(target)).ops
  /\ reach' = WithLiteral(Len(target)).reach
  /\ stage' = "patch"
  /\ UNCHANGED <<inputs, head, i, litStart, matchVars, patchVars>>

-----------------------------------------------------------------------------
(* Patch(peer, ops, Len(target)) *)

op == ops[applied + 1]

AtOp == stage = "patch" /\ applied < Len(ops)

PatchError == stage' = "error" /\ UNCHANGED patchVars

(* No more than the result size is ever put together. *)
AppendBytes(bytes) ==
  IF Len(out) + Len(bytes) > Len(target) THEN PatchError
  ELSE /\ out' = out \o bytes
       /\ applied' = applied + 1
       /\ UNCHANGED stage

ApplyInsert ==
  /\ AtOp /\ op.op = "insert"
  /\ AppendBytes(op.bytes)
  /\ UNCHANGED <<inputs, head, matchVars, diffVars>>

ApplyCopy ==
  /\ AtOp /\ op.op = "copy"
  /\ IF op.length <= 0 \/ op.offset < 0 \/ op.offset + op.length > Len(peer) THEN PatchError
     ELSE AppendBytes(Slice(peer, op.offset, op.offset + op.length))
  /\ UNCHANGED <<inputs, head, matchVars, diffVars>>

EndPatch ==
  /\ stage = "patch" /\ applied = Len(ops)
  /\ stage' = IF Len(out) = Len(target) THEN "done" ELSE "error"
  /\ UNCHANGED <<inputs, head, matchVars, diffVars, patchVars>>

-----------------------------------------------------------------------------
DeltaStep ==
  \/ IndexPosition \/ EndIndex
  \/ Scan \/ ExtendForward \/ EndForward \/ ExtendBackward \/ EmitCopy \/ EndDiff
  \/ ApplyInsert \/ ApplyCopy \/ EndPatch

Finished == stage \in {"done", "error"} /\ UNCHANGED deltaVars

DeltaNext == DeltaStep \/ Finished

DeltaSpec == DeltaInit /\ [][DeltaNext]_deltaVars

DeltaFairSpec == DeltaSpec /\ WF_deltaVars(DeltaStep)

-----------------------------------------------------------------------------
(* Properties *)

DeltaTypeOK ==
  /\ base \in Seq(Byte) /\ target \in Seq(Byte) /\ peer \in Seq(Byte)
  /\ stage \in {"index", "scan", "forward", "backward", "patch", "done", "error"}
  /\ i \in 0..Len(IF stage = "index" THEN base ELSE target)
  /\ litStart \in 0..Len(target)
  /\ \A h \in DOMAIN head : head[h] \in Int
  /\ bpos \in Nat /\ tpos \in Nat /\ length \in Nat
  /\ out \in Seq(Byte) /\ applied \in 0..Len(ops)

(* Patched with the reference it was diffed against, a chunk is what it    *)
(* was, and Patch has nothing to complain of, whatever the index has lost  *)
(* to collisions or to its width (Diff, Patch).                            *)
RoundTrip ==
  peer = base => stage # "error" /\ (stage = "done" => out = target)

(* The bytes that operation n makes. *)
LengthOf(n) == IF ops[n].op = "copy" THEN ops[n].length ELSE Len(ops[n].bytes)

(* Diff covers the chunk from its start to its end, each operation going   *)
(* on where the one before stopped: however far a match is extended back   *)
(* into the literals, no byte is made twice and none is left out, and no   *)
(* COPY is short or leaves the reference (Diff, matchLen, emitLiteral).    *)
OpsCover ==
  /\ \A n \in DOMAIN ops :
       /\ LengthOf(n) = reach[n] - (IF n = 1 THEN 0 ELSE reach[n - 1])
       /\ ops[n].op = "copy" =>
            ops[n].length >= MinMatch /\ ops[n].offset + ops[n].length <= Len(base)
  /\ stage \in {"patch", "done", "error"} =>
       IF ops = <<>> THEN target = <<>> ELSE reach[Len(ops)] = Len(target)

(* Diff and Patch end. *)
DeltaEnds == <>(stage \in {"done", "error"})

=============================================================================
