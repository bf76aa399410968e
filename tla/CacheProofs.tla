---------------------------- MODULE CacheProofs ----------------------------
(***************************************************************************)
(* The temporary chunk store keeps every payload, and the binary cache     *)
(* publishes as its abstract specification says, for any archives and any  *)
(* number of runs that stop anywhere.                                      *)
(***************************************************************************)
EXTENDS BinaryCache, ListFacts

-----------------------------------------------------------------------------
(* The chunk store: every entry is the range of its own payload. *)

StoreInv ==
  /\ file \in Seq(Byte) /\ size = Len(file)
  /\ given \in Seq(Seq(Byte))
  /\ entries \in Seq([size : Nat, offset : Nat]) /\ Len(entries) = Len(given)
  /\ \A i \in 1..Len(given) :
       /\ entries[i].size = Len(given[i]) /\ entries[i].offset \in Nat
       /\ entries[i].offset + entries[i].size <= Len(file)
       /\ \A j \in 1..Len(given[i]) : file[entries[i].offset + j] = given[i][j]

(* A range that holds the elements of a sequence is that sequence. *)
LEMMA RangeIs ==
  ASSUME NEW S, NEW s \in Seq(S), NEW t \in Seq(S), NEW o \in Nat, o + Len(t) <= Len(s),
         \A j \in 1..Len(t) : s[o + j] = t[j]
  PROVE  SubSeq(s, o + 1, o + Len(t)) = t
<1> DEFINE u == SubSeq(s, o + 1, o + Len(t))
<1>1. u \in Seq(S) /\ Len(u) = Len(t) /\ \A j \in 1..Len(t) : u[j] = s[o + j]
  OBVIOUS
<1> HIDE DEF u
<1>2. u = t
  BY <1>1, SeqEqual
<1> QED BY <1>2 DEF u

(* An empty store. *)
LEMMA OpenInv == OpenTempChunkStore => StoreInv
BY DEF OpenTempChunkStore, StoreInv

(* A chunk written is behind all others. *)
LEMMA WriteChunkInv ==
  ASSUME StoreInv, NEW data \in Seq(Byte), WriteChunk(data)
  PROVE  StoreInv'
<1> DEFINE e == [size |-> Len(data), offset |-> Len(file)]
<1>1. /\ file \in Seq(Byte) /\ Len(file) \in Nat /\ Len(data) \in Nat /\ size = Len(file)
      /\ given \in Seq(Seq(Byte)) /\ Len(given) \in Nat
      /\ entries \in Seq([size : Nat, offset : Nat]) /\ Len(entries) = Len(given)
  BY DEF StoreInv
<1>2. /\ file' = file \o data /\ size' = size + Len(data)
      /\ entries' = Append(entries, e) /\ given' = Append(given, data)
  BY <1>1 DEF WriteChunk
<1>3. /\ file' \in Seq(Byte) /\ Len(file') = Len(file) + Len(data)
      /\ \A k \in 1..Len(file) : file'[k] = file[k]
      /\ \A j \in 1..Len(data) : file'[Len(file) + j] = data[j]
  BY <1>1, <1>2
<1>4. /\ given' \in Seq(Seq(Byte)) /\ Len(given') = Len(given) + 1
      /\ \A i \in 1..Len(given) : given'[i] = given[i]
      /\ given'[Len(given) + 1] = data
  BY <1>1, <1>2
<1>5. /\ entries' \in Seq([size : Nat, offset : Nat]) /\ Len(entries') = Len(given) + 1
      /\ \A i \in 1..Len(given) : entries'[i] = entries[i]
      /\ entries'[Len(given) + 1] = e
  <2>1. e \in [size : Nat, offset : Nat]
    BY <1>1
  <2> HIDE DEF e
  <2> QED BY <1>1, <1>2, <2>1
<1>6. PICK N : N \in Nat /\ N = Len(given) /\ Len(given') = N + 1
  BY <1>1, <1>4
<1>7. ASSUME NEW i \in 1..N + 1
      PROVE  /\ entries'[i].size = Len(given'[i]) /\ entries'[i].offset \in Nat
             /\ entries'[i].offset + entries'[i].size <= Len(file')
             /\ \A j \in 1..Len(given'[i]) : file'[entries'[i].offset + j] = given'[i][j]
  <2>1. CASE i = N + 1
    <3>1. entries'[i] = e /\ given'[i] = data
      BY <1>4, <1>5, <1>6, <2>1
    <3>2. e.size = Len(data) /\ e.offset = Len(file)
      OBVIOUS
    <3> HIDE DEF e
    <3>3. \A j \in 1..Len(data) : file'[entries'[i].offset + j] = given'[i][j]
      BY <1>3, <3>1, <3>2
    <3>4. entries'[i].offset + entries'[i].size <= Len(file')
      BY <1>1, <1>3, <3>1, <3>2
    <3> QED BY <1>1, <3>1, <3>2, <3>3, <3>4
  <2>2. CASE i # N + 1
    <3> HIDE DEF e
    <3>1. i \in 1..N
      BY <1>6, <2>2
    <3>2. entries'[i] = entries[i] /\ given'[i] = given[i] /\ given[i] \in Seq(Byte)
      BY <1>1, <1>4, <1>5, <1>6, <3>1, ElementOfSeq
    <3>3. PICK o, l : o = entries[i].offset /\ l = Len(given[i])
      OBVIOUS
    <3>4. /\ entries[i].size = l /\ o \in Nat /\ l \in Nat /\ o + l <= Len(file)
          /\ \A j \in 1..l : file[o + j] = given[i][j]
      <4>1. /\ entries[i].size = l /\ o \in Nat /\ o + entries[i].size <= Len(file)
            /\ \A j \in 1..l : file[o + j] = given[i][j]
        BY <1>6, <3>1, <3>3 DEF StoreInv
      <4>2. l \in Nat
        BY <3>2, <3>3
      <4> QED BY <4>1, <4>2
    <3>5. \A j \in 1..l : o + j \in 1..Len(file)
      <4>1. PICK m : m = Len(file)
        OBVIOUS
      <4>2. o \in Nat /\ l \in Nat /\ m \in Nat /\ o + l <= m
        BY <1>1, <3>4, <4>1
      <4>3. \A j \in 1..l : o + j \in 1..m
        BY <4>2
      <4> QED BY <4>1, <4>3
    <3>6. \A j \in 1..l : file'[o + j] = given[i][j]
      BY <1>3, <3>4, <3>5
    <3>7. o + l <= Len(file')
      BY <1>1, <1>3, <3>4
    <3> QED BY <3>2, <3>3, <3>4, <3>6, <3>7
  <2> QED BY <2>1, <2>2
<1>8. size' = Len(file')
  BY <1>1, <1>2, <1>3
<1> QED BY <1>3, <1>4, <1>5, <1>6, <1>7, <1>8 DEF StoreInv

(* Every step of the store keeps that. *)
LEMMA StoreNextInv == StoreInv /\ [ChunkStoreNext]_chunkStoreVars => StoreInv'
<1> SUFFICES ASSUME StoreInv, [ChunkStoreNext]_chunkStoreVars PROVE StoreInv'
  OBVIOUS
<1>1. CASE \E data \in Seq(Byte) : WriteChunk(data) /\ buf = <<>>
  BY <1>1, WriteChunkInv
<1>2. CASE Map
  BY <1>2 DEF Map, StoreInv
<1>3. CASE Reopen
  BY <1>3 DEF Reopen, StoreInv
<1>4. CASE UNCHANGED chunkStoreVars
  BY <1>4 DEF chunkStoreVars, StoreInv
<1> QED BY <1>1, <1>2, <1>3, <1>4 DEF ChunkStoreNext

(* A mapped store returns what was written. *)
LEMMA StoreReads == StoreInv => ChunksKept
<1> SUFFICES ASSUME StoreInv, buf = file
             PROVE  /\ DOMAIN entries = DOMAIN given
                    /\ \A i \in DOMAIN given : ReadChunk(i) = given[i]
  BY DEF ChunksKept
<1>1. DOMAIN entries = 1..Len(given) /\ DOMAIN given = 1..Len(given)
  BY DEF StoreInv
<1>2. ASSUME NEW i \in 1..Len(given)
      PROVE  ReadChunk(i) = given[i]
  <2>1. /\ file \in Seq(Byte) /\ given[i] \in Seq(Byte) /\ entries[i].offset \in Nat
        /\ entries[i].size = Len(given[i]) /\ entries[i].offset + Len(given[i]) <= Len(file)
        /\ \A j \in 1..Len(given[i]) : file[entries[i].offset + j] = given[i][j]
    <3>1. given[i] \in Seq(Byte)
      BY ElementOfSeq DEF StoreInv
    <3> QED BY <3>1 DEF StoreInv
  <2> QED BY <2>1, RangeIs DEF ReadChunk
<1> QED BY <1>1, <1>2

(* Once it is mapped, the store returns every payload under its number     *)
(* (store.go:40-80).                                                       *)
THEOREM StoreKeepsChunks == ChunkStoreSpec => []ChunksKept
<1>1. ChunkStoreSpec => []StoreInv
  BY OpenInv, StoreNextInv, PTL DEF ChunkStoreSpec
<1> QED BY <1>1, StoreReads, PTL

-----------------------------------------------------------------------------
(* The cache: a narinfo holds the first lines of that of a NAR sent. *)

Messages == UNION {ToSet(a.nars) : a \in Archive}

(* The first k lines of the narinfo of a NAR. *)
LinesOf(m, k) == [key \in {Keys[i] : i \in 1..k} |-> LineOf(m, key)]

InfoInv ==
  \A p \in DOMAIN info : \E m \in Messages, k \in 0..6 : m.path = p /\ info[p] = LinesOf(m, k)

PositionInv ==
  /\ arch \in Archive /\ n \in Nat \ {0}
  /\ pc \in {"pieces", "lines"} => n <= Len(arch.nars)
  /\ pc = "chunks" => buf = <<>>
  /\ pc = "lines" => /\ line \in 1..7 /\ msgNar.path \in DOMAIN info
                     /\ info[msgNar.path] = LinesOf(msgNar, line - 1)

CacheInv == InfoInv /\ PositionInv

(* What the NAR of m, if it is there in full, and k lines of its narinfo   *)
(* amount to.                                                              *)
InFull(m) == m.path \in DOMAIN nar /\ nar[m.path] = m.hash

OffersOf(m, k) ==
  IF k < 5 \/ ~InFull(m) THEN {}
  ELSE IF k = 5 THEN {Publisher!Untold(OfferIn(m))} ELSE {OfferIn(m)}

(* The lines there are, and what they say. *)
LEMMA LinesAre ==
  ASSUME NEW m, NEW k \in 0..6
  PROVE  /\ k < 5 => "NarSize" \notin DOMAIN LinesOf(m, k)
         /\ k >= 5 => /\ {"StorePath", "URL", "NarHash", "NarSize"} \subseteq DOMAIN LinesOf(m, k)
                      /\ LinesOf(m, k)["StorePath"] = m.path /\ LinesOf(m, k)["URL"] = m.path
                      /\ LinesOf(m, k)["NarHash"] = m.hash
                      /\ LinesOf(m, k)["NarSize"] = Len(m.hash)
         /\ k = 5 => "References" \notin DOMAIN LinesOf(m, k)
         /\ k = 6 => "References" \in DOMAIN LinesOf(m, k) /\ LinesOf(m, k)["References"] = m.refs
<1>1. /\ Keys[1] = "StorePath" /\ Keys[2] = "URL" /\ Keys[3] = "Compression"
      /\ Keys[4] = "NarHash" /\ Keys[5] = "NarSize" /\ Keys[6] = "References"
  BY DEF Keys
<1>2. /\ LineOf(m, "StorePath") = m.path /\ LineOf(m, "URL") = m.path
      /\ LineOf(m, "NarHash") = m.hash /\ LineOf(m, "NarSize") = Len(m.hash)
      /\ LineOf(m, "References") = m.refs
  BY DEF LineOf
<1>3. \A i \in 1..k : i \in {1, 2, 3, 4, 5, 6}
  OBVIOUS
<1>4. k < 5 => \A i \in 1..k : Keys[i] # "NarSize"
  BY <1>1, <1>3
<1>5. k = 5 => \A i \in 1..k : Keys[i] # "References"
  BY <1>1, <1>3
<1>6. k >= 5 => 1 \in 1..k /\ 2 \in 1..k /\ 4 \in 1..k /\ 5 \in 1..k
  OBVIOUS
<1>7. k = 6 => 6 \in 1..k
  OBVIOUS
<1>8. DOMAIN LinesOf(m, k) = {Keys[i] : i \in 1..k}
      /\ \A key \in {Keys[i] : i \in 1..k} : LinesOf(m, k)[key] = LineOf(m, key)
  BY DEF LinesOf
<1>9. k < 5 => "NarSize" \notin DOMAIN LinesOf(m, k)
  BY <1>4, <1>8
<1>10. k >= 5 => Keys[1] \in DOMAIN LinesOf(m, k) /\ Keys[2] \in DOMAIN LinesOf(m, k)
                 /\ Keys[4] \in DOMAIN LinesOf(m, k) /\ Keys[5] \in DOMAIN LinesOf(m, k)
  BY <1>6, <1>8
<1>11. k = 5 => "References" \notin DOMAIN LinesOf(m, k)
  BY <1>5, <1>8
<1>12. k = 6 => Keys[6] \in DOMAIN LinesOf(m, k)
  BY <1>7, <1>8
<1>13. \A key \in DOMAIN LinesOf(m, k) : LinesOf(m, k)[key] = LineOf(m, key)
  BY <1>8
<1> HIDE DEF LinesOf
<1> QED BY <1>1, <1>2, <1>9, <1>10, <1>11, <1>12, <1>13

(* What the lines offer, with the references or without. *)
LEMMA OfferOfLines ==
  ASSUME NEW m, NEW k \in 5..6
  PROVE  OfferOf(LinesOf(m, k)) = IF k = 5 THEN Publisher!Untold(OfferIn(m)) ELSE OfferIn(m)
<1>1. PICK lines : lines = LinesOf(m, k)
  OBVIOUS
<1>2. Publisher!Untold(OfferIn(m)) = [path |-> m.path, content |-> m.hash, refs |-> {}]
  BY DEF Publisher!Untold, OfferIn
<1>3. lines["StorePath"] = m.path /\ lines["NarHash"] = m.hash
  <2>1. k \in 0..6 /\ k >= 5
    OBVIOUS
  <2> QED BY <1>1, <2>1, LinesAre
<1>4. CASE k = 5
  <2>1. "References" \notin DOMAIN lines
    BY <1>1, <1>4, LinesAre
  <2> QED BY <1>1, <1>2, <1>3, <1>4, <2>1 DEF OfferOf
<1>5. CASE k = 6
  <2>1. "References" \in DOMAIN lines /\ lines["References"] = m.refs
    BY <1>1, <1>5, LinesAre
  <2> QED BY <1>1, <1>3, <1>5, <2>1 DEF OfferOf, OfferIn
<1> QED BY <1>4, <1>5

OffersAsLines ==
  \A p, m : \A k \in 0..6 :
    p \in DOMAIN info /\ m.path = p /\ info[p] = LinesOf(m, k) => Offers(p) = OffersOf(m, k)

NoOffersWithout == \A p : p \notin DOMAIN info => Offers(p) = {}

(* What a path is offered with by these lines. *)
LEMMA OffersAre == OffersAsLines
<1> SUFFICES ASSUME NEW p, NEW m, NEW k \in 0..6,
                    p \in DOMAIN info, m.path = p, info[p] = LinesOf(m, k)
             PROVE  Offers(p) = OffersOf(m, k)
  BY DEF OffersAsLines
<1>1. Offers(p) = IF Accepted(info[p]) /\ Verified(info[p]) THEN {OfferOf(info[p])} ELSE {}
  BY DEF Offers
<1>2. CASE k < 5
  BY <1>1, <1>2, LinesAre DEF Accepted, OffersOf
<1>3. CASE k >= 5
  <2>1. Accepted(info[p]) /\ (Verified(info[p]) <=> InFull(m))
    BY <1>3, LinesAre DEF Accepted, Verified, InFull
  <2>2. OfferOf(info[p]) = IF k = 5 THEN Publisher!Untold(OfferIn(m)) ELSE OfferIn(m)
    BY <1>3, OfferOfLines
  <2> QED BY <1>1, <1>3, <2>1, <2>2 DEF OffersOf
<1> QED BY <1>2, <1>3

(* Nothing is offered without a narinfo. *)
LEMMA NoOffers == NoOffersWithout
BY DEF NoOffersWithout, Offers

-----------------------------------------------------------------------------
(* How what is offered may change. *)

offered == [p \in Path |-> Offers(p)]

(* A change of what one path is offered with is a step of the publication. *)
LEMMA OfferChanges ==
  ASSUME NEW p \in Path, NEW m \in Messages, m.path = p,
         \A q \in Path \ {p} : Offers(q)' = Offers(q),
         \/ Offers(p)' = Offers(p)
         \/ Offers(p)' = {}
         \/ Offers(p) = {} /\ Offers(p)' \in {{OfferIn(m)}, {Publisher!Untold(OfferIn(m))}}
         \/ Offers(p) = {Publisher!Untold(OfferIn(m))} /\ Offers(p)' = {OfferIn(m)}
  PROVE  Publisher!Next \/ UNCHANGED offered
<1>1. OfferIn(m) \in Sent /\ OfferIn(m).path = p
  BY DEF Messages, Sent, OfferIn
<1>2. offered[p] = Offers(p) /\ offered' = [offered EXCEPT ![p] = Offers(p)']
  BY DEF offered
<1>3. CASE Offers(p)' = Offers(p)
  BY <1>3 DEF offered
<1>4. CASE Offers(p)' = {}
  BY <1>2, <1>4 DEF offered, Publisher!Withdraw, Publisher!Next
<1>5. CASE Offers(p) = {} /\ Offers(p)' \in {{OfferIn(m)}, {Publisher!Untold(OfferIn(m))}}
  <2>1. Publisher!Publish(p)
    BY <1>1, <1>2, <1>5 DEF offered, Publisher!Publish
  <2> QED BY <2>1 DEF Publisher!Next
<1>6. CASE Offers(p) = {Publisher!Untold(OfferIn(m))} /\ Offers(p)' = {OfferIn(m)}
  <2>1. Publisher!TellReferences(p)
    BY <1>1, <1>2, <1>6 DEF offered, Publisher!TellReferences
  <2> QED BY <2>1 DEF Publisher!Next
<1> QED BY <1>3, <1>4, <1>5, <1>6

(* A path is offered with what its own narinfo and its own NAR say. *)
LEMMA OffersOfOthers ==
  ASSUME InfoInv, InfoInv', NEW p, NEW q, q # p,
         q \in DOMAIN info <=> q \in DOMAIN info', q \in DOMAIN info => info'[q] = info[q],
         q \in DOMAIN nar <=> q \in DOMAIN nar', q \in DOMAIN nar => nar'[q] = nar[q]
  PROVE  Offers(q)' = Offers(q)
<1>1. CASE q \notin DOMAIN info
  <2>1. NoOffersWithout /\ NoOffersWithout'
    BY NoOffers, PTL
  <2> QED BY <1>1, <2>1 DEF NoOffersWithout
<1>2. CASE q \in DOMAIN info
  <2>1. PICK m \in Messages, k \in 0..6 : m.path = q /\ info[q] = LinesOf(m, k)
    BY <1>2 DEF InfoInv
  <2>2. OffersAsLines /\ OffersAsLines'
    BY OffersAre, PTL
  <2>3. Offers(q) = OffersOf(m, k) /\ Offers(q)' = OffersOf(m, k)'
    BY <1>2, <2>1, <2>2 DEF OffersAsLines
  <2>4. OffersOf(m, k)' = OffersOf(m, k)
    BY <2>1 DEF OffersOf, InFull
  <2> QED BY <2>3, <2>4
<1> QED BY <1>1, <1>2

-----------------------------------------------------------------------------
(* What is written. *)

(* One more line. *)
LEMMA LinesGrow ==
  ASSUME NEW m, NEW k \in 1..6
  PROVE  With(LinesOf(m, k - 1), Keys[k], LineOf(m, Keys[k])) = LinesOf(m, k)
<1> DEFINE Before == {Keys[i] : i \in 1..k - 1}
           Now == {Keys[i] : i \in 1..k}
<1>1. Now = Before \cup {Keys[k]}
  <2>1. 1..k = (1..k - 1) \cup {k}
    OBVIOUS
  <2> QED BY <2>1
<1>2. LinesOf(m, k - 1) = [key \in Before |-> LineOf(m, key)] /\ LinesOf(m, k) = [key \in Now |-> LineOf(m, key)]
  BY DEF LinesOf
<1> HIDE DEF Before, Now
<1> QED BY <1>1, <1>2 DEF With

(* The NAR being written is one that was sent. *)
LEMMA MsgNarIs ==
  ASSUME PositionInv, n <= Len(arch.nars)
  PROVE  msgNar \in Messages /\ msgNar.path \in Path
<1>1. arch \in Archive /\ arch.nars \in Seq(ToSet(arch.nars)) /\ n \in 1..Len(arch.nars)
  BY BinaryCacheAssumption DEF PositionInv
<1>2. msgNar \in ToSet(arch.nars)
  <2> DEFINE S == ToSet(arch.nars)
  <2>1. arch.nars \in Seq(S)
    BY <1>1
  <2> HIDE DEF S
  <2>2. arch.nars[n] \in S
    BY <1>1, <2>1, ElementOfSeq
  <2> QED BY <2>2 DEF S, msgNar
<1> QED BY <1>1, <1>2, BinaryCacheAssumption DEF Messages

(* Whatever becomes of its NAR, a path keeps its narinfo: it is offered as *)
(* this says, or not.                                                      *)
LEMMA NarWritten ==
  ASSUME InfoInv, UNCHANGED info, NEW m \in Messages, m.path \in Path,
         \A q \in Path \ {m.path} : /\ q \in DOMAIN nar <=> q \in DOMAIN nar'
                                    /\ q \in DOMAIN nar => nar'[q] = nar[q]
  PROVE  InfoInv' /\ (Publisher!Next \/ UNCHANGED offered)
<1>1. InfoInv'
  BY DEF InfoInv
<1>2. \A q \in Path \ {m.path} : Offers(q)' = Offers(q)
  BY <1>1, OffersOfOthers
<1>3. CASE m.path \notin DOMAIN info
  <2>1. NoOffersWithout /\ NoOffersWithout'
    BY NoOffers, PTL
  <2> QED BY <1>1, <1>2, <1>3, <2>1, OfferChanges DEF NoOffersWithout
<1>4. CASE m.path \in DOMAIN info
  <2>1. PICK told \in Messages, k \in 0..6 : told.path = m.path /\ info[m.path] = LinesOf(told, k)
    BY <1>4 DEF InfoInv
  <2>2. OffersAsLines /\ OffersAsLines'
    BY OffersAre, PTL
  <2>3. Offers(m.path) = OffersOf(told, k) /\ Offers(m.path)' = OffersOf(told, k)'
    BY <1>4, <2>1, <2>2 DEF OffersAsLines
  <2>4. /\ OffersOf(told, k) \in {{}, IF k = 5 THEN {Publisher!Untold(OfferIn(told))} ELSE {OfferIn(told)}}
        /\ OffersOf(told, k)' \in {{}, IF k = 5 THEN {Publisher!Untold(OfferIn(told))} ELSE {OfferIn(told)}}
    BY DEF OffersOf
  <2>5. \/ Offers(m.path)' = Offers(m.path)
        \/ Offers(m.path)' = {}
        \/ /\ Offers(m.path) = {}
           /\ Offers(m.path)' \in {{OfferIn(told)}, {Publisher!Untold(OfferIn(told))}}
    BY <2>3, <2>4
  <2> QED BY <1>1, <1>2, <2>1, <2>5, OfferChanges
<1> QED BY <1>3, <1>4

(* A narinfo that is begun, or has one more line. *)
LEMMA InfoWritten ==
  ASSUME InfoInv, UNCHANGED nar, NEW m \in Messages, m.path \in Path, NEW k \in 0..6,
         info' = With(info, m.path, LinesOf(m, k)),
         k > 0 => m.path \in DOMAIN info /\ info[m.path] = LinesOf(m, k - 1)
  PROVE  InfoInv' /\ (Publisher!Next \/ UNCHANGED offered)
<1>1. /\ DOMAIN info' = DOMAIN info \cup {m.path} /\ info'[m.path] = LinesOf(m, k)
      /\ \A q \in DOMAIN info : q # m.path => info'[q] = info[q]
  <2>1. PICK x, v : x = m.path /\ v = LinesOf(m, k) /\ info' = With(info, x, v)
    OBVIOUS
  <2>2. /\ DOMAIN info' = DOMAIN info \cup {x} /\ info'[x] = v
        /\ \A q \in DOMAIN info : q # x => info'[q] = info[q]
    BY <2>1 DEF With
  <2> QED BY <2>1, <2>2
<1>2. InfoInv'
  <2> SUFFICES ASSUME NEW p \in DOMAIN info'
               PROVE  \E msg \in Messages, l \in 0..6 : msg.path = p /\ info'[p] = LinesOf(msg, l)
    BY DEF InfoInv
  <2>1. CASE p = m.path
    BY <1>1, <2>1
  <2>2. CASE p # m.path
    BY <1>1, <2>2 DEF InfoInv
  <2> QED BY <2>1, <2>2
<1>3. \A q \in Path \ {m.path} : Offers(q)' = Offers(q)
  BY <1>1, <1>2, OffersOfOthers
<1>4. OffersAsLines /\ OffersAsLines'
  BY OffersAre, PTL
<1>5. Offers(m.path)' = OffersOf(m, k)' /\ OffersOf(m, k)' = OffersOf(m, k)
  <2>1. OffersOf(m, k)' = OffersOf(m, k)
    BY DEF OffersOf, InFull
  <2>2. m.path \in DOMAIN info' /\ info'[m.path] = LinesOf(m, k)
    BY <1>1
  <2>3. Offers(m.path)' = OffersOf(m, k)'
    BY <1>4, <2>2 DEF OffersAsLines
  <2> QED BY <2>1, <2>3
<1>6. CASE k < 5
  BY <1>2, <1>3, <1>5, <1>6, OfferChanges DEF OffersOf
<1>7. CASE k >= 5
  <2>1. Offers(m.path) = OffersOf(m, k - 1)
    <3>1. k - 1 \in 0..6 /\ m.path \in DOMAIN info /\ info[m.path] = LinesOf(m, k - 1)
      BY <1>7
    <3> QED BY <1>4, <3>1 DEF OffersAsLines
  <2>2. CASE k = 5
    <3>1. Offers(m.path) = {} /\ Offers(m.path)' \in {{}, {Publisher!Untold(OfferIn(m))}}
      BY <1>5, <2>1, <2>2 DEF OffersOf
    <3> QED BY <1>2, <1>3, <3>1, OfferChanges
  <2>3. CASE k = 6
    <3>1. \/ Offers(m.path) = {Publisher!Untold(OfferIn(m))} /\ Offers(m.path)' = {OfferIn(m)}
          \/ Offers(m.path)' = {}
      BY <1>5, <2>1, <2>3 DEF OffersOf
    <3> QED BY <1>2, <1>3, <3>1, OfferChanges
  <2> QED BY <1>7, <2>2, <2>3
<1> QED BY <1>6, <1>7

-----------------------------------------------------------------------------
(* dnar-unpack and its readers. *)

(* A cache that is not there yet. *)
LEMMA CacheInitInv == BinaryCacheInit => CacheInv /\ Publisher!Init /\ OpenTempChunkStore
<1> SUFFICES ASSUME BinaryCacheInit PROVE CacheInv /\ Publisher!Init /\ OpenTempChunkStore
  OBVIOUS
<1>1. DOMAIN info = {} /\ pc = "idle" /\ arch \in Archive /\ n = 1 /\ OpenTempChunkStore
  BY DEF BinaryCacheInit
<1>2. InfoInv /\ PositionInv
  BY <1>1 DEF InfoInv, PositionInv
<1>3. Publisher!Init
  BY <1>1, NoOffers DEF NoOffersWithout, Publisher!Init
<1> QED BY <1>1, <1>2, <1>3 DEF CacheInv

(* What changes no file of the cache changes no offer. *)
LEMMA CacheSame ==
  ASSUME InfoInv, UNCHANGED <<nar, info>>
  PROVE  InfoInv' /\ UNCHANGED offered
BY DEF InfoInv, offered, Offers, Verified

(* The archive is read and the store filled, or the cache begun. *)
LEMMA ReadingKeeps ==
  ASSUME CacheInv,
         (\E a \in Archive : Start(a)) \/ ReadChunkMessage \/ MapChunks \/ Create \/ WriteCacheInfo
           \/ EndNARInfo \/ Complete \/ Stop \/ ReaderStep
  PROVE  CacheInv' /\ UNCHANGED offered
<1>1. InfoInv /\ PositionInv /\ UNCHANGED <<nar, info>>
  BY DEF CacheInv, Start, ReadChunkMessage, MapChunks, Create, WriteCacheInfo, EndNARInfo, Complete,
         Stop, ReaderStep, TakeNar, ReadInfo, cacheVars
<1>2. InfoInv' /\ UNCHANGED offered
  BY <1>1, CacheSame
<1>3. PositionInv'
  <2> USE DEF PositionInv
  <2>1. CASE \E a \in Archive : Start(a)
    BY <1>1, <2>1 DEF Start, Reopen
  <2>2. CASE ReadChunkMessage
    BY <1>1, <2>2 DEF ReadChunkMessage, WriteChunk, runVars
  <2>3. CASE MapChunks
    BY <1>1, <2>3 DEF MapChunks
  <2>4. CASE Create \/ WriteCacheInfo \/ Complete \/ Stop
    BY <1>1, <2>4 DEF Create, WriteCacheInfo, Complete, Stop, chunkStoreVars
  <2>5. CASE EndNARInfo
    BY <1>1, <2>5 DEF EndNARInfo, chunkStoreVars
  <2>6. CASE ReaderStep
    <3>1. UNCHANGED <<arch, n, pc, line, buf, info>>
      BY <2>6 DEF ReaderStep, TakeNar, ReadInfo, chunkStoreVars, cacheVars, runVars
    <3> QED BY <1>1, <3>1 DEF msgNar
  <2> QED BY <2>1, <2>2, <2>3, <2>4, <2>5, <2>6
<1> QED BY <1>2, <1>3 DEF CacheInv

(* The NAR is begun, or gets a piece. *)
LEMMA NarKeeps ==
  ASSUME CacheInv, CreateNAR \/ WritePiece
  PROVE  CacheInv' /\ (Publisher!Next \/ UNCHANGED offered)
<1>1. InfoInv /\ PositionInv /\ n <= Len(arch.nars) /\ UNCHANGED <<info, arch, n, buf>>
  BY DEF CacheInv, PositionInv, CreateNAR, WritePiece, chunkStoreVars
<1>2. msgNar \in Messages /\ msgNar.path \in Path
  BY <1>1, MsgNarIs
<1>3. \A q \in Path \ {msgNar.path} : /\ q \in DOMAIN nar <=> q \in DOMAIN nar'
                                      /\ q \in DOMAIN nar => nar'[q] = nar[q]
  <2>1. CASE CreateNAR
    <3>1. PICK x : x = msgNar.path /\ nar' = With(nar, x, <<>>)
      BY <2>1 DEF CreateNAR
    <3> QED BY <3>1 DEF With
  <2>2. CASE WritePiece
    BY <2>2 DEF WritePiece
  <2> QED BY <2>1, <2>2
<1>4. InfoInv' /\ (Publisher!Next \/ UNCHANGED offered)
  BY <1>1, <1>2, <1>3, NarWritten
<1>5. pc' \in {"pieces", "stopped"}
  BY DEF CreateNAR, WritePiece
<1>6. PositionInv'
  BY <1>1, <1>5 DEF PositionInv
<1> QED BY <1>4, <1>6 DEF CacheInv

(* The narinfo is begun, or gets a line. *)
LEMMA NarInfoKeeps ==
  ASSUME CacheInv, CreateNARInfo \/ WriteLine
  PROVE  CacheInv' /\ (Publisher!Next \/ UNCHANGED offered)
<1>1. InfoInv /\ PositionInv /\ n <= Len(arch.nars) /\ UNCHANGED <<nar, arch, n, buf>>
  BY DEF CacheInv, PositionInv, CreateNARInfo, WriteLine, chunkStoreVars
<1>2. msgNar \in Messages /\ msgNar.path \in Path /\ UNCHANGED msgNar
  BY <1>1, MsgNarIs DEF msgNar
<1>3. PICK k \in 0..6 :
        /\ info' = With(info, msgNar.path, LinesOf(msgNar, k))
        /\ k > 0 => msgNar.path \in DOMAIN info /\ info[msgNar.path] = LinesOf(msgNar, k - 1)
        /\ pc' = "lines" /\ line' = k + 1
  <2>1. CASE CreateNARInfo
    <3>1. LinesOf(msgNar, 0) = [key \in {} |-> {}]
      <4>1. {Keys[i] : i \in 1..0} = {}
        OBVIOUS
      <4> QED BY <4>1 DEF LinesOf
    <3> QED BY <2>1, <3>1 DEF CreateNARInfo
  <2>2. CASE WriteLine
    <3>1. /\ line \in 1..6 /\ pc = "lines" /\ pc' = pc /\ line' = line + 1
          /\ msgNar.path \in DOMAIN info /\ info[msgNar.path] = LinesOf(msgNar, line - 1)
          /\ info' = [info EXCEPT ![msgNar.path] =
                        With(info[msgNar.path], Keys[line], LineOf(msgNar, Keys[line]))]
      BY <1>1, <2>2 DEF WriteLine, PositionInv, Keys
    <3>2. info' = [info EXCEPT ![msgNar.path] = LinesOf(msgNar, line)]
      BY <3>1, LinesGrow
    <3>3. info' = With(info, msgNar.path, LinesOf(msgNar, line))
      <4>1. PICK x, v : x = msgNar.path /\ v = LinesOf(msgNar, line)
        OBVIOUS
      <4>2. info' = [info EXCEPT ![x] = v] /\ x \in DOMAIN info
        BY <3>1, <3>2, <4>1
      <4>3. [info EXCEPT ![x] = v] = With(info, x, v)
        BY <4>2 DEF With
      <4> QED BY <4>1, <4>2, <4>3
    <3>4. /\ line \in 0..6 /\ pc' = "lines"
          /\ line > 0 => msgNar.path \in DOMAIN info /\ info[msgNar.path] = LinesOf(msgNar, line - 1)
      BY <3>1
    <3> QED BY <3>1, <3>3, <3>4
  <2> QED BY <2>1, <2>2
<1>4. InfoInv' /\ (Publisher!Next \/ UNCHANGED offered)
  BY <1>1, <1>2, <1>3, InfoWritten
<1>5. PositionInv'
  <2>1. msgNar.path \in DOMAIN info' /\ info'[msgNar.path] = LinesOf(msgNar, k)
    <3>1. PICK x, v : x = msgNar.path /\ v = LinesOf(msgNar, k) /\ info' = With(info, x, v)
      BY <1>3
    <3> QED BY <3>1 DEF With
  <2>2. line' \in 1..7 /\ line' - 1 = k
    BY <1>3
  <2> QED BY <1>1, <1>2, <1>3, <2>1, <2>2 DEF PositionInv
<1> QED BY <1>4, <1>5 DEF CacheInv

(* Every step keeps the invariant and is one of the publication. *)
LEMMA CacheNextInv ==
  CacheInv /\ [BinaryCacheNext]_binaryCacheVars => CacheInv' /\ [Publisher!Next]_offered
<1> SUFFICES ASSUME CacheInv, [BinaryCacheNext]_binaryCacheVars
             PROVE  CacheInv' /\ [Publisher!Next]_offered
  OBVIOUS
<1>1. CASE \/ \E a \in Archive : Start(a)
           \/ ReadChunkMessage \/ MapChunks \/ Create \/ WriteCacheInfo
           \/ EndNARInfo \/ Complete \/ Stop \/ ReaderStep
  BY <1>1, ReadingKeeps
<1>2. CASE CreateNAR \/ WritePiece
  BY <1>2, NarKeeps
<1>3. CASE CreateNARInfo \/ WriteLine
  BY <1>3, NarInfoKeeps
<1>4. CASE UNCHANGED binaryCacheVars
  <2>1. UNCHANGED <<nar, info, arch, n, pc, line, buf>>
    BY <1>4 DEF binaryCacheVars, chunkStoreVars, cacheVars, runVars
  <2>2. InfoInv' /\ UNCHANGED offered
    BY <2>1, CacheSame DEF CacheInv
  <2>3. PositionInv'
    BY <2>1 DEF CacheInv, PositionInv, msgNar
  <2> QED BY <2>2, <2>3 DEF CacheInv
<1> QED BY <1>1, <1>2, <1>3, <1>4 DEF BinaryCacheNext, UnpackerStep

(* Each narinfo holds the first lines of that of one NAR sent, and while   *)
(* one is being written, those of its own (binary-cache.go:53-87).         *)
THEOREM CacheInvariant == BinaryCacheSpec => []CacheInv
BY CacheInitInv, CacheNextInv, PTL DEF BinaryCacheSpec

(* Stopped anywhere and started again with any archive, dnar-unpack        *)
(* publishes as Publication says: no path goes from one offer to another   *)
(* without being withdrawn between them.                                   *)
THEOREM CachePublishes == BinaryCacheSpec => Publishes
<1>1. BinaryCacheInit => Publisher!Init
  BY CacheInitInv
<1>2. CacheInv /\ [BinaryCacheNext]_binaryCacheVars => [Publisher!Next]_([p \in Path |-> Offers(p)])
  BY CacheNextInv DEF offered
<1> QED BY CacheInvariant, <1>1, <1>2, PTL DEF BinaryCacheSpec, Publishes, Publisher!Spec

-----------------------------------------------------------------------------
(* The store as the cache uses it. *)

(* What dnar-unpack does with the store is what the store is for. *)
LEMMA StoreStep ==
  CacheInv /\ StoreInv /\ [BinaryCacheNext]_binaryCacheVars => [ChunkStoreNext]_chunkStoreVars
<1> SUFFICES ASSUME CacheInv, StoreInv, BinaryCacheNext
             PROVE  ChunkStoreNext \/ UNCHANGED chunkStoreVars
  BY DEF binaryCacheVars, chunkStoreVars
<1>1. CASE \E a \in Archive : Start(a)
  BY <1>1 DEF Start, ChunkStoreNext
<1>2. CASE ReadChunkMessage
  <2>1. arch.chunks \in Seq(Seq(Byte)) /\ buf = <<>> /\ Len(entries) \in Nat
    BY <1>2, BinaryCacheAssumption DEF ReadChunkMessage, CacheInv, PositionInv, StoreInv
  <2>2. Len(entries) + 1 \in 1..Len(arch.chunks)
    BY <1>2, <2>1 DEF ReadChunkMessage
  <2>3. arch.chunks[Len(entries) + 1] \in Seq(Byte)
    BY <2>1, <2>2, ElementOfSeq
  <2> QED BY <1>2, <2>1, <2>3 DEF ReadChunkMessage, ChunkStoreNext
<1>3. CASE MapChunks
  BY <1>3 DEF MapChunks, ChunkStoreNext
<1>4. CASE \/ Create \/ WriteCacheInfo \/ CreateNAR \/ WritePiece \/ CreateNARInfo \/ WriteLine
           \/ EndNARInfo \/ Complete \/ Stop \/ ReaderStep
  BY <1>4 DEF Create, WriteCacheInfo, CreateNAR, WritePiece, CreateNARInfo, WriteLine, EndNARInfo,
              Complete, Stop, ReaderStep, TakeNar, ReadInfo
<1> QED BY <1>1, <1>2, <1>3, <1>4 DEF BinaryCacheNext, UnpackerStep

LEMMA CacheStoreInvariant == BinaryCacheSpec => []StoreInv
<1>1. BinaryCacheInit => OpenTempChunkStore
  BY CacheInitInv
<1>2. CacheInv /\ StoreInv /\ [BinaryCacheNext]_binaryCacheVars => StoreInv'
  BY StoreStep, StoreNextInv
<1> QED BY CacheInvariant, <1>1, <1>2, OpenInv, PTL DEF BinaryCacheSpec

(* The cache fills and maps the store as the store expects: never after it *)
(* has been mapped (read.go:38-69, binary-cache.go:102-112).               *)
THEOREM CacheUsesStore == BinaryCacheSpec => ChunkStoreSpec
<1>1. BinaryCacheInit => OpenTempChunkStore
  BY CacheInitInv
<1> QED BY CacheInvariant, <1>1, CacheStoreInvariant, StoreStep, PTL DEF BinaryCacheSpec, ChunkStoreSpec

(* So each payload the NARs are made of is the one the archive brought.    *)
THEOREM CacheKeepsChunks == BinaryCacheSpec => []ChunksKept
BY CacheUsesStore, StoreKeepsChunks, PTL

-----------------------------------------------------------------------------
(* A run that completes. *)

PieceOf(m, i) == IF m.pieces[i].own THEN m.pieces[i].bytes ELSE arch.chunks[m.pieces[i].index]

FirstPieces(m, k) == [i \in 1..k |-> PieceOf(m, i)]

Written(m) == m.path \in DOMAIN nar /\ nar[m.path] = BytesOf(m, arch.chunks)

Described(m) == m.path \in DOMAIN info /\ info[m.path] = LinesOf(m, 6)

(* The NARs before this one, and their narinfos, are there in full.        *)
EarlierWhole == \A j \in 1..n - 1 : Written(arch.nars[j]) /\ Described(arch.nars[j])

(* The store has the payloads of the archive, and the NAR being written    *)
(* the pieces before this one.                                             *)
WholeInv ==
  /\ pc = "chunks" => Len(given) <= Len(arch.chunks) /\ \A i \in 1..Len(given) : given[i] = arch.chunks[i]
  /\ pc \in {"create", "cacheInfo", "nar", "pieces", "lines", "complete"} =>
       buf = file /\ given = arch.chunks
  /\ pc \in {"chunks", "create", "cacheInfo"} => n = 1
  /\ pc \in {"cacheInfo", "nar", "pieces", "lines", "complete"} =>
       cacheInfo # "absent" /\ n <= Len(arch.nars) + 1 /\ EarlierWhole
  /\ pc = "complete" => n = Len(arch.nars) + 1
  /\ pc = "pieces" =>
       /\ piece \in 1..Len(msgNar.pieces) + 1 /\ msgNar.path \in DOMAIN nar
       /\ nar[msgNar.path] = FlattenSeq(FirstPieces(msgNar, piece - 1))
       /\ \A i \in 1..piece - 1 : PieceOf(msgNar, i) \in Seq(Byte)
  /\ pc = "lines" => Written(msgNar)

(* One more piece. *)
LEMMA PiecesGrow ==
  ASSUME NEW m, NEW k \in Nat, NEW l, l = k + 1, \A i \in 1..l : PieceOf(m, i) \in Seq(Byte)
  PROVE  FlattenSeq(FirstPieces(m, l)) = FlattenSeq(FirstPieces(m, k)) \o PieceOf(m, l)
<1>1. PICK s, t : s = FirstPieces(m, k) /\ t = PieceOf(m, l)
  OBVIOUS
<1>2. /\ s \in Seq(Seq(Byte)) /\ Len(s) = k /\ t \in Seq(Byte)
      /\ \A i \in 1..k : s[i] = PieceOf(m, i)
  <2>1. s = [i \in 1..k |-> PieceOf(m, i)] /\ \A i \in 1..k : PieceOf(m, i) \in Seq(Byte)
    BY <1>1 DEF FirstPieces
  <2>2. s \in Seq(Seq(Byte)) /\ Len(s) = k
    BY <2>1
  <2> QED BY <1>1, <2>1, <2>2
<1>3. PICK u : u = FirstPieces(m, l)
  OBVIOUS
<1>4. u \in Seq(Seq(Byte)) /\ Len(u) = l /\ \A i \in 1..l : u[i] = PieceOf(m, i)
  BY <1>3 DEF FirstPieces
<1>5. PICK v : v = Append(s, t)
  OBVIOUS
<1>6. /\ v \in Seq(Seq(Byte)) /\ Len(v) = l /\ v[l] = t /\ \A i \in 1..k : v[i] = s[i]
  BY <1>2, <1>5
<1>7. \A i \in 1..l : u[i] = v[i]
  BY <1>1, <1>2, <1>4, <1>6
<1>8. u = v
  BY <1>4, <1>6, <1>7, SeqEqual
<1>9. FlattenSeq(Append(s, t)) = FlattenSeq(s) \o t
  BY <1>2, FlattenAppend
<1> QED BY <1>1, <1>3, <1>5, <1>8, <1>9

(* All of them make up the NAR. *)
LEMMA AllPieces ==
  ASSUME NEW m, NEW X, m.pieces \in Seq(X)
  PROVE  FlattenSeq(FirstPieces(m, Len(m.pieces))) = BytesOf(m, arch.chunks)
<1>1. DOMAIN m.pieces = 1..Len(m.pieces)
  OBVIOUS
<1> QED BY <1>1 DEF FirstPieces, PieceOf, BytesOf

(* A write to the files of one NAR leaves the earlier ones as they are.    *)
LEMMA EarlierStays ==
  ASSUME PositionInv, EarlierWhole, UNCHANGED <<arch, n>>, n <= Len(arch.nars),
         \A p \in Path \ {msgNar.path} :
           /\ p \in DOMAIN nar => p \in DOMAIN nar' /\ nar'[p] = nar[p]
           /\ p \in DOMAIN info => p \in DOMAIN info' /\ info'[p] = info[p]
  PROVE  EarlierWhole'
<1> SUFFICES ASSUME NEW j \in 1..n - 1
             PROVE  Written(arch.nars[j])' /\ Described(arch.nars[j])'
  BY DEF EarlierWhole
<1>1. n \in Nat /\ j \in 1..Len(arch.nars) /\ n \in 1..Len(arch.nars) /\ j # n
  <2>1. n \in Nat /\ Len(arch.nars) \in Nat
    BY BinaryCacheAssumption DEF PositionInv
  <2> QED BY <2>1 DEF PositionInv
<1>2. PICK m : m = arch.nars[j] /\ m \in ToSet(arch.nars) /\ m.path \in Path /\ m.path # msgNar.path
  <2>1. /\ arch \in Archive /\ arch.nars \in Seq(ToSet(arch.nars))
        /\ \A m \in ToSet(arch.nars) : m.path \in Path
        /\ \A i, k \in DOMAIN arch.nars : arch.nars[i].path = arch.nars[k].path => i = k
    BY BinaryCacheAssumption DEF PositionInv
  <2>2. j \in DOMAIN arch.nars /\ n \in DOMAIN arch.nars
    BY <1>1, <2>1
  <2>3. arch.nars[j] \in ToSet(arch.nars)
    BY <2>2 DEF ToSet
  <2> QED BY <1>1, <2>1, <2>2, <2>3 DEF msgNar
<1>3. Written(m) /\ Described(m)
  BY <1>2 DEF EarlierWhole
<1>4. Written(m)' /\ Described(m)'
  BY <1>2, <1>3 DEF Written, Described
<1> QED BY <1>2, <1>4

(* The archive is read. *)
LEMMA ReadingWhole ==
  ASSUME CacheInv, StoreInv, WholeInv, (\E a \in Archive : Start(a)) \/ ReadChunkMessage \/ MapChunks
  PROVE  WholeInv'
<1>1. /\ Len(entries) = Len(given) /\ given \in Seq(Seq(Byte)) /\ file \in Seq(Byte) /\ size = Len(file)
      /\ arch.chunks \in Seq(Seq(Byte))
  BY BinaryCacheAssumption DEF StoreInv, CacheInv, PositionInv
<1>2. CASE \E a \in Archive : Start(a)
  <2>1. given' = <<>> /\ pc' = "chunks" /\ n' = 1 /\ arch' \in Archive
    BY <1>2 DEF Start, Reopen
  <2>2. arch'.chunks \in Seq(Seq(Byte))
    BY <2>1, BinaryCacheAssumption
  <2> QED BY <2>1, <2>2 DEF WholeInv
<1>3. CASE ReadChunkMessage
  <2>1. PICK chunks, k, data : chunks = arch.chunks /\ k = Len(given) /\ data = chunks[k + 1]
    OBVIOUS
  <2>2. /\ pc = "chunks" /\ k < Len(chunks) /\ given' = Append(given, data)
        /\ UNCHANGED <<pc, arch, n>>
    BY <1>1, <1>3, <2>1 DEF ReadChunkMessage, WriteChunk, runVars
  <2>3. k \in Nat /\ k + 1 \in 1..Len(chunks) /\ data \in Seq(Byte)
    BY <1>1, <2>1, <2>2, ElementOfSeq
  <2>4. Len(given') = k + 1 /\ given'[k + 1] = data /\ \A i \in 1..k : given'[i] = given[i]
    BY <1>1, <2>1, <2>2, <2>3
  <2>5. \A i \in 1..k : given[i] = chunks[i]
    BY <2>1, <2>2 DEF WholeInv
  <2>6. \A i \in 1..k + 1 : given'[i] = chunks[i]
    BY <2>1, <2>3, <2>4, <2>5
  <2> QED BY <2>1, <2>2, <2>3, <2>4, <2>6 DEF WholeInv
<1>4. CASE MapChunks
  <2>1. /\ pc = "chunks" /\ pc' = "create" /\ Len(given) = Len(arch.chunks)
        /\ buf' = (IF size = 0 THEN <<>> ELSE SubSeq(file, 1, size))
        /\ UNCHANGED <<file, given, arch, n>>
    BY <1>1, <1>4 DEF MapChunks, Map
  <2>2. buf' = file
    BY <1>1, <2>1
  <2>3. \A i \in 1..Len(given) : given[i] = arch.chunks[i]
    BY <2>1 DEF WholeInv
  <2>4. given = arch.chunks
    BY <1>1, <2>1, <2>3, SeqEqual
  <2> QED BY <2>1, <2>2, <2>4 DEF WholeInv
<1> QED BY <1>2, <1>3, <1>4

(* nix-cache-info is made, a NAR and its narinfo have ended, or all have.  *)
LEMMA BetweenWhole ==
  ASSUME CacheInv, WholeInv, Create \/ WriteCacheInfo \/ EndNARInfo \/ Complete
  PROVE  WholeInv'
<1>1. UNCHANGED <<file, buf, given, nar, info, arch>>
  BY DEF Create, WriteCacheInfo, EndNARInfo, Complete, chunkStoreVars, cacheVars
<1>2. n \in Nat \ {0} /\ Len(arch.nars) \in Nat
  BY BinaryCacheAssumption DEF CacheInv, PositionInv
<1>3. CASE Create
  <2>1. pc = "create" /\ n' = 1 /\ pc' \in {"cacheInfo", "nar"} /\ cacheInfo' # "absent"
    BY <1>3 DEF Create, WholeInv
  <2>2. EarlierWhole'
    BY <2>1 DEF EarlierWhole
  <2> QED BY <1>1, <1>2, <2>1, <2>2 DEF WholeInv
<1>4. CASE WriteCacheInfo
  <2>1. pc = "cacheInfo" /\ n' = n /\ n = 1 /\ pc' = "nar" /\ cacheInfo' # "absent"
    BY <1>4 DEF WriteCacheInfo, WholeInv
  <2>2. EarlierWhole'
    BY <2>1 DEF EarlierWhole
  <2> QED BY <1>1, <1>2, <2>1, <2>2 DEF WholeInv
<1>5. CASE EndNARInfo
  <2>1. pc = "lines" /\ line > Len(Keys) /\ n' = n + 1 /\ pc' = "nar" /\ UNCHANGED cacheInfo
    BY <1>5 DEF EndNARInfo, cacheVars
  <2>2. Len(Keys) = 6
    BY DEF Keys
  <2>3. line = 7 /\ n <= Len(arch.nars) /\ Described(msgNar)
    BY <2>1, <2>2 DEF CacheInv, PositionInv, Described
  <2>4. Written(msgNar) /\ EarlierWhole /\ cacheInfo # "absent" /\ buf = file /\ given = arch.chunks
    BY <2>1 DEF WholeInv
  <2>5. \A j \in 1..n : Written(arch.nars[j]) /\ Described(arch.nars[j])
    BY <1>2, <2>3, <2>4 DEF EarlierWhole, msgNar
  <2>6. EarlierWhole'
    BY <1>1, <1>2, <2>1, <2>5 DEF EarlierWhole, Written, Described
  <2> QED BY <1>1, <1>2, <2>1, <2>3, <2>4, <2>6 DEF WholeInv
<1>6. CASE Complete
  <2>1. pc = "nar" /\ n > Len(arch.nars) /\ pc' = "complete" /\ UNCHANGED <<cacheInfo, n>>
    BY <1>6 DEF Complete, cacheVars
  <2>2. n <= Len(arch.nars) + 1 /\ EarlierWhole /\ cacheInfo # "absent" /\ buf = file /\ given = arch.chunks
    BY <2>1 DEF WholeInv
  <2>3. EarlierWhole'
    BY <1>1, <2>1, <2>2 DEF EarlierWhole, Written, Described
  <2> QED BY <1>1, <1>2, <2>1, <2>2, <2>3 DEF WholeInv
<1> QED BY <1>3, <1>4, <1>5, <1>6

(* The NAR is begun. *)
LEMMA CreateNARWhole ==
  ASSUME CacheInv, WholeInv, CreateNAR
  PROVE  WholeInv'
<1>1. PositionInv /\ n <= Len(arch.nars) /\ UNCHANGED <<file, buf, given, cacheInfo, info, arch, n>>
  BY DEF CacheInv, CreateNAR, chunkStoreVars
<1>2. /\ buf = file /\ given = arch.chunks /\ cacheInfo # "absent" /\ EarlierWhole
      /\ pc' = "pieces" /\ piece' = 1 /\ n <= Len(arch.nars) + 1
  BY DEF CreateNAR, WholeInv
<1>3. PICK x : x = msgNar.path /\ nar' = With(nar, x, <<>>)
  BY DEF CreateNAR
<1>4. /\ x \in DOMAIN nar' /\ nar'[x] = <<>>
      /\ \A p \in Path \ {x} : p \in DOMAIN nar => p \in DOMAIN nar' /\ nar'[p] = nar[p]
  BY <1>3 DEF With
<1>5. EarlierWhole'
  BY <1>1, <1>2, <1>3, <1>4, EarlierStays
<1>6. msgNar' = msgNar
  BY <1>1 DEF msgNar
<1>7. FirstPieces(msgNar, 0)' = <<>>
  BY DEF FirstPieces
<1>8. nar'[msgNar.path] = FlattenSeq(FirstPieces(msgNar, 0))'
  BY <1>3, <1>4, <1>7, FlattenEmpty
<1>9. Len(msgNar.pieces) \in Nat
  <2>1. msgNar \in Messages
    BY <1>1, MsgNarIs
  <2>2. msgNar.pieces \in Seq([own : BOOLEAN, bytes : Seq(Byte), index : Nat])
    BY <2>1, BinaryCacheAssumption DEF Messages
  <2> QED BY <2>2
<1>10. piece' - 1 = 0 /\ piece' \in 1..Len(msgNar.pieces) + 1
  BY <1>2, <1>9
<1> QED BY <1>1, <1>2, <1>3, <1>4, <1>5, <1>6, <1>8, <1>10 DEF WholeInv

(* It gets a piece of its own, or a payload: that of the archive. *)
LEMMA WritePieceWhole ==
  ASSUME CacheInv, StoreInv, WholeInv, WritePiece
  PROVE  WholeInv'
<1>1. /\ PositionInv /\ n <= Len(arch.nars) /\ pc = "pieces" /\ piece <= Len(msgNar.pieces)
      /\ UNCHANGED <<file, buf, given, entries, cacheInfo, info, arch, n>>
  BY DEF CacheInv, PositionInv, WritePiece, chunkStoreVars
<1>2. CASE pc' = "stopped"
  BY <1>2 DEF WholeInv
<1>3. CASE pc' # "stopped"
  <2>1. /\ buf = file /\ given = arch.chunks /\ cacheInfo # "absent" /\ EarlierWhole
        /\ n <= Len(arch.nars) + 1
    BY <1>1 DEF WholeInv
  <2>2. PICK m, this, bytes : /\ m = msgNar /\ this = m.pieces[piece]
                              /\ bytes = IF this.own THEN this.bytes ELSE ReadChunk(this.index)
    OBVIOUS
  <2>3. /\ this.own \/ this.index \in DOMAIN entries
        /\ nar' = [nar EXCEPT ![m.path] = nar[m.path] \o bytes] /\ piece' = piece + 1 /\ pc' = "pieces"
    BY <1>1, <1>3, <2>2 DEF WritePiece
  <2>4. m \in Messages /\ m.path \in Path /\ m.pieces \in Seq([own : BOOLEAN, bytes : Seq(Byte), index : Nat])
    <3>1. m \in Messages /\ m.path \in Path
      BY <1>1, <2>2, MsgNarIs
    <3> QED BY <3>1, BinaryCacheAssumption DEF Messages
  <2>5. PICK k, l : k = piece - 1 /\ l = piece
    OBVIOUS
  <2>6. /\ l \in 1..Len(m.pieces) /\ k \in Nat /\ l = k + 1 /\ m.path \in DOMAIN nar
        /\ nar[m.path] = FlattenSeq(FirstPieces(m, k))
        /\ \A i \in 1..k : PieceOf(m, i) \in Seq(Byte)
    BY <1>1, <2>2, <2>4, <2>5 DEF WholeInv
  <2>7. bytes = PieceOf(m, l) /\ bytes \in Seq(Byte)
    <3>1. CASE this.own
      <4>1. this \in [own : BOOLEAN, bytes : Seq(Byte), index : Nat]
        BY <2>2, <2>4, <2>5, <2>6, ElementOfSeq
      <4> QED BY <2>2, <2>5, <3>1, <4>1 DEF PieceOf
    <3>2. CASE ~this.own
      <4>1. ChunksKept
        BY StoreReads
      <4>2. this.index \in DOMAIN given /\ ReadChunk(this.index) = given[this.index]
        BY <2>1, <2>3, <3>2, <4>1 DEF ChunksKept
      <4>3. given[this.index] \in Seq(Byte)
        BY <4>2, ElementOfSeq DEF StoreInv
      <4> QED BY <2>1, <2>2, <2>5, <3>2, <4>2, <4>3 DEF PieceOf
    <3> QED BY <3>1, <3>2
  <2>8. \A i \in 1..l : PieceOf(m, i) \in Seq(Byte)
    <3>1. \A i \in 1..l : i = l \/ i \in 1..k
      BY <2>6
    <3> QED BY <2>6, <2>7, <3>1
  <2>9. nar[m.path] \o bytes = FlattenSeq(FirstPieces(m, l))
    BY <2>6, <2>7, <2>8, PiecesGrow
  <2>10. /\ m.path \in DOMAIN nar' /\ nar'[m.path] = FlattenSeq(FirstPieces(m, l))
         /\ \A p \in Path \ {m.path} : p \in DOMAIN nar => p \in DOMAIN nar' /\ nar'[p] = nar[p]
    BY <2>3, <2>6, <2>9
  <2>11. EarlierWhole'
    BY <1>1, <2>1, <2>2, <2>10, EarlierStays
  <2>12. /\ msgNar' = m /\ FirstPieces(m, l)' = FirstPieces(m, l)
         /\ \A i \in 1..l : PieceOf(m, i)' \in Seq(Byte)
    BY <1>1, <2>2, <2>8 DEF msgNar, FirstPieces, PieceOf
  <2>13. piece' - 1 = l /\ piece' \in 1..Len(m.pieces) + 1
    BY <2>3, <2>4, <2>5, <2>6
  <2> QED BY <1>1, <2>1, <2>3, <2>10, <2>11, <2>12, <2>13 DEF WholeInv
<1> QED BY <1>2, <1>3

(* Its narinfo is begun, when it has all pieces, or gets a line.           *)
LEMMA NarInfoWhole ==
  ASSUME CacheInv, WholeInv, CreateNARInfo \/ WriteLine
  PROVE  WholeInv'
<1>1. /\ PositionInv /\ n <= Len(arch.nars) /\ pc \in {"pieces", "lines"} /\ pc' = "lines"
      /\ UNCHANGED <<file, buf, given, cacheInfo, nar, arch, n>>
  BY DEF CacheInv, PositionInv, CreateNARInfo, WriteLine, chunkStoreVars
<1>2. /\ buf = file /\ given = arch.chunks /\ cacheInfo # "absent" /\ EarlierWhole
      /\ n <= Len(arch.nars) + 1
  BY <1>1 DEF WholeInv
<1>3. \A p \in Path \ {msgNar.path} : p \in DOMAIN info => p \in DOMAIN info' /\ info'[p] = info[p]
  <2>1. CASE CreateNARInfo
    <3>1. PICK x, v : x = msgNar.path /\ info' = With(info, x, v)
      BY <2>1 DEF CreateNARInfo
    <3> QED BY <3>1 DEF With
  <2>2. CASE WriteLine
    BY <2>2 DEF WriteLine
  <2> QED BY <2>1, <2>2
<1>4. EarlierWhole'
  BY <1>1, <1>2, <1>3, EarlierStays
<1>5. Written(msgNar)
  <2>1. CASE CreateNARInfo
    <3>1. msgNar.pieces \in Seq([own : BOOLEAN, bytes : Seq(Byte), index : Nat])
      <4>1. msgNar \in Messages
        BY <1>1, MsgNarIs
      <4> QED BY <4>1, BinaryCacheAssumption DEF Messages
    <3>2. /\ piece \in 1..Len(msgNar.pieces) + 1 /\ piece > Len(msgNar.pieces)
          /\ msgNar.path \in DOMAIN nar /\ nar[msgNar.path] = FlattenSeq(FirstPieces(msgNar, piece - 1))
      BY <2>1 DEF CreateNARInfo, WholeInv
    <3>3. piece - 1 = Len(msgNar.pieces)
      <4>1. Len(msgNar.pieces) \in Nat
        BY <3>1
      <4> QED BY <3>2, <4>1
    <3>4. FlattenSeq(FirstPieces(msgNar, Len(msgNar.pieces))) = BytesOf(msgNar, arch.chunks)
      BY <3>1, AllPieces
    <3> QED BY <3>2, <3>3, <3>4 DEF Written
  <2>2. CASE WriteLine
    BY <2>2 DEF WriteLine, WholeInv
  <2> QED BY <2>1, <2>2
<1>6. Written(msgNar)'
  BY <1>1, <1>5 DEF Written, msgNar
<1> QED BY <1>1, <1>2, <1>4, <1>6 DEF WholeInv

LEMMA WholeNextInv ==
  CacheInv /\ StoreInv /\ WholeInv /\ [BinaryCacheNext]_binaryCacheVars => WholeInv'
<1> SUFFICES ASSUME CacheInv, StoreInv, WholeInv, [BinaryCacheNext]_binaryCacheVars PROVE WholeInv'
  OBVIOUS
<1>1. CASE (\E a \in Archive : Start(a)) \/ ReadChunkMessage \/ MapChunks
  BY <1>1, ReadingWhole
<1>2. CASE Create \/ WriteCacheInfo \/ EndNARInfo \/ Complete
  BY <1>2, BetweenWhole
<1>3. CASE CreateNAR \/ WritePiece \/ CreateNARInfo \/ WriteLine
  BY <1>3, CreateNARWhole, WritePieceWhole, NarInfoWhole
<1>4. CASE Stop
  BY <1>4 DEF Stop, WholeInv
<1>5. CASE ReaderStep \/ UNCHANGED binaryCacheVars
  <2>1. UNCHANGED <<given, file, buf, cacheInfo, nar, info, pc, arch, n, piece, line>>
    BY <1>5 DEF ReaderStep, TakeNar, ReadInfo, binaryCacheVars, chunkStoreVars, cacheVars, runVars
  <2> QED BY <2>1 DEF WholeInv, EarlierWhole, Written, Described, msgNar, FirstPieces, PieceOf
<1> QED BY <1>1, <1>2, <1>3, <1>4, <1>5 DEF BinaryCacheNext, UnpackerStep

(* A run that completes has made the cache whole: with every NAR of its    *)
(* archive and its references, whatever runs that were stopped had left,   *)
(* for any archives (binary-cache.go:89-141).                              *)
THEOREM CacheCompletedWhole == BinaryCacheSpec => []CompletedWhole
<1>1. BinaryCacheInit => WholeInv
  BY DEF BinaryCacheInit, WholeInv
<1>2. CacheInv /\ WholeInv => CompletedWhole
  <2> SUFFICES ASSUME PositionInv, WholeInv, pc = "complete", NEW m \in ToSet(arch.nars)
               PROVE  Offers(m.path) = IF BytesOf(m, arch.chunks) = m.hash THEN {OfferIn(m)} ELSE {}
    BY DEF CompletedWhole, CacheInv, WholeInv
  <2>1. arch.nars \in Seq(ToSet(arch.nars)) /\ n = Len(arch.nars) + 1 /\ EarlierWhole
    BY BinaryCacheAssumption DEF PositionInv, WholeInv
  <2>2. PICK j \in 1..Len(arch.nars) : m = arch.nars[j]
    BY <2>1 DEF ToSet
  <2>3. j \in 1..n - 1
    BY <2>1
  <2>4. Written(m) /\ Described(m)
    BY <2>1, <2>2, <2>3 DEF EarlierWhole
  <2>5. Offers(m.path) = OffersOf(m, 6)
    BY <2>4, OffersAre DEF OffersAsLines, Described
  <2> QED BY <2>4, <2>5 DEF OffersOf, InFull, Written
<1> QED BY <1>1, <1>2, WholeNextInv, CacheInvariant, CacheStoreInvariant, PTL DEF BinaryCacheSpec

-----------------------------------------------------------------------------
(* Readers. *)

ReaderInv ==
  /\ \A lines \in seen : \E m \in Messages, k \in 5..6 : lines = LinesOf(m, k)
  /\ TookSent

(* A reader takes what the lines it has read say, if the NAR is that.      *)
LEMMA ReaderNextInv ==
  CacheInv /\ ReaderInv /\ [BinaryCacheNext]_binaryCacheVars => ReaderInv'
<1> SUFFICES ASSUME CacheInv, ReaderInv, [BinaryCacheNext]_binaryCacheVars PROVE ReaderInv'
  OBVIOUS
<1>1. CASE \E p \in Path : ReadInfo(p)
  <2>1. PICK p : p \in DOMAIN info /\ Accepted(info[p]) /\ seen' = {info[p]} /\ took' = {}
    BY <1>1 DEF ReadInfo
  <2>2. PICK m \in Messages, k \in 0..6 : info[p] = LinesOf(m, k)
    BY <2>1 DEF CacheInv, InfoInv
  <2>3. k \in 5..6
    <3>1. "NarSize" \in DOMAIN LinesOf(m, k)
      BY <2>1, <2>2 DEF Accepted
    <3>2. ~(k < 5)
      BY <3>1, LinesAre
    <3> QED BY <3>2
  <2> QED BY <2>1, <2>2, <2>3 DEF ReaderInv, TookSent
<1>2. CASE TakeNar
  <2>1. PICK lines \in seen : took' \in {{OfferOf(lines)}, {}}
    BY <1>2 DEF TakeNar
  <2>2. PICK m \in Messages, k \in 5..6 : lines = LinesOf(m, k)
    BY <2>1 DEF ReaderInv
  <2>3. OfferIn(m) \in Sent
    BY DEF Messages, Sent
  <2>4. OfferOf(lines) \in {OfferIn(m), Publisher!Untold(OfferIn(m))}
    BY <2>2, OfferOfLines
  <2>5. seen' = {}
    BY <1>2 DEF TakeNar
  <2> QED BY <2>1, <2>3, <2>4, <2>5 DEF ReaderInv, TookSent
<1>3. CASE UNCHANGED <<seen, took>>
  BY <1>3 DEF ReaderInv, TookSent
<1>4. CASE BinaryCacheNext /\ ~ReaderStep
  <2>1. UNCHANGED readerVars
    BY <1>4 DEF BinaryCacheNext, UnpackerStep, Start, ReadChunkMessage, MapChunks, Create,
                WriteCacheInfo, CreateNAR, WritePiece, CreateNARInfo, WriteLine, EndNARInfo,
                Complete, Stop
  <2> QED BY <1>3, <2>1 DEF readerVars
<1> QED BY <1>1, <1>2, <1>3, <1>4 DEF ReaderStep, binaryCacheVars, readerVars

(* Whoever reads a narinfo and later its NAR copies what an archive        *)
(* brought, whatever was written between the two (binary-cache.go:53-141). *)
THEOREM ReadersTookSent == BinaryCacheSpec => []TookSent
<1>1. BinaryCacheInit => ReaderInv
  BY DEF BinaryCacheInit, ReaderInv, TookSent
<1>2. ReaderInv => TookSent
  BY DEF ReaderInv
<1> QED BY CacheInvariant, <1>1, <1>2, ReaderNextInv, PTL DEF BinaryCacheSpec

=============================================================================
