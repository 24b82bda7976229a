---------------------------- MODULE WorkSetProofs ----------------------------
(***************************************************************************)
(* Lemmas on the operators of WorkSet, for any two worksets whose address *)
(* sets map keys to chunk pairs: compare() is symmetric.  depends is      *)
(* symmetric in its two chunks, and on a shared key both worksets hold    *)
(* two chunks, so the positions compare() visits from self are those it  *)
(* visits from other.  The bit arithmetic itself is never needed.         *)
(***************************************************************************)
EXTENDS WorkSet, TLAPS

\* (reads1 & writes2) | (reads2 & writes1) | (writes1 & writes2) does not
\* depend on which workset is self.
LEMMA DependsSymmetric ==
  ASSUME NEW c1, NEW c2
  PROVE  Depends(c1, c2) = Depends(c2, c1)
BY DEF Depends

\* A chunk pair has two positions.
LEMMA PairLen ==
  ASSUME NEW t \in Nat \X Nat
  PROVE  DOMAIN t = 1..2
OBVIOUS

\* On the keys both worksets share, compare() visits the same chunk
\* positions from either side.
LEMMA SharedPositions ==
  ASSUME NEW a, NEW b,
         \A k \in DOMAIN a.aset : a.aset[k] \in Nat \X Nat,
         \A k \in DOMAIN b.aset : b.aset[k] \in Nat \X Nat
  PROVE  Positions([k \in DOMAIN a.aset \cap DOMAIN b.aset |-> a.aset[k]])
         = Positions([k \in DOMAIN b.aset \cap DOMAIN a.aset |-> b.aset[k]])
<1>1. \A k \in DOMAIN a.aset \cap DOMAIN b.aset :
        1..Len(a.aset[k]) = 1..2 /\ 1..Len(b.aset[k]) = 1..2
  <2>. SUFFICES ASSUME NEW k \in DOMAIN a.aset \cap DOMAIN b.aset
                PROVE  1..Len(a.aset[k]) = 1..2 /\ 1..Len(b.aset[k]) = 1..2
    OBVIOUS
  <2>1. a.aset[k] \in Nat \X Nat /\ b.aset[k] \in Nat \X Nat
    OBVIOUS
  <2>. QED
    BY <2>1
<1>. DEFINE D  == DOMAIN a.aset \cap DOMAIN b.aset
            fa == [k \in D |-> a.aset[k]]
            fb == [k \in DOMAIN b.aset \cap DOMAIN a.aset |-> b.aset[k]]
            row(k) == {<<k, i>> : i \in 1..2}
<1>2. fb = [k \in D |-> b.aset[k]]
  OBVIOUS
<1>3. {{<<k, i>> : i \in 1..Len(fa[k])} : k \in DOMAIN fa} = {row(k) : k \in D}
  <2>1. \A k \in D : {<<k, i>> : i \in 1..Len(fa[k])} = row(k)
    BY <1>1
  <2>2. DOMAIN fa = D
    OBVIOUS
  <2>3. {{<<k, i>> : i \in 1..Len(fa[k])} : k \in DOMAIN fa}
        = {{<<k, i>> : i \in 1..Len(fa[k])} : k \in D}
    BY <2>2
  <2>4. {{<<k, i>> : i \in 1..Len(fa[k])} : k \in D} = {row(k) : k \in D}
    <3>. SUFFICES ASSUME NEW x
                  PROVE  x \in {{<<k, i>> : i \in 1..Len(fa[k])} : k \in D}
                         <=> x \in {row(k) : k \in D}
      OBVIOUS
    <3>1. ASSUME NEW k \in D, x = {<<k, i>> : i \in 1..Len(fa[k])}
          PROVE  x \in {row(k2) : k2 \in D}
      <4>1. x = row(k)
        BY <3>1, <2>1
      <4>. QED
        BY <4>1
    <3>2. ASSUME NEW k \in D, x = row(k)
          PROVE  x \in {{<<k2, i>> : i \in 1..Len(fa[k2])} : k2 \in D}
      <4>1. x = {<<k, i>> : i \in 1..Len(fa[k])}
        BY <3>2, <2>1
      <4>. QED
        BY <4>1
    <3>. QED
      BY <3>1, <3>2
  <2>. QED
    BY <2>3, <2>4
<1>4. {{<<k, i>> : i \in 1..Len(fb[k])} : k \in DOMAIN fb} = {row(k) : k \in D}
  <2>1. \A k \in D : {<<k, i>> : i \in 1..Len(fb[k])} = row(k)
    BY <1>1, <1>2
  <2>2. DOMAIN fb = D
    BY <1>2
  <2>3. {{<<k, i>> : i \in 1..Len(fb[k])} : k \in DOMAIN fb}
        = {{<<k, i>> : i \in 1..Len(fb[k])} : k \in D}
    BY <2>2
  <2>4. {{<<k, i>> : i \in 1..Len(fb[k])} : k \in D} = {row(k) : k \in D}
    <3>. SUFFICES ASSUME NEW x
                  PROVE  x \in {{<<k, i>> : i \in 1..Len(fb[k])} : k \in D}
                         <=> x \in {row(k) : k \in D}
      OBVIOUS
    <3>1. ASSUME NEW k \in D, x = {<<k, i>> : i \in 1..Len(fb[k])}
          PROVE  x \in {row(k2) : k2 \in D}
      <4>1. x = row(k)
        BY <3>1, <2>1
      <4>. QED
        BY <4>1
    <3>2. ASSUME NEW k \in D, x = row(k)
          PROVE  x \in {{<<k2, i>> : i \in 1..Len(fb[k2])} : k2 \in D}
      <4>1. x = {<<k, i>> : i \in 1..Len(fb[k])}
        BY <3>2, <2>1
      <4>. QED
        BY <4>1
    <3>. QED
      BY <3>1, <3>2
  <2>. QED
    BY <2>3, <2>4
<1>. QED
  BY <1>3, <1>4 DEF Positions

\* compare() fills the same intersection from either side.
LEMMA IntersectionSymmetric ==
  ASSUME NEW a, NEW b, NEW io,
         \A k \in DOMAIN a.aset : a.aset[k] \in Nat \X Nat,
         \A k \in DOMAIN b.aset : b.aset[k] \in Nat \X Nat
  PROVE  Intersection(a, b, io) = Intersection(b, a, io)
<1>. DEFINE Pa == Positions([k \in DOMAIN a.aset \cap DOMAIN b.aset |-> a.aset[k]])
            Pb == Positions([k \in DOMAIN b.aset \cap DOMAIN a.aset |-> b.aset[k]])
            Ea(p) == {Word(ByteAddr(p[1], p[2], j)) :
                        j \in Depends(a.aset[p[1]][p[2]], b.aset[p[1]][p[2]])}
            Eb(p) == {Word(ByteAddr(p[1], p[2], j)) :
                        j \in Depends(b.aset[p[1]][p[2]], a.aset[p[1]][p[2]])}
<1>1. Pa = Pb
  BY SharedPositions
<1>2. \A p \in Pa : Ea(p) = Eb(p)
  BY DependsSymmetric
<1>. HIDE DEF Ea, Eb, Pa, Pb
<1>3. UNION {Ea(p) : p \in Pa} = UNION {Eb(p) : p \in Pb}
  <2>. SUFFICES ASSUME NEW x
                PROVE  x \in UNION {Ea(p) : p \in Pa} <=> x \in UNION {Eb(p) : p \in Pb}
    OBVIOUS
  <2>1. ASSUME NEW p \in Pa, x \in Ea(p) PROVE x \in UNION {Eb(q) : q \in Pb}
    <3>1. x \in Eb(p) /\ p \in Pb
      BY <2>1, <1>1, <1>2
    <3>. QED
      BY <3>1
  <2>2. ASSUME NEW p \in Pb, x \in Eb(p) PROVE x \in UNION {Ea(q) : q \in Pa}
    <3>1. x \in Ea(p) /\ p \in Pa
      BY <2>2, <1>1, <1>2
    <3>. QED
      BY <3>1
  <2>. QED
    BY <2>1, <2>2
<1>. QED
  BY <1>3 DEF Intersection, Ea, Eb, Pa, Pb

\* compare() counts the same from either side when every chunk list of
\* both address sets is a pair, as the WS_CLOSE blob parser makes them.
LEMMA CompareSymmetricLemma ==
  ASSUME NEW a, NEW b, NEW io,
         \A k \in DOMAIN a.aset : a.aset[k] \in Nat \X Nat,
         \A k \in DOMAIN b.aset : b.aset[k] \in Nat \X Nat
  PROVE  Compare(a, b, io) = Compare(b, a, io)
BY IntersectionSymmetric DEF Compare
=============================================================================
