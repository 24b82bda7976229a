------------------------- MODULE WorkSetPairProofs -------------------------
(***************************************************************************)
(* Proofs about WorkSetPair for every key set, chunk-pair set and blob     *)
(* length: the worksets the blob parser builds keep their types, and       *)
(* compare() is symmetric on them, with and without IO.                    *)
(*                                                                         *)
(* The argument for symmetry: depends is symmetric in its two chunks, and  *)
(* on a shared key both worksets hold two chunks (the parser always        *)
(* appends two), so the positions compare() visits from self are those     *)
(* it visits from other.  The bit arithmetic itself is never needed.       *)
(***************************************************************************)
EXTENDS WorkSetPair, WorkSetProofs, TLAPS

USE WorkSetPairAssumption

-----------------------------------------------------------------------------
(* TypeOK is inductive.                                                    *)

\* address_set[addr] = chunks keeps the address set a map from keys to
\* chunk pairs.
LEMMA StoreType ==
  ASSUME NEW ws, ws.io \in {0, 1}, DOMAIN ws.aset \subseteq Keys,
         \A k \in DOMAIN ws.aset : ws.aset[k] \in ChunkPairs,
         NEW addr \in Keys, NEW chunks \in ChunkPairs
  PROVE  LET w == Store(ws, addr, chunks)
         IN  /\ w.io \in {0, 1} /\ DOMAIN w.aset \subseteq Keys
             /\ \A k \in DOMAIN w.aset : w.aset[k] \in ChunkPairs
BY DEF Store

LEMMA InitTypeOK == Init => TypeOK
BY DEF Init, TypeOK

LEMMA NextTypeOK == TypeOK /\ [Next]_vars => TypeOK'
<1>. SUFFICES ASSUME TypeOK, [Next]_vars PROVE TypeOK'
  OBVIOUS
<1>1. ASSUME NEW x \in WS, ReadEntry(x) PROVE TypeOK'
  <2>1. left' \in [WS -> 0..MaxEntries]
    BY <1>1 DEF ReadEntry, TypeOK
  <2>2. PICK addr \in Keys, chunks \in ChunkPairs :
          IF x = "a" THEN a' = Store(a, addr, chunks) /\ UNCHANGED b
                     ELSE b' = Store(b, addr, chunks) /\ UNCHANGED a
    BY <1>1 DEF ReadEntry
  <2>3. CASE x = "a"
    BY <2>1, <2>2, <2>3, StoreType DEF TypeOK
  <2>4. CASE x # "a"
    BY <2>1, <2>2, <2>4, StoreType DEF TypeOK
  <2>. QED
    BY <2>3, <2>4
<1>2. CASE UNCHANGED vars
  BY <1>2 DEF vars, TypeOK
<1>. QED
  BY <1>1, <1>2 DEF Next

-----------------------------------------------------------------------------
(* The theorems.                                                           *)

\* The type invariant of run workset_pass: the blob parser only ever stores
\* pairs of chunks under blob addresses, for every key set and blob length.
THEOREM TypeCorrect == Spec => []TypeOK
BY InitTypeOK, NextTypeOK, PTL DEF Spec

\* The invariant of run workset_pass, for every key set, chunk-pair set and
\* blob length: compare(a, b) = compare(b, a), with and without IO, for
\* any two worksets the WS_CLOSE parser builds.
THEOREM CompareSymmetricInvariant == Spec => []CompareSymmetric
<1>1. TypeOK => CompareSymmetric
  <2>. SUFFICES ASSUME TypeOK, NEW io \in BOOLEAN
                PROVE  Compare(a, b, io) = Compare(b, a, io)
    BY DEF CompareSymmetric
  <2>1. /\ \A k \in DOMAIN a.aset : a.aset[k] \in Nat \X Nat
        /\ \A k \in DOMAIN b.aset : b.aset[k] \in Nat \X Nat
    BY WorkSetPairAssumption DEF TypeOK
  <2>. QED
    BY <2>1, CompareSymmetricLemma
<1>. QED
  BY <1>1, TypeCorrect, PTL
=============================================================================
