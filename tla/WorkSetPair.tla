---------------------------- MODULE WorkSetPair ----------------------------
(***************************************************************************)
(* Two worksets built the way the WS_CLOSE handler of sync_char_post.py   *)
(* builds them: the text line gives the IO flag, and the binary blob that  *)
(* follows gives num_entries groups (address, chunk, chunk), each stored   *)
(* with address_set[addr] = chunks, so a repeated address replaces the    *)
(* earlier one.  The properties compare what WorkSet computes from them   *)
(* (compare, size) with what the spec says it computes.                    *)
(***************************************************************************)
EXTENDS WorkSet

CONSTANTS
  Keys,        \* the addresses a blob entry may carry
  ChunkPairs,  \* the (chunk, chunk) pairs a blob entry may carry
  MaxEntries   \* bound on num_entries

\* The blob parser appends exactly two unsigned array items to chunks for
\* every group of three it reads.
ASSUME WorkSetPairAssumption ==
  /\ ChunkPairs \subseteq Nat \X Nat /\ MaxEntries \in Nat

VARIABLES
  a, b,        \* the two worksets: [aset, io]
  left         \* blob entries still to read for each of them

vars == <<a, b, left>>

WS == {"a", "b"}

Init ==
  /\ \E io1, io2 \in {0, 1} :
       /\ a = [aset |-> <<>>, io |-> io1]
       /\ b = [aset |-> <<>>, io |-> io2]
  /\ left \in [WS -> 0..MaxEntries]

\* address_set[addr] = chunks for one more group of the blob.
Store(ws, addr, chunks) ==
  [ws EXCEPT !.aset = [k \in DOMAIN ws.aset \cup {addr} |->
                         IF k = addr THEN chunks ELSE ws.aset[k]]]

\* Mutant: one group more than num_entries is read.
ReadEntryNoGuard(x) ==
  /\ left[x] >= 0
  /\ left' = [left EXCEPT ![x] = @ - 1]
  /\ \E addr \in Keys, chunks \in ChunkPairs :
       IF x = "a" THEN a' = Store(a, addr, chunks) /\ UNCHANGED b
                  ELSE b' = Store(b, addr, chunks) /\ UNCHANGED a

\* One iteration of the loop over num_entries: tmp_array.fromfile(f, 3).
ReadEntry(x) ==
  /\ left[x] > 0
  /\ left' = [left EXCEPT ![x] = @ - 1]
  /\ \E addr \in Keys, chunks \in ChunkPairs :
       IF x = "a" THEN a' = Store(a, addr, chunks) /\ UNCHANGED b
                  ELSE b' = Store(b, addr, chunks) /\ UNCHANGED a

Next == \E x \in WS : ReadEntry(x)

Spec == Init /\ [][Next]_vars

-----------------------------------------------------------------------------
TypeOK ==
  /\ a.io \in {0, 1} /\ b.io \in {0, 1}
  /\ DOMAIN a.aset \subseteq Keys /\ DOMAIN b.aset \subseteq Keys
  /\ \A k \in DOMAIN a.aset : a.aset[k] \in ChunkPairs
  /\ \A k \in DOMAIN b.aset : b.aset[k] \in ChunkPairs
  /\ left \in [WS -> 0..MaxEntries]

\* compare() is symmetric (spec section 8: a.compare(b) = b.compare(a)),
\* with and without counting IO.  The analyzer relies on it: it divides
\* by (conflicting - 1) for every conflicting workset of a sample.
CompareSymmetric ==
  \A io \in BOOLEAN : Compare(a, b, io) = Compare(b, a, io)
=============================================================================
