------------------------------ MODULE WorkSet ------------------------------
(***************************************************************************)
(* class WorkSet of src/scripts/sync_char_post.py: the address set of one *)
(* critical section and the functions computed from it.                   *)
(*                                                                         *)
(* A workset's address_set maps an address key to its chunks.  A chunk is *)
(* a 2*Slots-bit integer: bit 2j says slot j was read, bit 2j+1 that it   *)
(* was written (READ_MASK and WRITE_MASK).  Slot j of chunk i of key k is *)
(* the byte k + Slots*i + (Slots-1-j): the least significant pair is the  *)
(* highest byte.  The bit operations of the code (&, >>, population) are  *)
(* written by what they do to one slot.                                   *)
(***************************************************************************)
EXTENDS Integers, FiniteSets, Sequences

CONSTANTS
  SetChunkSize,   \* WorkSet.SET_CHUNK_SIZE (4 in the code): words per chunk
  Pids            \* process ids that appear in WS_CLOSE lines

ASSUME WorkSetAssumption ==
  /\ SetChunkSize \in Nat \ {0}

\* The byte slots of one chunk: 4 * SET_CHUNK_SIZE.
Slots == 4 * SetChunkSize

\* The values a chunk can take.
Chunk == 0..(4^Slots - 1)

\* The intersection entry 'io' of compare(); no word address is negative.
IoEntry == -1

\* (chunk & READ_MASK) and ((chunk & WRITE_MASK) >> 1), bit 2j.
ReadBit(c, j)  == (c \div 4^j) % 2 = 1
WriteBit(c, j) == ((c \div 4^j) \div 2) % 2 = 1

\* la = int(addr, 16) + 4*SET_CHUNK_SIZE*i + (4*SET_CHUNK_SIZE - 1 - j),
\* with i counted from 1 here.
ByteAddr(k, i, j) == k + Slots * (i - 1) + (Slots - 1 - j)

\* Rounding of non-word-aligned addresses: la & 0xFFFFFFFC.
Word(la) == la - (la % 4)

\* The chunk positions <<k, i>> of an address set.
Positions(as) == UNION {{<<k, i>> : i \in 1..Len(as[k])} : k \in DOMAIN as}

\* The slots of chunk c that (reads | writes) has set.
Touched(c) == {j \in 0..(Slots - 1) : ReadBit(c, j) \/ WriteBit(c, j)}

\* _size: the population of reads | writes, summed over every chunk.
Size(ws) ==
  Cardinality({x \in Positions(ws.aset) \X (0..(Slots - 1)) :
                 x[2] \in Touched(ws.aset[x[1][1]][x[1][2]])})

\* _wsize: the population of writes.
WSize(ws) ==
  Cardinality({x \in Positions(ws.aset) \X (0..(Slots - 1)) :
                 WriteBit(ws.aset[x[1][1]][x[1][2]], x[2])})

\* _size_words: per chunk, the touched bytes rounded to words; the list
\* that removes repeats is fresh for every chunk.
SizeWords(ws) ==
  Cardinality(UNION {{<<p, Word(ByteAddr(p[1], p[2], j))>> :
                        j \in Touched(ws.aset[p[1]][p[2]])} :
                     p \in Positions(ws.aset)})

\* Mutant: the (reads2 & writes1) term left out.
DependsOneSided(c1, c2) ==
  {j \in 0..(Slots - 1) :
     \/ ReadBit(c1, j) /\ WriteBit(c2, j)
     \/ WriteBit(c1, j) /\ WriteBit(c2, j)}

\* depends = (reads1 & writes2) | (reads2 & writes1) | (writes1 & writes2).
Depends(c1, c2) ==
  {j \in 0..(Slots - 1) :
     \/ ReadBit(c1, j) /\ WriteBit(c2, j)
     \/ ReadBit(c2, j) /\ WriteBit(c1, j)
     \/ WriteBit(c1, j) /\ WriteBit(c2, j)}

\* compare(other, intersection, io): the list intersection it fills.  An
\* entry is appended only if absent, and dependences is decremented for
\* every repeat, so the list holds each entry once.  Only keys of both
\* address sets count; chunk i of self is paired with chunk i of other.
Intersection(a, b, io) ==
  (IF io /\ (a.io = 1 \/ b.io = 1) THEN {IoEntry} ELSE {})
  \cup UNION {{Word(ByteAddr(p[1], p[2], j)) :
                  j \in Depends(a.aset[p[1]][p[2]], b.aset[p[1]][p[2]])} :
               p \in Positions([k \in DOMAIN a.aset \cap DOMAIN b.aset |->
                                  a.aset[k]])}

\* The count compare() returns.
Compare(a, b, io) == Cardinality(Intersection(a, b, io))
=============================================================================
