--------------------------- MODULE MCWorkSetPair ---------------------------
(***************************************************************************)
(* WorkSetPair with the code's chunk size and two adjacent address keys.  *)
(* A key covers 2 chunks of 16 bytes, so 0x1000 and 0x1020 are adjacent.  *)
(* The chunk pairs read or write slot 0 (byte 15 of the chunk), slot 1    *)
(* (byte 14, same word), slot 4 (byte 11, the next word down) and slot 0  *)
(* of the second chunk; two pairs have no empty chunk.                    *)
(***************************************************************************)
EXTENDS WorkSetPair

MC_Keys == {4096, 4128}

MC_ChunkPairs ==
  {<<1, 0>>, <<2, 0>>, <<8, 0>>, <<512, 0>>, <<0, 2>>, <<3, 2>>, <<10, 2>>, <<1, 1>>}
=============================================================================
