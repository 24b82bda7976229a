---------------------------- MODULE MCAnalyzer ------------------------------
(***************************************************************************)
(* Analyzer on a small log.  Addresses are scaled by 2^-26, which keeps   *)
(* their order: 0xc0000000 becomes 48 and 0xc000000 becomes 3; lock 1 is *)
(* a user lock, lock 4 lies between the two filters, lock 0 is an         *)
(* asymmetry detector.  MAX_CPUS 32 and NUM_CPUS_ARRAY <<8, 16, 32>> are  *)
(* scaled to 2 and <<1, 2>>, so a window closes on its second pid and the *)
(* largest sample holds every pid of a window.                             *)
(*                                                                         *)
(* The worksets all touch address 0x1000: w_rd reads its last byte, w_wr  *)
(* writes it, w_two (held by two processes) writes it too, w_io reads a   *)
(* byte of 0x1020 and did IO.                                              *)
(***************************************************************************)
EXTENDS Analyzer

MC_w_rd  == [pids |-> {1}, aset |-> [a \in {4096} |-> <<1, 0>>], io |-> 0]
MC_w_wr  == [pids |-> {2}, aset |-> [a \in {4096} |-> <<2, 0>>], io |-> 0]
MC_w_two == [pids |-> {2, 3}, aset |-> [a \in {4096} |-> <<2, 0>>], io |-> 0]
MC_w_io  == [pids |-> {3}, aset |-> [a \in {4128} |-> <<1, 0>>], io |-> 1]

MC_WSs == {MC_w_rd, MC_w_wr, MC_w_two, MC_w_io}

MC_CpuCounts == <<1, 2>>
=============================================================================
