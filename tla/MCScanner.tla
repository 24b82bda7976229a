----------------------------- MODULE MCScanner -----------------------------
(***************************************************************************)
(* A small instance of Scanner: three entries of noninlined_funcs (a plain *)
(* lock function, the loop-unrolled __down and the F_EAX function          *)
(* complete) and four entries of re_i_s, among them the two entries for    *)
(* __raw_read_lock that differ only in their file:line, with the values    *)
(* sync_char_pre.py gives them.                                            *)
(***************************************************************************)
EXTENDS Scanner

MC_Ops == {"lock_decl", "lock_subl1", "movb1", "nop", "mov", "cont"}

MC_PatOps ==
  [p \in {"re_lock_i", "re_addr", "re_raw_spin_unlock_i",
          "re_raw_read_lock_i", "re_nop_i"} |->
     CASE p = "re_lock_i"            -> {"lock_decl", "lock_subl1"}
       [] p = "re_addr"              -> MC_Ops
       [] p = "re_raw_spin_unlock_i" -> {"movb1"}
       [] p = "re_raw_read_lock_i"   -> {"lock_subl1"}
       [] p = "re_nop_i"             -> {"nop"}]

MC_NI ==
  [f \in {"mutex_lock", "__down", "complete"} |->
     CASE f = "mutex_lock" ->
            [pat |-> "re_lock_i", flags |-> {"LOCK", "TIME_RET"},
             sync |-> "L_MUTEX"]
       [] f = "__down" ->
            [pat |-> "re_lock_i", flags |-> {"LOCK", "TIME_RET", "LOOP_UNROLL"},
             sync |-> "L_SEMA"]
       [] f = "complete" ->
            [pat |-> "re_addr", flags |-> {"UNLOCK", "EAX", "TIME_RET"},
             sync |-> "L_COMPL"]]

MC_RIS ==
  << [pat |-> "re_raw_spin_unlock_i", fname |-> "__raw_spin_unlock",
      flmatch |-> "include/asm/spinlock.h:92", flags |-> {"INLINED", "UNLOCK"},
      sync |-> "L_SPIN"],
     [pat |-> "re_raw_read_lock_i", fname |-> "__raw_read_lock",
      flmatch |-> "include/asm/spinlock.h:153",
      flags |-> {"INLINED", "LOCK", "TIME_RET"}, sync |-> "L_RSPIN"],
     [pat |-> "re_raw_read_lock_i", fname |-> "__raw_read_lock",
      flmatch |-> "include/asm/spinlock.h:167",
      flags |-> {"INLINED", "LOCK", "TIME_RET"}, sync |-> "L_RSPIN"],
     [pat |-> "re_nop_i", fname |-> "rcu_read_lock",
      flmatch |-> "include/linux/rcupdate.h:168",
      flags |-> {"INLINED", "LOCK", "NOADDR"}, sync |-> "L_RCU"] >>
=============================================================================
