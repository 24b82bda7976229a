CONSTANTS
  FuncNames = {"mutex_lock", "__down", "complete", "foo"}
  InlNames = {"__raw_spin_unlock", "__raw_read_lock", "__xchg"}
  NoName = NoName
  FileLines = {"bogus file and line", "include/asm/spinlock.h:153",
               "include/linux/rcupdate.h:168", "mm/shmem.c:370"}
  BogusFL = "bogus file and line"
  Ops <- MC_Ops
  Cont = "cont"
  Operands = {"reg", "none"}
  Pats = {"re_lock_i", "re_addr", "re_raw_spin_unlock_i",
          "re_raw_read_lock_i", "re_nop_i"}
  PatOps <- MC_PatOps
  GroupPats = {"re_lock_i", "re_raw_spin_unlock_i", "re_raw_read_lock_i"}
  NI <- MC_NI
  RIS <- MC_RIS
  MaxLines = 5
SPECIFICATION Spec
INVARIANT NameMatchIsFresh
CHECK_DEADLOCK FALSE
