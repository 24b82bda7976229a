----------------------------- MODULE MCSymbols -----------------------------
(* Symbols on a small instance: two function names, one .c file, four     *)
(* instruction addresses from 0, with last_ksym_pc at 1 so that the        *)
(* max(new_pc - 1, last_ksym_pc) bound bites at address 1.                 *)
EXTENDS Symbols

CONSTANTS f1, f2, c1, s1

MCFuncNames == {f1, f2}
MCCFiles == {c1}
MCNmNames == {s1}
=============================================================================
