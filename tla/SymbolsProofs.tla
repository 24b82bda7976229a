---------------------------- MODULE SymbolsProofs ----------------------------
(***************************************************************************)
(* Proofs about Symbols for every value of its constants: the symbol       *)
(* tables keep their types, every instruction GET_KSYM read has an entry   *)
(* in ksym (KsymCovers), and record_ksym rewrites an entry only for the    *)
(* instruction right after it (KsymRewriteByNext).                         *)
(*                                                                         *)
(* Neither property is inductive as it stands.  KsymCovers needs           *)
(* last_ksym_pc to stay at 0xc0000000 (nothing assigns it after            *)
(* __init__), and KsymRewriteByNext needs every address already in ksym    *)
(* or read as an instruction to lie below the next address objdump may     *)
(* list (Below): then record_ksym's range max(new_pc - 1, last_ksym_pc)    *)
(* .. new_pc can only meet an old entry at new_pc - 1.                     *)
(***************************************************************************)
EXTENDS Symbols, TLAPS

USE SymbolsAssumption

\* GET_KSYM's fields have the types of the names the lines carry.
FieldsOK ==
  /\ real_func \in FuncNames \cup {NoName}
  /\ inlined_func \in FuncNames \cup {NoName}
  /\ cfl \in CFiles \cup {NoName}
  /\ nextpc \in Nat /\ startver \in 0..MaxVer /\ built \in 0..MaxVer
  /\ last_ksym_pc = KBase

\* Every address in ksym or read as an instruction lies below nextpc.
Below == \A q \in DOMAIN ksym \cup DOMAIN ctx : q < nextpc

\* The inductive invariant.
IInv == TypeOK /\ FieldsOK /\ Below /\ KsymCovers

-----------------------------------------------------------------------------
(* Lemmas on the lookup of the two FSMs.                                   *)

\* Each action of GET_KSYM's row is reached only by the line shape its
\* regex matches.
LEMMA KsymDispatch ==
  ASSUME NEW l \in KLines, NEW r \in Candidates(KsymRow, {}, KMatch(l))
  PROVE  /\ r.act = "set_real_func" => l.k = "def"
         /\ r.act = "set_cfl" => l.k = "cfl"
         /\ r.act = "set_inlined_func" => l.k = "func"
         /\ r.act = "record_ksym" => l.k = "inst"
<1>1. CASE l.k = "def"
  BY <1>1 DEF Candidates, KsymRow, KMatch, Rule, NoneKey
<1>2. CASE l.k = "cfl"
  BY <1>2 DEF Candidates, KsymRow, KMatch, Rule, NoneKey
<1>3. CASE l.k = "func"
  BY <1>3 DEF Candidates, KsymRow, KMatch, Rule, NoneKey
<1>4. CASE l.k = "inst"
  BY <1>4 DEF Candidates, KsymRow, KMatch, Rule, NoneKey
<1>5. CASE l.k = "junk"
  BY <1>5 DEF Candidates, KsymRow, KMatch, Rule, NoneKey
<1>. QED
  BY <1>1, <1>2, <1>3, <1>4, <1>5 DEF KLines

\* set_symbol is reached only by a symbol line.
LEMMA NmDispatch ==
  ASSUME NEW l \in NmLines,
         NEW r \in Candidates(NmRow, {}, IF l.k = "sym" THEN {"re_symbol_def"} ELSE {})
  PROVE  r.act = "set_symbol" => l.k = "sym"
BY DEF Candidates, NmRow, Rule, NoneKey, NmLines
-----------------------------------------------------------------------------
(* IInv is inductive.                                                      *)

LEMMA InitIInv == Init => IInv
BY DEF Init, KsymInit, IInv, TypeOK, FieldsOK, Below, KsymCovers, NoName

\* The context record_ksym stores has the type of a ksym entry.
LEMMA CtxOK ==
  ASSUME FieldsOK
  PROVE  [real |-> real_func, cfl |-> cfl, inlined |-> inlined_func] \in Ctx
BY DEF FieldsOK, Ctx

\* record_ksym at an address not below nextpc keeps IInv: the entries it
\* writes are new_pc and, when it is at least last_ksym_pc, new_pc - 1.
LEMMA RecordKsymIInv ==
  ASSUME IInv, NEW l \in KLines, l.k = "inst", l.addr >= nextpc,
         RecordKsym(l),
         UNCHANGED <<kver, kmtime, pickle, clock, phase, only, startver,
                     built, runs, nm, result>>
  PROVE  IInv'
<1>. DEFINE p == l.addr
            c == [real |-> real_func, cfl |-> cfl, inlined |-> inlined_func]
<1>1. p \in Pcs
  BY DEF KLines
<1>2. c \in Ctx
  BY CtxOK DEF IInv
<1>3. /\ ksym' = [pc \in DOMAIN ksym \cup Recorded(p) |->
                    IF pc \in Recorded(p) THEN c ELSE ksym[pc]]
      /\ ctx' = Put(ctx, p, c) /\ nextpc' = p + 1
      /\ UNCHANGED <<real_func, inlined_func, cfl, last_ksym_pc>>
  BY DEF RecordKsym
<1>4. Recorded(p) \subseteq Pcs /\ (p >= KBase => p \in Recorded(p))
  BY <1>1, <1>3 DEF IInv, FieldsOK, Recorded, Pcs
<1>5. TypeOK'
  <2>1. DOMAIN ksym' \subseteq Pcs /\ \A pc \in DOMAIN ksym' : ksym'[pc] \in Ctx
    BY <1>2, <1>3, <1>4 DEF IInv, TypeOK
  <2>2. DOMAIN ctx' \subseteq Pcs /\ \A pc \in DOMAIN ctx' : ctx'[pc] \in Ctx
    BY <1>1, <1>2, <1>3 DEF IInv, TypeOK, Put
  <2>. QED
    BY <2>1, <2>2, <1>3 DEF IInv, TypeOK
<1>6. FieldsOK'
  BY <1>1, <1>3 DEF IInv, FieldsOK, Pcs
<1>7. Below'
  <2>1. \A q \in Recorded(p) : q \in Int /\ q <= p
    BY <1>1 DEF Recorded, Pcs
  <2>2. DOMAIN ksym' \cup DOMAIN ctx' = DOMAIN ksym \cup DOMAIN ctx \cup Recorded(p) \cup {p}
    BY <1>3 DEF Put
  <2>3. \A q \in DOMAIN ksym \cup DOMAIN ctx : q \in Pcs /\ q < nextpc
    BY DEF IInv, TypeOK, Below
  <2>. QED
    BY <1>1, <1>3, <2>1, <2>2, <2>3 DEF Below, Pcs, IInv, FieldsOK
<1>8. KsymCovers'
  BY <1>3, <1>4 DEF IInv, KsymCovers, Put
<1>. QED
  BY <1>5, <1>6, <1>7, <1>8 DEF IInv

LEMMA KsymLineIInv ==
  ASSUME IInv, NEW l \in KLines, KsymLine(l)
  PROVE  IInv'
<1>1. PICK r \in Candidates(KsymRow, {}, KMatch(l)) :
        \/ r.act = "set_real_func" /\ SetRealFunc(l)
        \/ r.act = "set_cfl" /\ SetCfl(l)
        \/ r.act = "set_inlined_func" /\ SetInlinedFunc(l)
        \/ r.act = "record_ksym" /\ RecordKsym(l)
        \/ r.act = "none" /\ UNCHANGED ksymVars
  BY DEF KsymLine
<1>2. /\ l.k \in {"def", "inst"} => l.addr >= nextpc
      /\ lines' = lines + 1
      /\ UNCHANGED <<kver, kmtime, pickle, clock, phase, only, startver,
                     built, runs, nm, result>>
  BY DEF KsymLine
<1>3. CASE r.act = "set_real_func" /\ SetRealFunc(l)
  <2>1. l.k = "def"
    BY <1>3, KsymDispatch
  <2>2. l.addr \in Pcs /\ l.name \in FuncNames /\ l.addr >= nextpc
    BY <2>1, <1>2 DEF KLines
  <2>. QED
    BY <1>2, <1>3, <2>2
    DEF SetRealFunc, IInv, TypeOK, FieldsOK, Below, KsymCovers, Pcs
<1>4. CASE r.act = "set_cfl" /\ SetCfl(l)
  <2>1. l.fl \in CFiles
    BY <1>4, KsymDispatch DEF KLines
  <2>. QED
    BY <1>2, <1>4, <2>1 DEF SetCfl, IInv, TypeOK, FieldsOK, Below, KsymCovers
<1>5. CASE r.act = "set_inlined_func" /\ SetInlinedFunc(l)
  <2>1. l.name \in FuncNames
    BY <1>5, KsymDispatch DEF KLines
  <2>. QED
    BY <1>2, <1>5, <2>1
    DEF SetInlinedFunc, IInv, TypeOK, FieldsOK, Below, KsymCovers
<1>6. CASE r.act = "record_ksym" /\ RecordKsym(l)
  <2>1. l.k = "inst"
    BY <1>6, KsymDispatch
  <2>. QED
    BY <1>2, <1>6, <2>1, RecordKsymIInv
<1>7. CASE r.act = "none" /\ UNCHANGED ksymVars
  BY <1>2, <1>7 DEF ksymVars, IInv, TypeOK, FieldsOK, Below, KsymCovers
<1>. QED
  BY <1>1, <1>3, <1>4, <1>5, <1>6, <1>7
\* A GET_NM line stores a symbol of NmNames at an address of NmAddrs.
LEMMA NmLineIInv ==
  ASSUME IInv, NEW l \in NmLines, NmLine(l)
  PROVE  IInv'
<1>1. PICK r \in Candidates(NmRow, {}, IF l.k = "sym" THEN {"re_symbol_def"} ELSE {}) :
        \/ r.act = "set_symbol" /\ SetSymbol(l)
        \/ r.act = "none" /\ UNCHANGED nm
  BY DEF NmLine
<1>2. UNCHANGED <<kver, kmtime, pickle, clock, phase, only, startver, built,
                  runs, result>> /\ UNCHANGED ksymVars
  BY DEF NmLine
<1>3. CASE r.act = "set_symbol" /\ SetSymbol(l)
  <2>1. l.addr \in NmAddrs /\ l.name \in NmNames
    BY <1>3, NmDispatch DEF NmLines
  <2>. QED
    BY <1>2, <1>3, <2>1
    DEF SetSymbol, Put, ksymVars, IInv, TypeOK, FieldsOK, Below, KsymCovers
<1>4. CASE r.act = "none" /\ UNCHANGED nm
  BY <1>2, <1>4 DEF ksymVars, IInv, TypeOK, FieldsOK, Below, KsymCovers
<1>. QED
  BY <1>1, <1>3, <1>4

\* A new run either resets GET_KSYM or only sets how the run ended.
LEMMA StartIInv ==
  ASSUME IInv, Start
  PROVE  IInv'
<1>1. PICK o \in BOOLEAN :
        LET pickle_time == IF pickle.st = "none" THEN 0 ELSE pickle.mtime
        IN  /\ only' = o
            /\ IF kmtime > pickle_time
               THEN /\ phase' = "ksym" /\ built' = kver /\ lines' = 0
                    /\ nm' = <<>> /\ KsymReset
                    /\ UNCHANGED result
               ELSE /\ result' = IF o THEN Result("exit", 0, kver)
                                 ELSE IF pickle.st = "full"
                                 THEN Result("ok", pickle.ver, kver)
                                 ELSE Result("load_error", 0, kver)
                    /\ UNCHANGED <<phase, built, lines, nm>>
                    /\ UNCHANGED ksymVars
  BY DEF Start
<1>2. startver' = kver /\ UNCHANGED <<kver, kmtime, pickle, clock>>
  BY DEF Start
<1>. DEFINE pickle_time == IF pickle.st = "none" THEN 0 ELSE pickle.mtime
<1>3. CASE kmtime > pickle_time
  BY <1>1, <1>2, <1>3
  DEF KsymReset, IInv, TypeOK, FieldsOK, Below, KsymCovers, NoName
<1>4. CASE ~(kmtime > pickle_time)
  BY <1>1, <1>2, <1>4
  DEF ksymVars, Result, IInv, TypeOK, FieldsOK, Below, KsymCovers
<1>. QED
  BY <1>3, <1>4

LEMMA NextIInv == IInv /\ [Next]_vars => IInv'
<1>. SUFFICES ASSUME IInv, [Next]_vars PROVE IInv'
  OBVIOUS
<1>1. CASE Start
  BY <1>1, StartIInv
<1>2. CASE \E l \in KLines : KsymLine(l)
  BY <1>2, KsymLineIInv
<1>3. CASE KsymEnd
  BY <1>3 DEF KsymEnd, ksymVars, IInv, TypeOK, FieldsOK, Below, KsymCovers
<1>4. CASE \E l \in NmLines : NmLine(l)
  BY <1>4, NmLineIInv
<1>5. CASE NmEnd
  BY <1>5 DEF NmEnd, ksymVars, IInv, TypeOK, FieldsOK, Below, KsymCovers
<1>6. CASE Dump
  BY <1>6 DEF Dump, Result, ksymVars, IInv, TypeOK, FieldsOK, Below, KsymCovers
<1>7. CASE Crash
  BY <1>7 DEF Crash, Result, ksymVars, IInv, TypeOK, FieldsOK, Below, KsymCovers
<1>8. CASE Rebuild
  BY <1>8 DEF Rebuild, ksymVars, IInv, TypeOK, FieldsOK, Below, KsymCovers
<1>9. CASE Tick
  BY <1>9 DEF Tick, ksymVars, IInv, TypeOK, FieldsOK, Below, KsymCovers
<1>10. CASE UNCHANGED vars
  BY <1>10 DEF vars, IInv, TypeOK, FieldsOK, Below, KsymCovers
<1>. QED
  BY <1>1, <1>2, <1>3, <1>4, <1>5, <1>6, <1>7, <1>8, <1>9, <1>10 DEF Next

-----------------------------------------------------------------------------
(* The step of KsymRewriteByNext.                                          *)

\* What KsymRewriteByNext asks of every step.
RewriteStep ==
  \A pc \in DOMAIN ksym \cap DOMAIN ksym' :
    ksym'[pc] # ksym[pc] => pc + 1 \in DOMAIN ctx' \ DOMAIN ctx

\* A step that leaves ksym alone, or empties it, rewrites no entry.
LEMMA KeepRewrite ==
  ASSUME ksym' = ksym \/ ksym' = <<>>
  PROVE  RewriteStep
BY DEF RewriteStep

\* record_ksym rewrites only new_pc - 1, and only while reading new_pc.
LEMMA RecordKsymRewrite ==
  ASSUME IInv, NEW l \in KLines, l.k = "inst", l.addr >= nextpc,
         RecordKsym(l)
  PROVE  RewriteStep
<1>. DEFINE p == l.addr
            c == [real |-> real_func, cfl |-> cfl, inlined |-> inlined_func]
<1>1. /\ ksym' = [pc \in DOMAIN ksym \cup Recorded(p) |->
                    IF pc \in Recorded(p) THEN c ELSE ksym[pc]]
      /\ ctx' = Put(ctx, p, c)
  BY DEF RecordKsym
<1>2. p \in Pcs /\ nextpc \in Nat
  BY DEF KLines, IInv, FieldsOK
<1>. SUFFICES ASSUME NEW pc \in DOMAIN ksym \cap DOMAIN ksym',
                    ksym'[pc] # ksym[pc]
             PROVE  pc + 1 \in DOMAIN ctx' \ DOMAIN ctx
  BY DEF RewriteStep
<1>3. pc \in Recorded(p)
  BY <1>1
<1>4. pc \in Pcs /\ pc < nextpc
  BY DEF IInv, TypeOK, Below
<1>5. pc + 1 = p
  BY <1>2, <1>3, <1>4 DEF Recorded, Pcs
<1>6. p \notin DOMAIN ctx
  <2>1. \A q \in DOMAIN ctx : q \in Pcs /\ q < nextpc
    BY DEF IInv, TypeOK, Below
  <2>. QED
    BY <1>2, <2>1 DEF Pcs
<1>. QED
  BY <1>1, <1>5, <1>6 DEF Put

LEMMA NextRewrite == IInv /\ [Next]_vars => RewriteStep
<1>. SUFFICES ASSUME IInv, [Next]_vars PROVE RewriteStep
  OBVIOUS
<1>1. CASE Start
  BY <1>1, KeepRewrite DEF Start, KsymReset, ksymVars
<1>2. ASSUME NEW l \in KLines, KsymLine(l) PROVE RewriteStep
  <2>1. PICK r \in Candidates(KsymRow, {}, KMatch(l)) :
          \/ r.act = "set_real_func" /\ SetRealFunc(l)
          \/ r.act = "set_cfl" /\ SetCfl(l)
          \/ r.act = "set_inlined_func" /\ SetInlinedFunc(l)
          \/ r.act = "record_ksym" /\ RecordKsym(l)
          \/ r.act = "none" /\ UNCHANGED ksymVars
    BY <1>2 DEF KsymLine
  <2>2. CASE r.act = "record_ksym" /\ RecordKsym(l)
    <3>1. l.k = "inst" /\ l.addr >= nextpc
      BY <1>2, <2>2, KsymDispatch DEF KsymLine
    <3>. QED
      BY <2>2, <3>1, RecordKsymRewrite
  <2>3. CASE ~(r.act = "record_ksym" /\ RecordKsym(l))
    <3>1. ksym' = ksym
      BY <2>1, <2>3 DEF SetRealFunc, SetCfl, SetInlinedFunc, ksymVars
    <3>. QED
      BY <3>1, KeepRewrite
  <2>. QED
    BY <2>2, <2>3
<1>3. CASE ~Start /\ ~\E l \in KLines : KsymLine(l)
  <2>1. ksym' = ksym
    BY <1>3 DEF Next, vars, ksymVars, KsymEnd, NmLine, NmEnd, Dump, Crash,
                Rebuild, Tick
  <2>. QED
    BY <2>1, KeepRewrite
<1>. QED
  BY <1>1, <1>2, <1>3

-----------------------------------------------------------------------------
(* The theorems.                                                           *)

\* IInv holds in every state init_syms and the symbol loaders reach.
THEOREM IInvInvariant == Spec => []IInv
BY InitIInv, NextIInv, PTL DEF Spec

\* The type invariant of run symbols_pass: the pickle, the clock, the
\* kernel version, ksym, nm_sym and how each run ends keep their types.
THEOREM TypeCorrect == Spec => []TypeOK
<1>1. IInv => TypeOK
  BY DEF IInv
<1>. QED
  BY <1>1, IInvInvariant, PTL

\* The theorem of run symbols_pass: for every address range, bound and
\* set of names, record_ksym leaves every instruction objdump listed at or
\* above 0xc0000000 with an entry in ksym, whatever lines came between.
THEOREM KsymCoversInvariant == Spec => []KsymCovers
<1>1. IInv => KsymCovers
  BY DEF IInv
<1>. QED
  BY <1>1, IInvInvariant, PTL

\* The action property of run symbols_pass: record_ksym rewrites an entry
\* of ksym only while reading the instruction right after it, for every
\* value of the constants.
THEOREM KsymRewriteByNextHolds == Spec => KsymRewriteByNext
<1>1. IInv /\ [Next]_vars => [RewriteStep]_vars
  BY NextRewrite
<1>. QED
  BY <1>1, IInvInvariant, PTL DEF Spec, KsymRewriteByNext, RewriteStep

-----------------------------------------------------------------------------
(* Refinement of the cache protocol SymbolCache.                           *)

LEMMA InitCache == Init => Cache!Init
BY DEF Init, Cache!Init, Cache!Outcome, Stage

\* Every step of init_syms, GET_KSYM or GET_NM is a step of SymbolCache or
\* leaves its variables alone.
LEMMA NextCache == TypeOK /\ [Next]_vars => [Cache!Next]_Cache!cvars
<1>. SUFFICES ASSUME TypeOK, [Next]_vars PROVE [Cache!Next]_Cache!cvars
  OBVIOUS
<1>1. CASE Start
  <2>1. Stage = "idle"
    BY <1>1 DEF Start, Stage
  <2>2. Cache!Begin
    BY <1>1, <2>1 DEF Start, Cache!Begin, Cache!Stale, Cache!Outcome, Result,
                      Stage
  <2>. QED
    BY <2>2 DEF Cache!Next
<1>2. CASE \E l \in KLines : KsymLine(l)
  BY <1>2 DEF KsymLine, Stage, Cache!cvars
<1>3. CASE KsymEnd
  BY <1>3 DEF KsymEnd, Stage, Cache!cvars
<1>4. CASE \E l \in NmLines : NmLine(l)
  BY <1>4 DEF NmLine, Stage, Cache!cvars
<1>5. CASE NmEnd
  BY <1>5 DEF NmEnd, Stage, Cache!Next, Cache!Invalidate
<1>6. CASE Dump
  BY <1>6 DEF Dump, Stage, Cache!Next, Cache!Commit, Cache!Outcome, Result
<1>7. CASE Crash
  <2>1. Stage # "idle" /\ Stage' = "idle"
    BY <1>7 DEF Crash, Stage, TypeOK
  <2>. QED
    BY <1>7, <2>1 DEF Crash, Cache!Next, Cache!Abort, Cache!Outcome, Result
<1>8. CASE Rebuild
  BY <1>8 DEF Rebuild, Stage, Cache!Next, Cache!Rebuild
<1>9. CASE Tick
  BY <1>9 DEF Tick, Stage, Cache!Next, Cache!Tick
<1>10. CASE UNCHANGED vars
  BY <1>10 DEF vars, Stage, Cache!cvars
<1>. QED
  BY <1>1, <1>2, <1>3, <1>4, <1>5, <1>6, <1>7, <1>8, <1>9, <1>10 DEF Next

\* The refinement property of run symbols_pass, for every value of the
\* constants: init_syms with GET_KSYM and GET_NM implements the pickle-cache
\* protocol SymbolCache under the mapping Stage, so a pickle is only ever
\* truncated by a run that found it stale, only ever completed with the
\* tables of the kernel that run stat'ed, and a run only reports what
\* SymbolCache allows.
THEOREM CacheRefinementHolds == Spec => CacheRefinement
<1>1. TypeOK /\ [Next]_vars => [Cache!Next]_Cache!cvars
  BY NextCache
<1>. QED
  BY InitCache, <1>1, TypeCorrect, PTL DEF Spec, CacheRefinement, Cache!Spec
=============================================================================
