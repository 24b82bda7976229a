------------------------------ MODULE Symbols ------------------------------
(***************************************************************************)
(* The symbol tables of src/scripts/sync_common.py and the disk cache that *)
(* keeps them between runs.                                                *)
(*                                                                         *)
(* init_syms, as sync_char_post.py calls it (opt_pickle is always set),    *)
(* compares the modification time of the pickle with that of vmlinux: if   *)
(* the kernel is newer it runs GET_KSYM over the objdump output and GET_NM *)
(* over the nm output, then writes both tables to the pickle; otherwise it *)
(* loads them from the pickle.  Runs of the program follow one another;    *)
(* a run may be killed at any step, and the kernel may be rebuilt and the  *)
(* clock advance between any two steps.  ST_MTIME is whole seconds.        *)
(*                                                                         *)
(* GET_KSYM drives an FSM with one state, 'scan', over the disassembly.    *)
(* A line is abstracted to its shape; each shape matches exactly one of    *)
(* the four regexes of the row (or none, for the None rule).  A kernel is *)
(* a version number: the tables built from it are named by it.             *)
(***************************************************************************)
EXTENDS Integers, FSM

CONSTANTS
  FuncNames,  \* function names of headers and of "name():" lines
  CFiles,     \* file:line annotations of .c files
  KBase,      \* 0xc0000000: the initial last_ksym_pc
  MaxPc,      \* the largest instruction address of a disassembly
  NmAddrs,    \* addresses of nm symbol lines
  NmNames,    \* names of nm symbol lines
  MaxLines,   \* bound on the lines of one objdump or nm output
  MaxClock,   \* bound on the clock (seconds)
  MaxVer,     \* bound on kernel rebuilds
  MaxRuns     \* bound on program runs

ASSUME SymbolsAssumption ==
  /\ KBase \in Nat /\ MaxPc \in Nat /\ NmAddrs \subseteq Nat
  /\ MaxLines \in Nat /\ MaxClock \in Nat \ {0}
  /\ MaxVer \in Nat \ {0} /\ MaxRuns \in Nat

\* The addresses a disassembly line may carry.
Pcs == 0..MaxPc

\* An objdump line by its shape: re_func_def, re_cfl, re_func, re_addr, or
\* a line no regex matches.
KLines ==
  [k : {"def"}, addr : Pcs, name : FuncNames] \cup [k : {"cfl"}, fl : CFiles]
  \cup [k : {"func"}, name : FuncNames] \cup [k : {"inst"}, addr : Pcs]
  \cup [k : {"junk"}]

\* The regex keys of GET_KSYM's row that match line l.
KMatch(l) ==
  CASE l.k = "def"  -> {"re_func_def"}
    [] l.k = "cfl"  -> {"re_cfl"}
    [] l.k = "func" -> {"re_func"}
    [] l.k = "inst" -> {"re_addr"}
    [] OTHER        -> {}

\* GET_KSYM._init_fsm: the row of state 'scan'.
KsymRow ==
  {Rule("re_func_def", "scan", "set_real_func"),
   Rule("re_cfl", "scan", "set_cfl"),
   Rule("re_func", "scan", "set_inlined_func"),
   Rule("re_addr", "scan", "record_ksym"),
   Rule(NoneKey, "scan", "none")}

\* An nm line: re_symbol_def, or a line it does not match.
NmLines == [k : {"sym"}, addr : NmAddrs, name : NmNames] \cup [k : {"junk"}]

\* GET_NM._init_fsm: the row of state 'scan'.
NmRow == {Rule("re_symbol_def", "scan", "set_symbol"), Rule(NoneKey, "scan", "none")}

NoName == "''"

-----------------------------------------------------------------------------
VARIABLES
  \* the disk
  kver, kmtime,  \* vmlinux: its version and ST_MTIME
  pickle,        \* the pickle file: [st, ver, mtime]
  clock,
  \* the running program
  phase,         \* "idle" between runs, else the step of init_syms
  only,          \* opt_pickle_only of this run
  startver,      \* the kernel version when this run stat'ed vmlinux
  built,         \* the kernel version objdump and nm read
  lines,         \* lines of the current objdump or nm output read
  runs,
  \* GET_KSYM's fields and its ksym dictionary
  real_func, real_addr, inlined_func, cfl, last_ksym_pc, last_sym_pc, ksym,
  \* GET_NM's dictionary
  nm,
  \* history: the context of each instruction read, the lowest address the
  \* next instruction may have (objdump lists them in increasing order),
  \* and how the last run ended
  ctx, nextpc, result

vars == <<kver, kmtime, pickle, clock, phase, only, startver, built, lines,
          runs, real_func, real_addr, inlined_func, cfl, last_ksym_pc,
          last_sym_pc, ksym, nm, ctx, nextpc, result>>

ksymVars == <<real_func, real_addr, inlined_func, cfl, last_ksym_pc,
              last_sym_pc, ksym, ctx, nextpc>>

\* GET_KSYM.__init__: the fields before the first line.
KsymInit ==
  /\ real_func = NoName /\ real_addr = 0 /\ inlined_func = NoName
  /\ cfl = NoName /\ last_ksym_pc = KBase /\ last_sym_pc = 0
  /\ ksym = <<>> /\ ctx = <<>> /\ nextpc = 0

\* The same fields in a new run's GET_KSYM object.
KsymReset ==
  /\ real_func' = NoName /\ real_addr' = 0 /\ inlined_func' = NoName
  /\ cfl' = NoName /\ last_ksym_pc' = KBase /\ last_sym_pc' = 0
  /\ ksym' = <<>> /\ ctx' = <<>> /\ nextpc' = 0

Init ==
  /\ kver = 1 /\ kmtime = 1 /\ clock = 1
  /\ pickle = [st |-> "none", ver |-> 0, mtime |-> 0]
  /\ phase = "idle" /\ only = FALSE /\ startver = 0 /\ built = 0
  /\ lines = 0 /\ runs = 0 /\ nm = <<>>
  /\ result = [k |-> "none", ver |-> 0, start |-> 0]
  /\ KsymInit

\* The map f with key k set to v.
Put(f, k, v) == [x \in DOMAIN f \cup {k} |-> IF x = k THEN v ELSE f[x]]

\* How a run ended: its kind, the symbols' kernel version, and the kernel
\* version when it stat'ed vmlinux.
Result(k, v, s) == [k |-> k, ver |-> v, start |-> s]

-----------------------------------------------------------------------------
(* GET_KSYM's actions.                                                     *)

\* set_real_func: real_func and real_addr from a function header.
SetRealFunc(l) ==
  /\ real_func' = l.name /\ real_addr' = l.addr /\ nextpc' = l.addr
  /\ UNCHANGED <<inlined_func, cfl, last_ksym_pc, last_sym_pc, ksym, ctx>>

\* set_cfl: the last .c file:line annotation.
SetCfl(l) ==
  /\ cfl' = l.fl
  /\ UNCHANGED <<real_func, real_addr, inlined_func, last_ksym_pc,
                 last_sym_pc, ksym, ctx, nextpc>>

\* set_inlined_func: the last "name():" line.
SetInlinedFunc(l) ==
  /\ inlined_func' = l.name
  /\ UNCHANGED <<real_func, real_addr, cfl, last_ksym_pc, last_sym_pc,
                 ksym, ctx, nextpc>>

\* Mutant: the range stops before new_pc.
RecordedShort(p) == {pc \in (p - 1)..(p - 1) : pc >= last_ksym_pc}

\* Mutant: the range starts at new_pc - 2.
RecordedWide(p) == {pc \in (p - 2)..p : pc >= last_ksym_pc}

\* range(max(new_pc - 1, self.last_ksym_pc), new_pc + 1).
Recorded(p) == {pc \in (p - 1)..p : pc >= last_ksym_pc}

\* record_ksym: the current names go to ksym for new_pc and new_pc - 1.
\* The last line assigns self.last_sym_pc, a field nothing reads, so
\* last_ksym_pc keeps its initial value.
RecordKsym(l) ==
  LET c == [real |-> real_func, cfl |-> cfl, inlined |-> inlined_func]
  IN  /\ ksym' = [pc \in DOMAIN ksym \cup Recorded(l.addr) |->
                    IF pc \in Recorded(l.addr) THEN c ELSE ksym[pc]]
      /\ last_sym_pc' = l.addr + 1
      /\ ctx' = Put(ctx, l.addr, c)
      /\ nextpc' = l.addr + 1
      /\ UNCHANGED <<real_func, real_addr, inlined_func, cfl, last_ksym_pc>>

\* One fsm.execute(line) of GET_KSYM.__init__'s loop.  objdump lists
\* headers and instructions in increasing address order.
KsymLine(l) ==
  /\ phase = "ksym" /\ lines < MaxLines
  /\ l.k \in {"def", "inst"} => l.addr >= nextpc
  /\ lines' = lines + 1
  /\ \E r \in Candidates(KsymRow, {}, KMatch(l)) :
       \/ r.act = "set_real_func" /\ SetRealFunc(l)
       \/ r.act = "set_cfl" /\ SetCfl(l)
       \/ r.act = "set_inlined_func" /\ SetInlinedFunc(l)
       \/ r.act = "record_ksym" /\ RecordKsym(l)
       \/ r.act = "none" /\ UNCHANGED ksymVars
  /\ UNCHANGED <<kver, kmtime, pickle, clock, phase, only, startver, built,
                 runs, nm, result>>

\* The objdump output ends: GET_NM(nm_sym, os.popen(nm ...), False) starts.
KsymEnd ==
  /\ phase = "ksym"
  /\ phase' = "nm" /\ lines' = 0
  /\ UNCHANGED <<kver, kmtime, pickle, clock, only, startver, built, runs,
                 nm, result>>
  /\ UNCHANGED ksymVars

-----------------------------------------------------------------------------
(* GET_NM's actions.                                                       *)

\* Mutant: the symbol stored as with invert set.
SetSymbolInverted(l) == nm' = Put(nm, l.name, l.addr)

\* set_symbol with invert False: nm[int(addr, 16)] = symbol_name.
SetSymbol(l) == nm' = Put(nm, l.addr, l.name)

\* One fsm.execute(line) of GET_NM.__init__'s loop.
NmLine(l) ==
  /\ phase = "nm" /\ lines < MaxLines
  /\ lines' = lines + 1
  /\ \E r \in Candidates(NmRow, {}, IF l.k = "sym" THEN {"re_symbol_def"} ELSE {}) :
       \/ r.act = "set_symbol" /\ SetSymbol(l)
       \/ r.act = "none" /\ UNCHANGED nm
  /\ UNCHANGED <<kver, kmtime, pickle, clock, phase, only, startver, built,
                 runs, result>>
  /\ UNCHANGED ksymVars

\* The nm output ends: open(opt_pickle, 'wb') creates or truncates the
\* file, which takes the current time as its mtime.
NmEnd ==
  /\ phase = "nm"
  /\ phase' = "dump"
  /\ pickle' = [st |-> "partial", ver |-> 0, mtime |-> clock]
  /\ UNCHANGED <<kver, kmtime, clock, only, startver, built, lines, runs,
                 nm, result>>
  /\ UNCHANGED ksymVars

\* Mutant: the pickle is stamped with the kernel version found at dump time
\* rather than the one whose tables were built.
DumpRestat ==
  /\ phase = "dump"
  /\ phase' = "idle"
  /\ pickle' = [st |-> "full", ver |-> kver, mtime |-> clock]
  /\ result' = IF only THEN Result("exit", built, startver)
               ELSE Result("ok", built, startver)
  /\ UNCHANGED <<kver, kmtime, clock, only, startver, built, lines, runs, nm>>
  /\ UNCHANGED ksymVars

\* pickle.dump of ksym and nm_sym, then close; with opt_pickle_only the
\* program exits, otherwise init_syms returns the tables it built.
Dump ==
  /\ phase = "dump"
  /\ phase' = "idle"
  /\ pickle' = [st |-> "full", ver |-> built, mtime |-> clock]
  /\ result' = IF only THEN Result("exit", built, startver)
               ELSE Result("ok", built, startver)
  /\ UNCHANGED <<kver, kmtime, clock, only, startver, built, lines, runs, nm>>
  /\ UNCHANGED ksymVars

-----------------------------------------------------------------------------
(* init_syms, the runs and their environment.                              *)

\* A new run of the program: GET_KSYM's and GET_NM's dictionaries start
\* empty, the pickle's ST_MTIME (0 if it cannot be stat'ed) is compared
\* with the kernel's, and the pickle is either rebuilt or loaded.  A pickle
\* truncated by a killed run makes pickle.load raise.
Start ==
  /\ phase = "idle" /\ runs < MaxRuns
  /\ runs' = runs + 1
  /\ startver' = kver
  /\ \E o \in BOOLEAN :
       LET pickle_time == IF pickle.st = "none" THEN 0 ELSE pickle.mtime
       IN  /\ only' = o
           /\ IF kmtime > pickle_time
              THEN /\ phase' = "ksym" /\ built' = kver /\ lines' = 0
                   /\ nm' = <<>> /\ KsymReset
                   /\ UNCHANGED result
              ELSE /\ result' = IF o THEN Result("exit", 0, kver)
                                ELSE IF pickle.st = "full"
                                THEN Result("ok", pickle.ver, kver)
                                ELSE Result("load_error", 0, kver)
                   /\ UNCHANGED <<phase, built, lines, nm>>
                   /\ UNCHANGED ksymVars
  /\ UNCHANGED <<kver, kmtime, pickle, clock>>

\* The run is killed (or fails) between two steps; what is on disk stays.
Crash ==
  /\ phase # "idle"
  /\ phase' = "idle"
  /\ result' = Result("crash", 0, startver)
  /\ UNCHANGED <<kver, kmtime, pickle, clock, only, startver, built, lines,
                 runs, nm>>
  /\ UNCHANGED ksymVars

\* The kernel is rebuilt: vmlinux gets a new version and mtime.
Rebuild ==
  /\ kver < MaxVer
  /\ kver' = kver + 1 /\ kmtime' = clock
  /\ UNCHANGED <<pickle, clock, phase, only, startver, built, lines, runs,
                 nm, result>>
  /\ UNCHANGED ksymVars

\* A second passes.
Tick ==
  /\ clock < MaxClock
  /\ clock' = clock + 1
  /\ UNCHANGED <<kver, kmtime, pickle, phase, only, startver, built, lines,
                 runs, nm, result>>
  /\ UNCHANGED ksymVars

Next ==
  \/ Start
  \/ \E l \in KLines : KsymLine(l)
  \/ KsymEnd
  \/ \E l \in NmLines : NmLine(l)
  \/ NmEnd
  \/ Dump
  \/ Crash
  \/ Rebuild
  \/ Tick

Spec == Init /\ [][Next]_vars

\* How print_map_av (and print_map_scalar, print_map_qcount) names a key
\* address a: by ksym's function::file:line, else by nm's symbol, else by
\* the address itself.
KeyLabel(a) ==
  IF a \in DOMAIN ksym THEN <<"ksym", ksym[a].real, ksym[a].cfl>>
  ELSE IF a \in DOMAIN nm THEN <<"nm", nm[a]>>
  ELSE <<"raw", a>>

-----------------------------------------------------------------------------
(* The cache protocol Symbols implements.                                  *)

\* The stage of SymbolCache a phase of init_syms is in: GET_KSYM and GET_NM
\* build the tables in memory, and the pickle is open after them.
Stage == IF phase \in {"ksym", "nm"} THEN "building"
         ELSE IF phase = "dump" THEN "writing" ELSE "idle"

Cache == INSTANCE SymbolCache WITH stage <- Stage

-----------------------------------------------------------------------------
Ctx == [real : FuncNames \cup {NoName}, cfl : CFiles \cup {NoName},
        inlined : FuncNames \cup {NoName}]

TypeOK ==
  /\ kver \in 1..MaxVer /\ kmtime \in 1..MaxClock /\ clock \in 1..MaxClock
  /\ pickle \in [st : {"none", "partial", "full"}, ver : 0..MaxVer,
                 mtime : 0..MaxClock]
  /\ phase \in {"idle", "ksym", "nm", "dump"}
  /\ DOMAIN ksym \subseteq Pcs /\ \A pc \in DOMAIN ksym : ksym[pc] \in Ctx
  /\ DOMAIN ctx \subseteq Pcs /\ \A pc \in DOMAIN ctx : ctx[pc] \in Ctx
  /\ DOMAIN nm \subseteq NmAddrs /\ \A a \in DOMAIN nm : nm[a] \in NmNames
  /\ result \in [k : {"none", "ok", "exit", "crash", "load_error"},
                 ver : 0..MaxVer, start : 0..MaxVer]

\* Every instruction objdump listed at or above 0xc0000000 has an entry in
\* ksym, whatever lines came between: without one, the post-processor's
\* report names a call site by an nm symbol or by its raw address.
KsymCovers ==
  {pc \in DOMAIN ctx : pc >= KBase} \subseteq DOMAIN ksym

\* record_ksym never rewrites an entry of ksym except the one just before
\* the instruction it is reading: once an address and its predecessor are
\* past, their contexts are final.
KsymRewriteByNext ==
  [][\A pc \in DOMAIN ksym \cap DOMAIN ksym' :
        ksym'[pc] # ksym[pc] => pc + 1 \in DOMAIN ctx' \ DOMAIN ctx]_vars

\* The comment on record_ksym: the entry of PC-1 is written only "if that
\* didn't have an instruction", so the report labels every instruction
\* with the function and file:line it was disassembled under.
OwnEntryKept ==
  \A pc \in DOMAIN ctx : pc >= KBase =>
    KeyLabel(pc) = <<"ksym", ctx[pc].real, ctx[pc].cfl>>

\* The cache protocol: every step of init_syms, GET_KSYM and GET_NM is a
\* step of SymbolCache or leaves the pickle, the kernel, the clock and what
\* runs report alone; parsing objdump and nm output is invisible to it.
CacheRefinement == Cache!Spec

\* init_syms's contract with its callers: a run that gets symbol tables
\* gets those of the kernel it stat'ed (the pickle is a cache of vmlinux's
\* symbols, never stale and never unreadable).
SymbolsCurrent ==
  result.k \in {"ok", "load_error"} =>
    result.k = "ok" /\ result.ver = result.start

=============================================================================
