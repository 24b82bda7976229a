------------------------------ MODULE Scanner ------------------------------
(***************************************************************************)
(* SCAN_OBJ of src/scripts/sync_char_pre.py: the disassembly scanner that  *)
(* walks `objdump --disassemble --line-numbers` output one line at a time *)
(* through an FSM object (fsm.py) and collects the lock-instruction        *)
(* records later printed to sync_char.map.                                 *)
(*                                                                         *)
(* Lines are abstracted to their shape: a function header, an inlined-     *)
(* function marker, a file:line annotation, an instruction (an opcode      *)
(* class and the operand groups the lock regexes capture), a blank line or *)
(* anything else.  A line's address is its position in the stream, so     *)
(* addresses increase as they do in objdump output.  A regex is the set of *)
(* line shapes it matches.                                                 *)
(***************************************************************************)
EXTENDS Naturals, Sequences, FSM

CONSTANTS
  FuncNames,   \* names appearing in function headers "<addr> <name>:"
  InlNames,    \* names appearing in inlined-function markers "name():"
  NoName,      \* the empty name '' SCAN_OBJ starts with and resets to
  FileLines,   \* file:line annotations; BogusFL is the initial value
  BogusFL,
  Ops,         \* opcode classes of instruction lines
  Cont,        \* the class of a continuation line: bytes but no mnemonic
  Operands,    \* which operand groups (offset, register) an instruction has
  Pats,        \* the instruction regexes of the two catalogs
  PatOps,      \* PatOps[p]: the opcode classes regex p matches
  GroupPats,   \* the regexes that define the groups 'offset' and 'reg'
  NI,          \* noninlined_funcs: name -> [pat, flags, sync]
  RIS,         \* re_i_s: sequence of [pat, fname, flmatch, flags, sync]
  MaxLines     \* bound on the length of the input stream

\* The flags of sync_char_pre.py lines 27-38.
Flags == {"LOCK", "UNLOCK", "TRYLOCK", "INLINED", "EAX", "TIME_RET",
          "NOADDR", "LOOP_UNROLL"}

\* The FSM's state names and the fixed regexes SCAN_OBJ registers.
StateNames == {"scan", "inlined", "in_func"}
FixedKeys == {"re_func_def", "re_func", "re_fl", "re_whitespace",
              "re_anyinst_i"}

NIEntry == [pat : Pats, flags : SUBSET Flags, sync : STRING]
RISEntry == [pat : Pats, fname : STRING, flmatch : STRING,
             flags : SUBSET Flags, sync : STRING]

ASSUME ScannerAssumption ==
  /\ MaxLines \in Nat
  /\ Cont \in Ops
  /\ Operands \subseteq {"off", "reg", "offreg", "none"}
  /\ GroupPats \subseteq Pats
  /\ Pats \cap (FixedKeys \cup {NoneKey}) = {}
  /\ PatOps \in [Pats -> SUBSET Ops]
  /\ DOMAIN NI \subseteq FuncNames
  /\ NI \in [DOMAIN NI -> NIEntry]
  /\ RIS \in Seq(RISEntry) /\ Len(RIS) >= 1
  /\ FuncNames \cup InlNames \subseteq STRING
  /\ NoName \notin FuncNames \cup InlNames
  /\ BogusFL \in FileLines /\ FileLines \subseteq STRING

-----------------------------------------------------------------------------
(* Input lines.                                                            *)

Addr == 0..MaxLines

LinesAt(a) ==
  [k : {"def"}, addr : {a}, name : FuncNames] \cup
  [k : {"inl"}, name : InlNames] \cup
  [k : {"fl"}, fl : FileLines \ {BogusFL}] \cup
  [k : {"inst"}, addr : {a}, op : Ops, opnd : Operands] \cup
  {[k |-> "blank"], [k |-> "junk"]}

\* Whether regex key k matches line l (re.match on the line).
Rx(k, l) ==
  CASE k = "re_func_def"   -> l.k = "def"
    [] k = "re_func"       -> l.k = "inl"
    [] k = "re_fl"         -> l.k = "fl"
    [] k = "re_whitespace" -> l.k = "blank"
    [] k = "re_anyinst_i"  -> l.k = "inst" /\ l.op # Cont
    [] OTHER               -> l.k = "inst" /\ l.op \in PatOps[k]

\* The rules execute() may pick from row for line l: SCAN_OBJ registers no
\* literal keys, only compiled regexes and None.
Lookup(row, l) ==
  Candidates(row, {}, {r.key : r \in {q \in row : q.key # NoneKey /\ Rx(q.key, l)}})

-----------------------------------------------------------------------------
(* The FSM's table: fsm.py's states dictionary, a function whose domain  *)
(* is the set of states that have a row.                                  *)

ScanRow ==
  {Rule("re_func_def", "in_func", "in_func"),
   Rule("re_func", "inlined", "set_func_name"),
   Rule("re_fl", "inlined", "set_fl"),
   Rule(NoneKey, "scan", "none")}

\* Mutant: the None rule of 'inlined' forgotten.
InlinedRowNoDefault ==
  {Rule("re_fl", "inlined", "set_fl"),
   Rule("re_func", "inlined", "set_func_name"),
   Rule("re_anyinst_i", "inlined", "found_nexti"),
   Rule("re_func_def", "in_func", "in_func")}

InlinedRow ==
  {Rule("re_fl", "inlined", "set_fl"),
   Rule("re_func", "inlined", "set_func_name"),
   Rule("re_anyinst_i", "inlined", "found_nexti"),
   Rule("re_func_def", "in_func", "in_func"),
   Rule(NoneKey, "inlined", "none")}

\* The row _fsm_in_func installs for lock regex pat.
InFuncRow(pat, unrolled) ==
  IF unrolled
  THEN {Rule("re_func_def", "in_func", "in_func"),
        Rule(pat, "in_func", "found_lock_addr"),
        Rule("re_whitespace", "scan", "none"),
        Rule(NoneKey, "in_func", "none")}
  ELSE {Rule("re_func_def", "in_func", "in_func"),
        Rule(pat, "scan", "found_lock_addr"),
        Rule(NoneKey, "in_func", "none")}

InFuncRowOf(f) == InFuncRow(NI[f].pat, "LOOP_UNROLL" \in NI[f].flags)

InitStates ==
  [s \in {"scan", "inlined"} |-> IF s = "scan" THEN ScanRow ELSE InlinedRow]

\* FSM.del_state('in_func') followed by the add() calls of _fsm_in_func.
InstallInFunc(sts, row) ==
  [s \in DOMAIN sts \cup {"in_func"} |-> IF s = "in_func" THEN row ELSE sts[s]]

-----------------------------------------------------------------------------
(* Lock records (func_rec and fr_lock).                                    *)

\* The lock_pc "zero" of a placeholder not yet resolved: no line has
\* address 0.
Zero == 0

\* record_lock_info: the offset and register fields.  A regex without the
\* groups raises IndexError, which leaves the defaults; F_EAX forces eax.
Off(pat, l) ==
  IF pat \in GroupPats /\ l.opnd \in {"off", "offreg"} THEN "off" ELSE "0x0"
Reg(pat, l, flags) ==
  IF "EAX" \in flags THEN "eax"
  ELSE IF pat \in GroupPats /\ l.opnd \in {"reg", "offreg"} THEN "reg"
  ELSE "nil"

\* The assertion of record_lock_info: a lock that has an address must be
\* locatable.
Malformed(pat, l, flags) ==
  /\ "NOADDR" \notin flags
  /\ Off(pat, l) = "0x0"
  /\ Reg(pat, l, flags) = "nil"

-----------------------------------------------------------------------------
VARIABLES
  state,       \* FSM.state
  states,      \* FSM.states: state name -> row
  func_name,   \* SCAN_OBJ.func_name
  func_pc,     \* SCAN_OBJ.func_pc
  file_line,   \* SCAN_OBJ.file_line
  lock_ra,     \* SCAN_OBJ.lock_ra
  insts,       \* SCAN_OBJ.insts
  status,      \* "running", "done" (end of input) or "aborted" (exception)
  lineno,      \* lines consumed so far
  ri,          \* index of found_nexti's loop over re_i_s; 0 outside it
  cur,         \* the line and next state of the execute() that is in that loop
  last_inst,   \* history: address of the last instruction line read (0: none)
  fls_since_name \* history: file:line annotations read since func_name was
                 \* set, counted up to 2

vars == <<state, states, func_name, func_pc, file_line, lock_ra, insts,
          status, lineno, ri, cur, last_inst, fls_since_name>>

\* real_found_lock_addr followed by record_lock_info: the fr_lock record
\* and, unless F_EAX, a placeholder to be given the next instruction's pc.
NewRecords(l, pat, fname, flags, sync) ==
  <<[kind |-> "lock", func_pc |-> func_pc, func |-> fname, pc |-> l.addr,
     off |-> Off(pat, l), reg |-> Reg(pat, l, flags), flags |-> flags,
     sync |-> sync]>>
  \o (IF "EAX" \in flags THEN <<>>
      ELSE <<[kind |-> "ph", func_pc |-> l.addr, func |-> fname, pc |-> Zero]>>)

\* found_nexti: the catalog entry e accepts instruction l.
Accepts(e, l) ==
  /\ Rx(e.pat, l)
  /\ func_name = e.fname \/ file_line = e.flmatch

\* Mutant: the loop cursor never wraps back to 0.
NextCursorNoWrap(i) == i + 1

\* The cursor of found_nexti's loop after entry i.
NextCursor(i) == IF i = Len(RIS) THEN 0 ELSE i + 1

Init ==
  /\ state = "scan"
  /\ states = InitStates
  /\ func_name = NoName
  /\ func_pc = 0
  /\ file_line = BogusFL
  /\ lock_ra = 0
  /\ insts = <<>>
  /\ status = "running"
  /\ lineno = 0
  /\ ri = 0
  /\ cur = [line |-> [k |-> "none"], next |-> "scan"]
  /\ last_inst = 0
  /\ fls_since_name = 0

-----------------------------------------------------------------------------
(* The actions a rule of the table runs.  Each sets the FSM state to the  *)
(* rule's next state unless it raises.                                     *)

\* Mutant: an uninteresting function does not raise RestartException.
InFuncNoRestart(l, r) ==
  /\ r.act = "in_func"
  /\ func_pc' = l.addr
  /\ IF l.name \in DOMAIN NI
     THEN /\ func_name' = l.name
          /\ states' = InstallInFunc(states, InFuncRowOf(l.name))
     ELSE /\ func_name' = NoName
          /\ UNCHANGED states
  /\ state' = r.next
  /\ fls_since_name' = 0
  /\ UNCHANGED <<file_line, lock_ra, insts, status, ri, cur>>

\* in_func: a function header.  An interesting function installs its row
\* for 'in_func'; any other raises RestartException('scan').
InFunc(l, r) ==
  /\ r.act = "in_func"
  /\ func_pc' = l.addr
  /\ IF l.name \in DOMAIN NI
     THEN /\ func_name' = l.name
          /\ states' = InstallInFunc(states, InFuncRowOf(l.name))
          /\ state' = r.next
     ELSE /\ func_name' = NoName
          /\ state' = "scan"
          /\ UNCHANGED states
  /\ fls_since_name' = 0
  /\ UNCHANGED <<file_line, lock_ra, insts, status, ri, cur>>

\* set_func_name: an inlined-function marker; __xchg is ignored.
SetFuncName(l, r) ==
  /\ r.act = "set_func_name"
  /\ func_name' = IF l.name # "__xchg" THEN l.name ELSE func_name
  /\ fls_since_name' = IF l.name # "__xchg" THEN 0 ELSE fls_since_name
  /\ state' = r.next
  /\ UNCHANGED <<states, func_pc, file_line, lock_ra, insts, status, ri, cur>>

\* set_fl: a file:line annotation.
SetFl(l, r) ==
  /\ r.act = "set_fl"
  /\ file_line' = l.fl
  /\ fls_since_name' = IF fls_since_name < 2 THEN fls_since_name + 1 ELSE 2
  /\ state' = r.next
  /\ UNCHANGED <<states, func_name, func_pc, lock_ra, insts, status, ri, cur>>

\* A rule without an action.
NoAction(r) ==
  /\ r.act = "none"
  /\ state' = r.next
  /\ UNCHANGED <<states, func_name, func_pc, file_line, lock_ra, insts,
                 status, ri, cur, fls_since_name>>

\* found_lock_addr: the lock instruction of the current non-inlined
\* function.  A failed assertion (or a KeyError) propagates out of
\* execute() and out of scan(), ending the program.
FoundLockAddr(l, r) ==
  /\ r.act = "found_lock_addr"
  /\ IF func_name \notin DOMAIN NI \/ Malformed(r.key, l, NI[func_name].flags)
     THEN /\ status' = "aborted"
          /\ UNCHANGED <<state, lock_ra, insts>>
     ELSE /\ insts' = insts \o NewRecords(l, r.key, func_name,
                                          NI[func_name].flags, NI[func_name].sync)
          /\ lock_ra' = l.addr
          /\ state' = r.next
          /\ UNCHANGED status
  /\ UNCHANGED <<states, func_name, func_pc, file_line, ri, cur, fls_since_name>>

\* Mutant: the last record's lock_pc is overwritten whatever it holds.
FoundNextiAnyPc(l, r) ==
  /\ r.act = "found_nexti"
  /\ insts' = IF insts # <<>>
              THEN [insts EXCEPT ![Len(insts)].pc = l.addr]
              ELSE insts
  /\ ri' = 1
  /\ cur' = [line |-> l, next |-> r.next]
  /\ UNCHANGED <<state, states, func_name, func_pc, file_line, lock_ra, status,
                 fls_since_name>>

\* found_nexti, first part: give a pending placeholder this instruction's
\* address, then start the loop over the inlined-signature catalog.
FoundNexti(l, r) ==
  /\ r.act = "found_nexti"
  /\ insts' = IF insts # <<>> /\ insts[Len(insts)].pc = Zero
              THEN [insts EXCEPT ![Len(insts)].pc = l.addr]
              ELSE insts
  /\ ri' = 1
  /\ cur' = [line |-> l, next |-> r.next]
  /\ UNCHANGED <<state, states, func_name, func_pc, file_line, lock_ra, status,
                 fls_since_name>>

\* One execute() call from scan()'s loop: the FSM looks up the current
\* state's row and runs the chosen rule's action.  The FSMError branch
\* (no row, or no rule applies; scan() prints 'Invalid input') is left
\* out: ExecuteTotal shows it is never taken.  last_inst records the
\* address of the instruction line read last.
ReadLine(l) ==
  /\ status = "running"
  /\ ri = 0
  /\ lineno < MaxLines
  /\ lineno' = lineno + 1
  /\ last_inst' = IF l.k = "inst" /\ l.op # Cont THEN l.addr ELSE last_inst
  /\ \E r \in Lookup(states[state], l) :
       \/ InFunc(l, r)
       \/ SetFuncName(l, r)
       \/ SetFl(l, r)
       \/ NoAction(r)
       \/ FoundLockAddr(l, r)
       \/ FoundNexti(l, r)

\* found_nexti, one iteration of its loop over re_i_s: every entry that
\* accepts the instruction is recorded (there is no break).  The FSM moves
\* to the rule's next state when the loop ends.
NextiEntry ==
  /\ status = "running"
  /\ ri \in 1..Len(RIS)
  /\ LET e == RIS[ri]
         l == cur.line
     IN  IF Accepts(e, l) /\ Malformed(e.pat, l, e.flags)
         THEN /\ status' = "aborted"
              /\ UNCHANGED <<state, insts, lock_ra, ri>>
         ELSE /\ IF Accepts(e, l)
                 THEN /\ insts' = insts \o NewRecords(l, e.pat, e.fname,
                                                      e.flags, e.sync)
                      /\ lock_ra' = l.addr
                 ELSE UNCHANGED <<insts, lock_ra>>
              /\ ri' = NextCursor(ri)
              /\ state' = IF NextCursor(ri) = 0 THEN cur.next ELSE state
              /\ UNCHANGED status
  /\ UNCHANGED <<states, func_name, func_pc, file_line, lineno, cur,
                 last_inst, fls_since_name>>

\* The input stream ends; scan() then prints the fr_lock records.
EndOfInput ==
  /\ status = "running"
  /\ ri = 0
  /\ status' = "done"
  /\ UNCHANGED <<state, states, func_name, func_pc, file_line, lock_ra,
                 insts, lineno, ri, cur, last_inst, fls_since_name>>

Next ==
  \/ \E l \in LinesAt(lineno + 1) : ReadLine(l)
  \/ NextiEntry
  \/ EndOfInput

Spec == Init /\ [][Next]_vars

-----------------------------------------------------------------------------
(* Properties.                                                             *)

LockRec == [kind : {"lock"}, func_pc : Addr, func : STRING, pc : Addr,
            off : {"0x0", "off"}, reg : {"nil", "reg", "eax"},
            flags : SUBSET Flags, sync : STRING]
PhRec == [kind : {"ph"}, func_pc : Addr, func : STRING, pc : Addr]

Line == UNION {LinesAt(a) : a \in Addr}

Row == SUBSET [key : Pats \cup FixedKeys \cup {NoneKey}, next : StateNames,
               act : {"in_func", "set_func_name", "set_fl", "found_nexti",
                      "found_lock_addr", "none"}]

\* Every variable has the type the code gives it.
TypeOK ==
  /\ state \in StateNames
  /\ DOMAIN states \subseteq StateNames
  /\ \A s \in DOMAIN states : states[s] \in Row
  /\ func_name \in FuncNames \cup InlNames \cup {NoName}
  /\ func_pc \in Addr
  /\ file_line \in FileLines
  /\ lock_ra \in Addr
  /\ insts \in Seq(LockRec \cup PhRec)
  /\ status \in {"running", "done", "aborted"}
  /\ lineno \in Addr
  /\ ri \in 0..Len(RIS)
  /\ cur \in [line : Line \cup {[k |-> "none"]}, next : StateNames]
  /\ last_inst \in Addr
  /\ fls_since_name \in 0..2

\* Whenever the FSM is in 'in_func', the row installed for 'in_func' is the
\* one of the current function, and that function is a non-inlined lock
\* function.  This is what makes the in-place rebuild of the table
\* (_fsm_in_func, called from inside execute()) safe: execute() never meets
\* a missing state (FSMError) and found_lock_addr's lookup
\* ni_funcs[func_name] never fails, whatever the order of headers, markers
\* and instructions.
InFuncInstalled ==
  state = "in_func" =>
    /\ func_name \in DOMAIN NI
    /\ "in_func" \in DOMAIN states
    /\ states["in_func"] = InFuncRowOf(func_name)

\* execute() never raises FSMError while scan() runs: the current state
\* always has a row, and for every line some rule of that row applies.  It
\* depends on every row having a None rule and on 'in_func' being
\* (re)built by _fsm_in_func before the FSM first moves to it.
ExecuteTotal ==
  status = "running" /\ ri = 0 =>
    /\ state \in DOMAIN states
    /\ \A l \in Line : Lookup(states[state], l) # {}

-----------------------------------------------------------------------------
(* The inductive invariant behind TypeOK, InFuncInstalled and             *)
(* ExecuteTotal.                                                           *)

\* What the rules of a row promise about the lines their actions read and
\* the states they move to.
RowKeysOK(row) ==
  \A r \in row :
    /\ r.act = "in_func" => r.key = "re_func_def"
    /\ r.act = "set_func_name" => r.key = "re_func" /\ r.next = "inlined"
    /\ r.act = "set_fl" => r.key = "re_fl" /\ r.next = "inlined"
    /\ r.act = "found_nexti" => r.key = "re_anyinst_i" /\ r.next = "inlined"
    /\ r.act = "found_lock_addr" => r.key \in Pats
    /\ r.act # "none" => r.key # NoneKey

\* A row with a None rule, so that execute() cannot fail on it.
HasDefault(row) == \E r \in row : r.key = NoneKey

\* The rows of 'scan' and 'inlined' move to 'in_func' only through in_func,
\* and only 'inlined' runs found_nexti.
OuterRow(row) ==
  \A r \in row : r.next = "in_func" => r.act = "in_func"

\* The table as _init_fsm built it, with 'in_func' holding the row of some
\* non-inlined function once one has been entered.
TablesOK ==
  /\ {"scan", "inlined"} \subseteq DOMAIN states
  /\ states["scan"] = ScanRow
  /\ states["inlined"] = InlinedRow
  /\ "in_func" \in DOMAIN states =>
       \E f \in DOMAIN NI : states["in_func"] = InFuncRowOf(f)

\* Inside found_nexti's loop the FSM is in 'inlined', stays there, and the
\* line is an instruction.
LoopOK ==
  ri # 0 => /\ state = "inlined"
            /\ cur.next = "inlined"
            /\ cur.line.k = "inst"
            /\ cur.line.addr \in Addr

\* The conjunction is inductive: each step of Next preserves it.
IInv == TypeOK /\ TablesOK /\ InFuncInstalled /\ LoopOK

\* Spec 4.2: "First acceptable catalog entry wins": no instruction gives
\* rise to two lock records.
OneRecordPerInstruction ==
  \A i, j \in 1..Len(insts) :
    i # j /\ insts[i].kind = "lock" /\ insts[j].kind = "lock" =>
      insts[i].pc # insts[j].pc

\* Spec 7: a malformed lock record discards that record and scanning
\* resumes; it never aborts the whole scan.
ScanNeverAborts == status # "aborted"

\* The comment closing sync_char_pre.py: "Can't be too lazy about allowing
\* func_name & file_line persist"; in its example (a marker, the inlined
\* function's own file:line, its movb, a file:line of mm/shmem.c, another
\* movb) "the second movb is not a spin_unlock".  So an entry of re_i_s
\* accepts by the inlined function's name alone only while at most one
\* file:line annotation (the function's own) has come since the name.
NameMatchIsFresh ==
  ri # 0 /\ Accepts(RIS[ri], cur.line) /\ file_line # RIS[ri].flmatch =>
    fls_since_name <= 1

\* Spec 4.2: a placeholder record ("zero" lock_pc) is given the address of
\* the instruction that follows its lock instruction: when found_nexti
\* resolves one, the instruction read just before is that lock instruction.
PlaceholderTakesNextInstruction ==
  [][\A i \in 1..Len(insts) :
       insts[i].kind = "ph" /\ insts[i].pc = Zero /\ insts'[i].pc # Zero =>
         insts[i].func_pc = last_inst]_vars

\* The records written to sync_char.map are final: a step of the scanner
\* only appends to insts, except that found_nexti may give a placeholder
\* whose lock_pc is still "zero" an address, once; no lock record and no
\* resolved placeholder is ever rewritten, whatever lines follow.
RecordsFinal ==
  [][/\ Len(insts) <= Len(insts')
     /\ \A i \in 1..Len(insts) :
          insts'[i] # insts[i] =>
            /\ insts[i].kind = "ph" /\ insts[i].pc = Zero
            /\ insts'[i] = [insts[i] EXCEPT !.pc = insts'[i].pc]]_vars
=============================================================================
