--------------------------- MODULE ScannerProofs ---------------------------
(***************************************************************************)
(* Proofs about Scanner for every value of its constants: the inductive    *)
(* invariant IInv holds in every reachable state, hence the type           *)
(* invariant, InFuncInstalled and ExecuteTotal do.                         *)
(***************************************************************************)
EXTENDS Scanner, SequenceTheorems, TLAPS

USE ScannerAssumption

-----------------------------------------------------------------------------
(* Lemmas on lines and on the lookup of execute().                         *)

\* What a line of the input stream at address a carries, by its shape.
LEMMA LinesAtShape ==
  ASSUME NEW a, NEW l \in LinesAt(a)
  PROVE  /\ l.k \in {"def", "inl", "fl", "inst", "blank", "junk"}
         /\ l.k = "def" => l.addr = a /\ l.name \in FuncNames
         /\ l.k = "inl" => l.name \in InlNames
         /\ l.k = "fl" => l.fl \in FileLines
         /\ l.k = "inst" => l.addr = a /\ l.op \in Ops /\ l.opnd \in Operands
BY DEF LinesAt

\* A line of address a \in Addr is a member of Line.
LEMMA LinesAtLine ==
  ASSUME NEW a \in Addr, NEW l \in LinesAt(a)
  PROVE  l \in Line
BY DEF Line

\* A rule execute() picks belongs to the row, and a regex rule matches.
LEMMA CandidateOfRow ==
  ASSUME NEW row, NEW l, NEW r \in Lookup(row, l)
  PROVE  r \in row /\ (r.key # NoneKey => Rx(r.key, l))
BY DEF Lookup, Candidates

\* A row with a None rule always yields a rule.
LEMMA DefaultApplies ==
  ASSUME NEW row, HasDefault(row), NEW l
  PROVE  Lookup(row, l) # {}
BY DEF Lookup, Candidates, HasDefault

\* The regex of each action selects the line shape the action reads.
LEMMA RxShape ==
  ASSUME NEW k, NEW l, Rx(k, l)
  PROVE  /\ k = "re_func_def" => l.k = "def"
         /\ k = "re_func" => l.k = "inl"
         /\ k = "re_fl" => l.k = "fl"
         /\ k = "re_anyinst_i" => l.k = "inst"
         /\ k \in Pats => l.k = "inst"
<1>1. k \in Pats => k \notin FixedKeys
  BY DEF FixedKeys
<1>. QED
  BY <1>1 DEF Rx, FixedKeys

-----------------------------------------------------------------------------
(* Lemmas on the rows of the table.                                        *)

\* The rows _init_fsm builds.
LEMMA OuterRowsOK ==
  /\ ScanRow \in Row /\ RowKeysOK(ScanRow) /\ HasDefault(ScanRow)
  /\ OuterRow(ScanRow)
  /\ \A r \in ScanRow : r.act # "found_nexti" /\ r.act # "found_lock_addr"
  /\ InlinedRow \in Row /\ RowKeysOK(InlinedRow) /\ HasDefault(InlinedRow)
  /\ OuterRow(InlinedRow)
  /\ \A r \in InlinedRow : r.act # "found_lock_addr"
BY DEF ScanRow, InlinedRow, Row, RowKeysOK, HasDefault, OuterRow, Rule,
       FixedKeys, NoneKey, StateNames

\* The row _fsm_in_func builds for a non-inlined function.
LEMMA InFuncRowOK ==
  ASSUME NEW f \in DOMAIN NI
  PROVE  /\ InFuncRowOf(f) \in Row
         /\ RowKeysOK(InFuncRowOf(f))
         /\ HasDefault(InFuncRowOf(f))
         /\ \A r \in InFuncRowOf(f) : r.act # "found_nexti"
<1>1. NI[f].pat \in Pats /\ NI[f].pat # NoneKey /\ NI[f].pat \notin FixedKeys
  BY DEF NIEntry, FixedKeys
<1>2. ASSUME NEW pat \in Pats, pat # NoneKey, pat \notin FixedKeys, NEW u \in BOOLEAN
      PROVE  /\ InFuncRow(pat, u) \in Row
             /\ RowKeysOK(InFuncRow(pat, u))
             /\ HasDefault(InFuncRow(pat, u))
             /\ \A r \in InFuncRow(pat, u) : r.act # "found_nexti"
  <2>1. InFuncRow(pat, u) \in Row
    BY <1>2 DEF InFuncRow, Row, Rule, StateNames, FixedKeys, NoneKey
  <2>2. RowKeysOK(InFuncRow(pat, u))
    BY <1>2 DEF InFuncRow, RowKeysOK, Rule, FixedKeys, NoneKey
  <2>3. HasDefault(InFuncRow(pat, u))
    BY <1>2 DEF InFuncRow, HasDefault, Rule, NoneKey
  <2>4. \A r \in InFuncRow(pat, u) : r.act # "found_nexti"
    BY <1>2 DEF InFuncRow, Rule
  <2>. QED
    BY <2>1, <2>2, <2>3, <2>4
<1>3. ("LOOP_UNROLL" \in NI[f].flags) \in BOOLEAN
  OBVIOUS
<1>. QED
  BY <1>1, <1>2, <1>3, Zenon DEF InFuncRowOf
-----------------------------------------------------------------------------
(* The row of the current state.                                           *)

\* Under IInv the current state has a row, and that row is one _init_fsm
\* or _fsm_in_func built: which actions it can run, where they lead.
LEMMA CurrentRow ==
  ASSUME IInv
  PROVE  /\ state \in DOMAIN states
         /\ states[state] \in Row
         /\ RowKeysOK(states[state])
         /\ HasDefault(states[state])
         /\ state # "in_func" => OuterRow(states[state])
         /\ \A r \in states[state] : r.act = "found_nexti" => state = "inlined"
         /\ \A r \in states[state] : r.act = "found_lock_addr" => state = "in_func"
<1>1. CASE state = "scan"
  BY <1>1, OuterRowsOK DEF IInv, TablesOK
<1>2. CASE state = "inlined"
  BY <1>2, OuterRowsOK DEF IInv, TablesOK
<1>3. CASE state = "in_func"
  <2>1. func_name \in DOMAIN NI /\ "in_func" \in DOMAIN states
        /\ states["in_func"] = InFuncRowOf(func_name)
    BY <1>3 DEF IInv, InFuncInstalled
  <2>. QED
    BY <1>3, <2>1, InFuncRowOK
<1>. QED
  BY <1>1, <1>2, <1>3 DEF IInv, TypeOK, StateNames

\* Giving a record of insts another pc keeps its type.
LEMMA PcUpdate ==
  ASSUME NEW x \in LockRec \cup PhRec, NEW a \in Addr
  PROVE  [x EXCEPT !.pc = a] \in LockRec \cup PhRec
<1>1. CASE x \in LockRec
  BY <1>1 DEF LockRec
<1>2. CASE x \in PhRec
  BY <1>2 DEF PhRec
<1>. QED
  BY <1>1, <1>2

\* The records real_found_lock_addr appends have the type of insts.
LEMMA NewRecordsType ==
  ASSUME NEW l, l.k = "inst", l.addr \in Addr, NEW pat, NEW fname \in STRING,
         NEW flags \in SUBSET Flags, NEW sync \in STRING, func_pc \in Addr
  PROVE  NewRecords(l, pat, fname, flags, sync) \in Seq(LockRec \cup PhRec)
<1>1. /\ Off(pat, l) \in {"0x0", "off"}
      /\ Reg(pat, l, flags) \in {"nil", "reg", "eax"}
  BY DEF Off, Reg
<1>2. [kind |-> "lock", func_pc |-> func_pc, func |-> fname, pc |-> l.addr,
       off |-> Off(pat, l), reg |-> Reg(pat, l, flags), flags |-> flags,
       sync |-> sync] \in LockRec
  BY <1>1 DEF LockRec
<1>3. [kind |-> "ph", func_pc |-> l.addr, func |-> fname, pc |-> Zero] \in PhRec
  BY DEF PhRec, Zero, Addr
<1>4. CASE "EAX" \in flags
  <2>1. NewRecords(l, pat, fname, flags, sync) =
         <<[kind |-> "lock", func_pc |-> func_pc, func |-> fname, pc |-> l.addr,
            off |-> Off(pat, l), reg |-> Reg(pat, l, flags), flags |-> flags,
            sync |-> sync]>>
    BY <1>4 DEF NewRecords
  <2>. QED
    BY <1>2, <2>1
<1>5. CASE "EAX" \notin flags
  <2>1. NewRecords(l, pat, fname, flags, sync) =
         <<[kind |-> "lock", func_pc |-> func_pc, func |-> fname, pc |-> l.addr,
            off |-> Off(pat, l), reg |-> Reg(pat, l, flags), flags |-> flags,
            sync |-> sync]>>
         \o <<[kind |-> "ph", func_pc |-> l.addr, func |-> fname, pc |-> Zero]>>
    BY <1>5 DEF NewRecords
  <2>. QED
    BY <1>2, <1>3, <2>1, ConcatProperties
<1>. QED
  BY <1>4, <1>5
-----------------------------------------------------------------------------
(* IInv is inductive.                                                      *)

\* The initial state: the table _init_fsm builds, no records.
LEMMA InitIInv == Init => IInv
<1>. SUFFICES ASSUME Init PROVE IInv
  OBVIOUS
<1>1. TypeOK
  <2>1. DOMAIN states \subseteq StateNames /\ \A s \in DOMAIN states : states[s] \in Row
    BY OuterRowsOK DEF Init, InitStates, StateNames
  <2>2. cur \in [line : Line \cup {[k |-> "none"]}, next : StateNames]
    BY DEF Init, StateNames
  <2>3. ri \in 0..Len(RIS) /\ insts \in Seq(LockRec \cup PhRec)
    BY EmptySeq, LenProperties DEF Init
  <2>4. /\ state \in StateNames
        /\ func_name \in FuncNames \cup InlNames \cup {NoName}
        /\ func_pc \in Addr /\ lock_ra \in Addr /\ lineno \in Addr
        /\ last_inst \in Addr /\ fls_since_name \in 0..2
        /\ file_line \in FileLines
        /\ status \in {"running", "done", "aborted"}
    BY DEF Init, StateNames, Addr
  <2>. QED
    BY <2>1, <2>2, <2>3, <2>4 DEF TypeOK
<1>2. TablesOK
  BY DEF Init, TablesOK, InitStates
<1>. QED
  BY <1>1, <1>2 DEF IInv, InFuncInstalled, LoopOK, Init

\* One execute() call of scan()'s loop preserves IInv.
LEMMA ReadLineIInv ==
  ASSUME IInv, NEW l, l \in LinesAt(lineno + 1), ReadLine(l)
  PROVE  IInv'
<1>1. /\ lineno + 1 \in Addr
      /\ lineno' \in Addr
      /\ last_inst' \in Addr
      /\ l \in Line
  <2>1. lineno + 1 \in Addr /\ lineno' = lineno + 1
    <3>1. lineno < MaxLines /\ lineno' = lineno + 1
      BY DEF ReadLine
    <3>. QED
      BY <3>1 DEF IInv, TypeOK, Addr
  <2>2. last_inst' \in Addr
    BY <2>1, LinesAtShape DEF ReadLine, IInv, TypeOK
  <2>. QED
    BY <2>1, <2>2, LinesAtLine
<1>2. PICK r \in Lookup(states[state], l) :
        \/ InFunc(l, r)
        \/ SetFuncName(l, r)
        \/ SetFl(l, r)
        \/ NoAction(r)
        \/ FoundLockAddr(l, r)
        \/ FoundNexti(l, r)
  BY DEF ReadLine
<1>3. /\ r \in states[state]
      /\ r.key # NoneKey => Rx(r.key, l)
  BY CandidateOfRow
<1>4. /\ r.next \in StateNames
      /\ r.act = "in_func" => r.key = "re_func_def"
      /\ r.act = "set_func_name" => r.key = "re_func" /\ r.next = "inlined"
      /\ r.act = "set_fl" => r.key = "re_fl" /\ r.next = "inlined"
      /\ r.act = "found_nexti" => r.key = "re_anyinst_i" /\ r.next = "inlined"
                                  /\ state = "inlined"
      /\ r.act = "found_lock_addr" => r.key \in Pats /\ state = "in_func"
      /\ r.act # "none" => r.key # NoneKey
      /\ state # "in_func" /\ r.next = "in_func" => r.act = "in_func"
  BY <1>3, CurrentRow DEF Row, RowKeysOK, OuterRow
<1>5. ri = 0 /\ status = "running"
  BY DEF ReadLine
<1>6. CASE InFunc(l, r)
  <2>1. l.k = "def" /\ l.addr = lineno + 1 /\ l.name \in FuncNames
    BY <1>3, <1>4, <1>6, RxShape, LinesAtShape DEF InFunc
  <2>2. CASE l.name \in DOMAIN NI
    <3>1. TypeOK'
      <4>1. /\ DOMAIN states' \subseteq StateNames
            /\ \A s \in DOMAIN states' : states'[s] \in Row
        <5>1. states' = InstallInFunc(states, InFuncRowOf(l.name))
          BY <1>6, <2>2 DEF InFunc
        <5>2. InFuncRowOf(l.name) \in Row
          BY <2>2, InFuncRowOK
        <5>. QED
          BY <5>1, <5>2 DEF IInv, TypeOK, InstallInFunc, StateNames
      <4>. QED
        BY <1>1, <1>4, <1>6, <2>1, <2>2, <4>1 DEF IInv, TypeOK, InFunc
    <3>2. TablesOK'
      BY <1>6, <2>2 DEF IInv, TablesOK, InFunc, InstallInFunc
    <3>3. InFuncInstalled'
      BY <1>6, <2>2 DEF InFuncInstalled, InFunc, InstallInFunc
    <3>. QED
      BY <1>5, <1>6, <3>1, <3>2, <3>3 DEF IInv, LoopOK, InFunc
  <2>3. CASE l.name \notin DOMAIN NI
    <3>1. TypeOK'
      BY <1>1, <1>6, <2>1, <2>3 DEF IInv, TypeOK, InFunc, StateNames
    <3>. QED
      BY <1>5, <1>6, <2>3, <3>1 DEF IInv, TablesOK, InFuncInstalled, LoopOK,
                                   InFunc
  <2>. QED
    BY <2>2, <2>3
<1>7. CASE SetFuncName(l, r)
  <2>1. l.k = "inl" /\ l.name \in InlNames
    BY <1>3, <1>4, <1>7, RxShape, LinesAtShape DEF SetFuncName
  <2>. QED
    BY <1>1, <1>4, <1>5, <1>7, <2>1
    DEF SetFuncName, IInv, TypeOK, TablesOK, InFuncInstalled, LoopOK, StateNames
<1>8. CASE SetFl(l, r)
  <2>1. l.k = "fl" /\ l.fl \in FileLines
    BY <1>3, <1>4, <1>8, RxShape, LinesAtShape DEF SetFl
  <2>. QED
    BY <1>1, <1>4, <1>5, <1>8, <2>1
    DEF SetFl, IInv, TypeOK, TablesOK, InFuncInstalled, LoopOK, StateNames
<1>9. CASE NoAction(r)
  BY <1>1, <1>4, <1>5, <1>9
  DEF NoAction, IInv, TypeOK, TablesOK, InFuncInstalled, LoopOK
<1>10. CASE FoundLockAddr(l, r)
  <2>1. l.k = "inst" /\ l.addr = lineno + 1
    BY <1>3, <1>4, <1>10, RxShape, LinesAtShape DEF FoundLockAddr
  <2>2. CASE func_name \notin DOMAIN NI \/ Malformed(r.key, l, NI[func_name].flags)
    BY <1>1, <1>5, <1>10, <2>2
    DEF FoundLockAddr, IInv, TypeOK, TablesOK, InFuncInstalled, LoopOK
  <2>3. CASE ~(func_name \notin DOMAIN NI \/ Malformed(r.key, l, NI[func_name].flags))
    <3>1. /\ func_name \in STRING
          /\ NI[func_name].flags \in SUBSET Flags
          /\ NI[func_name].sync \in STRING
      BY <2>3 DEF NIEntry
    <3>2. NewRecords(l, r.key, func_name, NI[func_name].flags,
                     NI[func_name].sync) \in Seq(LockRec \cup PhRec)
      BY <1>1, <2>1, <3>1, NewRecordsType DEF IInv, TypeOK
    <3>3. insts' \in Seq(LockRec \cup PhRec)
      <4>1. insts' = insts \o NewRecords(l, r.key, func_name, NI[func_name].flags,
                                        NI[func_name].sync)
        BY <1>10, <2>3 DEF FoundLockAddr
      <4>. QED
        BY <3>2, <4>1, ConcatProperties DEF IInv, TypeOK
    <3>. QED
      BY <1>1, <1>4, <1>5, <1>10, <2>1, <2>3, <3>3
      DEF FoundLockAddr, IInv, TypeOK, TablesOK, InFuncInstalled, LoopOK
  <2>. QED
    BY <2>2, <2>3
<1>11. CASE FoundNexti(l, r)
  <2>1. l.k = "inst" /\ l.addr = lineno + 1
    BY <1>3, <1>4, <1>11, RxShape, LinesAtShape DEF FoundNexti
  <2>2. insts' \in Seq(LockRec \cup PhRec)
    <3>1. CASE insts # <<>> /\ insts[Len(insts)].pc = Zero
      <4>1. Len(insts) \in 1..Len(insts)
        <5>1. Len(insts) \in Nat \ {0}
          BY <3>1, EmptySeq, Zenon DEF IInv, TypeOK
        <5>. QED
          BY <5>1
      <4>2. [insts[Len(insts)] EXCEPT !.pc = l.addr] \in LockRec \cup PhRec
        <5>1. insts[Len(insts)] \in LockRec \cup PhRec
          BY <4>1, ElementOfSeq DEF IInv, TypeOK
        <5>2. l.addr \in Addr
          BY <1>1, <2>1
        <5>. QED
          BY <5>1, <5>2, PcUpdate
      <4>. QED
        BY <1>11, <3>1, <4>1, <4>2, ExceptSeq DEF FoundNexti, IInv, TypeOK
    <3>2. CASE ~(insts # <<>> /\ insts[Len(insts)].pc = Zero)
      BY <1>11, <3>2 DEF FoundNexti, IInv, TypeOK
    <3>. QED
      BY <3>1, <3>2
  <2>3. ri' \in 0..Len(RIS) /\ ri' # 0
    BY <1>11 DEF FoundNexti
  <2>. QED
    BY <1>1, <1>4, <1>11, <2>1, <2>2, <2>3
    DEF FoundNexti, IInv, TypeOK, TablesOK, InFuncInstalled, LoopOK
<1>. QED
  BY <1>2, <1>6, <1>7, <1>8, <1>9, <1>10, <1>11
\* One iteration of found_nexti's loop preserves IInv.
LEMMA NextiEntryIInv ==
  ASSUME IInv, NextiEntry
  PROVE  IInv'
<1>. DEFINE e == RIS[ri]
            l == cur.line
<1>1. /\ ri \in 1..Len(RIS)
      /\ state = "inlined" /\ cur.next = "inlined"
      /\ l.k = "inst" /\ l.addr \in Addr
  BY DEF NextiEntry, IInv, LoopOK
<1>2. /\ e.fname \in STRING
      /\ e.flags \in SUBSET Flags
      /\ e.sync \in STRING
  <2>1. e \in RISEntry
    BY <1>1, ElementOfSeq
  <2>. QED
    BY <2>1 DEF RISEntry
<1>3. /\ NextCursor(ri) \in 0..Len(RIS)
      /\ (IF NextCursor(ri) = 0 THEN cur.next ELSE state) = "inlined"
  BY <1>1 DEF NextCursor
<1>4. CASE Accepts(e, l) /\ Malformed(e.pat, l, e.flags)
  BY <1>4 DEF NextiEntry, IInv, TypeOK, TablesOK, InFuncInstalled, LoopOK
<1>5. CASE ~(Accepts(e, l) /\ Malformed(e.pat, l, e.flags))
  <2>1. insts' \in Seq(LockRec \cup PhRec) /\ lock_ra' \in Addr
    <3>1. CASE Accepts(e, l)
      <4>1. insts' = insts \o NewRecords(l, e.pat, e.fname, e.flags, e.sync)
            /\ lock_ra' = l.addr
        BY <1>5, <3>1 DEF NextiEntry
      <4>2. NewRecords(l, e.pat, e.fname, e.flags, e.sync) \in Seq(LockRec \cup PhRec)
        BY <1>1, <1>2, NewRecordsType DEF IInv, TypeOK
      <4>. QED
        BY <1>1, <4>1, <4>2, ConcatProperties DEF IInv, TypeOK
    <3>2. CASE ~Accepts(e, l)
      BY <1>5, <3>2 DEF NextiEntry, IInv, TypeOK
    <3>. QED
      BY <3>1, <3>2
  <2>2. /\ ri' = NextCursor(ri)
        /\ state' = IF NextCursor(ri) = 0 THEN cur.next ELSE state
    BY <1>5 DEF NextiEntry
  <2>. QED
    BY <1>1, <1>3, <2>1, <2>2
    DEF NextiEntry, IInv, TypeOK, TablesOK, InFuncInstalled, LoopOK, StateNames
<1>. QED
  BY <1>4, <1>5

\* IInv is preserved by every step of Next and by stuttering.
LEMMA NextIInv == IInv /\ [Next]_vars => IInv'
<1>. SUFFICES ASSUME IInv, [Next]_vars PROVE IInv'
  OBVIOUS
<1>1. CASE \E l \in LinesAt(lineno + 1) : ReadLine(l)
  BY <1>1, ReadLineIInv
<1>2. CASE NextiEntry
  BY <1>2, NextiEntryIInv
<1>3. CASE EndOfInput
  BY <1>3 DEF EndOfInput, IInv, TypeOK, TablesOK, InFuncInstalled, LoopOK
<1>4. CASE UNCHANGED vars
  BY <1>4 DEF vars, IInv, TypeOK, TablesOK, InFuncInstalled, LoopOK
<1>. QED
  BY <1>1, <1>2, <1>3, <1>4 DEF Next

-----------------------------------------------------------------------------
(* The theorems.                                                           *)

\* IInv holds in every state the scanner reaches.
THEOREM IInvInvariant == Spec => []IInv
BY InitIInv, NextIInv, PTL DEF Spec

\* The type invariant: every variable of SCAN_OBJ and of its FSM keeps the
\* type the code gives it.
THEOREM TypeCorrect == Spec => []TypeOK
<1>1. IInv => TypeOK
  BY DEF IInv
<1>. QED
  BY <1>1, IInvInvariant, PTL

\* In-place table rebuild: whenever the FSM is in 'in_func', the row of
\* 'in_func' is the one _fsm_in_func built for the current function, a
\* non-inlined lock function, whatever the order of the lines.
THEOREM InFuncInstalledInvariant == Spec => []InFuncInstalled
<1>1. IInv => InFuncInstalled
  BY DEF IInv
<1>. QED
  BY <1>1, IInvInvariant, PTL

\* execute() never raises FSMError while scan() runs.
THEOREM ExecuteTotalInvariant == Spec => []ExecuteTotal
<1>1. IInv => ExecuteTotal
  <2>. SUFFICES ASSUME IInv, status = "running", ri = 0
                PROVE  /\ state \in DOMAIN states
                       /\ \A l \in Line : Lookup(states[state], l) # {}
    BY DEF ExecuteTotal
  <2>. QED
    BY CurrentRow, DefaultApplies
<1>. QED
  BY <1>1, IInvInvariant, PTL

-----------------------------------------------------------------------------
(* The records of insts are final.                                         *)

\* No lock record, and no instruction found_nexti's loop holds, has the
\* lock_pc "zero" of a placeholder: every instruction line has an address.
PcInv ==
  /\ \A i \in 1..Len(insts) : insts[i].kind = "lock" => insts[i].pc # Zero
  /\ ri # 0 => cur.line.addr # Zero

\* Record y is placeholder x with its "zero" lock_pc given an address.
Resolved(x, y) ==
  /\ x.kind = "ph" /\ x.pc = Zero
  /\ y = [x EXCEPT !.pc = y.pc]

\* The step RecordsFinal constrains.
FinalStep ==
  /\ Len(insts) <= Len(insts')
  /\ \A i \in 1..Len(insts) :
       insts'[i] # insts[i] =>
         Resolved(insts[i], insts'[i])

\* The part of PcInv about the records of a sequence.
LockPcs(s) == \A i \in 1..Len(s) : s[i].kind = "lock" => s[i].pc # Zero

\* Appending records keeps those already there and their lock pcs.
LEMMA AppendRecords ==
  ASSUME NEW s \in Seq(LockRec \cup PhRec), NEW t \in Seq(LockRec \cup PhRec),
         LockPcs(s), LockPcs(t)
  PROVE  /\ Len(s) <= Len(s \o t)
         /\ \A i \in 1..Len(s) : (s \o t)[i] = s[i]
         /\ LockPcs(s \o t)
<1>1. /\ s \o t \in Seq(LockRec \cup PhRec)
      /\ Len(s \o t) = Len(s) + Len(t)
      /\ \A i \in 1..Len(s) + Len(t) :
           (s \o t)[i] = IF i <= Len(s) THEN s[i] ELSE t[i - Len(s)]
  BY ConcatProperties
<1>2. Len(s) \in Nat /\ Len(t) \in Nat
  BY LenProperties
<1>3. LockPcs(s \o t)
  <2>. SUFFICES ASSUME NEW i \in 1..Len(s \o t), (s \o t)[i].kind = "lock"
                PROVE  (s \o t)[i].pc # Zero
    BY DEF LockPcs
  <2>1. CASE i <= Len(s)
    <3>1. (s \o t)[i] = s[i] /\ i \in 1..Len(s)
      BY <1>1, <1>2, <2>1
    <3>. QED
      BY <3>1 DEF LockPcs
  <2>2. CASE ~(i <= Len(s))
    <3>1. (s \o t)[i] = t[i - Len(s)] /\ i - Len(s) \in 1..Len(t)
      BY <1>1, <1>2, <2>2
    <3>. QED
      BY <3>1 DEF LockPcs
  <2>. QED
    BY <2>1, <2>2
<1>. QED
  BY <1>1, <1>2, <1>3

\* The lock record real_found_lock_addr appends takes the instruction's
\* address.
LEMMA NewRecordsPc ==
  ASSUME NEW l, l.addr # Zero, NEW pat, NEW fname, NEW flags, NEW sync
  PROVE  LockPcs(NewRecords(l, pat, fname, flags, sync))
<1>. DEFINE lr == [kind |-> "lock", func_pc |-> func_pc, func |-> fname,
                   pc |-> l.addr, off |-> Off(pat, l),
                   reg |-> Reg(pat, l, flags), flags |-> flags, sync |-> sync]
            ph == [kind |-> "ph", func_pc |-> l.addr, func |-> fname, pc |-> Zero]
<1>1. CASE "EAX" \in flags
  <2>1. NewRecords(l, pat, fname, flags, sync) = <<lr>>
    BY <1>1 DEF NewRecords
  <2>. QED
    BY <2>1 DEF LockPcs
<1>2. CASE "EAX" \notin flags
  <2>1. NewRecords(l, pat, fname, flags, sync) = <<lr>> \o <<ph>>
    BY <1>2 DEF NewRecords
  <2>2. /\ Len(<<lr>> \o <<ph>>) = 2
        /\ (<<lr>> \o <<ph>>)[1] = lr /\ (<<lr>> \o <<ph>>)[2] = ph
    <3>1. <<lr>> \in Seq({lr, ph}) /\ <<ph>> \in Seq({lr, ph})
      OBVIOUS
    <3>. QED
      BY <3>1, ConcatProperties
  <2>3. lr.kind = "lock" /\ lr.pc # Zero /\ ph.kind = "ph"
    OBVIOUS
  <2>. QED
    BY <2>1, <2>2, <2>3 DEF LockPcs
<1>. QED
  BY <1>1, <1>2

\* found_nexti's fix-up of the last record touches only a placeholder.
LEMMA ResolvePlaceholder ==
  ASSUME NEW s \in Seq(LockRec \cup PhRec), LockPcs(s), s # <<>>,
         s[Len(s)].pc = Zero, NEW a \in Addr, a # Zero,
         NEW t, t = [s EXCEPT ![Len(s)].pc = a]
  PROVE  /\ Len(s) <= Len(t)
         /\ LockPcs(t)
         /\ \A i \in 1..Len(s) :
              t[i] # s[i] =>
                Resolved(s[i], t[i])
<1>. DEFINE n == Len(s)
<1>0. n \in Nat \ {0}
  BY EmptySeq, Zenon
<1>1. n \in 1..Len(s)
  BY <1>0
<1>2. s[n] \in LockRec \cup PhRec
  BY <1>1, ElementOfSeq
<1>3. s[n] \in PhRec
  BY <1>1, <1>2 DEF LockPcs, LockRec, PhRec
<1>. DEFINE e == [s[n] EXCEPT !.pc = a]
<1>4. e \in PhRec /\ e.kind = "ph" /\ e.pc = a
  BY <1>3 DEF PhRec
<1>5. t = [s EXCEPT ![n] = e]
  OBVIOUS
<1>6. /\ t \in Seq(LockRec \cup PhRec)
      /\ Len(t) = Len(s)
      /\ \A j \in 1..Len(s) : t[j] = IF j = n THEN e ELSE s[j]
  BY <1>1, <1>4, ExceptSeq
<1>7. LockPcs(t)
  BY <1>4, <1>6 DEF LockPcs
<1>8. \A i \in 1..Len(s) :
        t[i] # s[i] =>
          Resolved(s[i], t[i])
  BY <1>3, <1>4, <1>6 DEF PhRec, Resolved
<1>9. Len(s) <= Len(t)
  BY <1>6
<1>. QED
  BY <1>7, <1>8, <1>9, Zenon

\* One execute() call of scan()'s loop keeps PcInv and the records.
LEMMA ReadLineFinal ==
  ASSUME IInv, PcInv, NEW l, l \in LinesAt(lineno + 1), ReadLine(l)
  PROVE  PcInv' /\ FinalStep
<1>1. /\ lineno + 1 \in Addr /\ lineno + 1 # Zero
      /\ l.k = "inst" => l.addr = lineno + 1
  <2>1. lineno < MaxLines
    BY DEF ReadLine
  <2>. QED
    BY <2>1, LinesAtShape DEF IInv, TypeOK, Addr, Zero
<1>2. PICK r \in Lookup(states[state], l) :
        \/ InFunc(l, r)
        \/ SetFuncName(l, r)
        \/ SetFl(l, r)
        \/ NoAction(r)
        \/ FoundLockAddr(l, r)
        \/ FoundNexti(l, r)
  BY DEF ReadLine
<1>3. /\ r.act = "found_nexti" => r.key = "re_anyinst_i"
      /\ r.act = "found_lock_addr" => r.key \in Pats
      /\ r.act # "none" => r.key # NoneKey
      /\ r.key # NoneKey => Rx(r.key, l)
  BY CandidateOfRow, CurrentRow DEF Row, RowKeysOK
<1>4. insts \in Seq(LockRec \cup PhRec) /\ ri = 0
  BY DEF IInv, TypeOK, ReadLine
<1>5. CASE InFunc(l, r) \/ SetFuncName(l, r) \/ SetFl(l, r) \/ NoAction(r)
  BY <1>4, <1>5 DEF InFunc, SetFuncName, SetFl, NoAction, PcInv, FinalStep
<1>6. CASE FoundLockAddr(l, r)
  <2>1. CASE func_name \notin DOMAIN NI \/ Malformed(r.key, l, NI[func_name].flags)
    BY <1>4, <1>6, <2>1 DEF FoundLockAddr, PcInv, FinalStep
  <2>2. CASE ~(func_name \notin DOMAIN NI \/ Malformed(r.key, l, NI[func_name].flags))
    <3>. DEFINE nr == NewRecords(l, r.key, func_name, NI[func_name].flags,
                                 NI[func_name].sync)
    <3>1. insts' = insts \o nr /\ UNCHANGED <<ri, cur>>
      BY <1>6, <2>2 DEF FoundLockAddr
    <3>2. l.k = "inst" /\ l.addr \in Addr /\ l.addr # Zero
      BY <1>1, <1>3, <1>6, RxShape DEF FoundLockAddr
    <3>3. nr \in Seq(LockRec \cup PhRec)
      <4>1. /\ func_name \in STRING
            /\ NI[func_name].flags \in SUBSET Flags
            /\ NI[func_name].sync \in STRING
        BY <2>2 DEF NIEntry
      <4>. QED
        BY <3>2, <4>1, NewRecordsType DEF IInv, TypeOK
    <3>4. LockPcs(nr)
      BY <3>2, NewRecordsPc
    <3>5. LockPcs(insts)
      BY DEF PcInv, LockPcs
    <3>6. /\ Len(insts) <= Len(insts')
          /\ \A i \in 1..Len(insts) : insts'[i] = insts[i]
          /\ LockPcs(insts')
      BY <1>4, <3>1, <3>3, <3>4, <3>5, AppendRecords
    <3>7. (PcInv!2)'
      BY <1>4, <3>1
    <3>. QED
      BY <3>6, <3>7 DEF PcInv, FinalStep, LockPcs
  <2>. QED
    BY <2>1, <2>2
<1>7. CASE FoundNexti(l, r)
  <2>1. l.k = "inst" /\ l.addr \in Addr /\ l.addr # Zero
    BY <1>1, <1>3, <1>7, RxShape DEF FoundNexti
  <2>2. (PcInv!2)'
    BY <1>7, <2>1 DEF FoundNexti
  <2>3. CASE insts # <<>> /\ insts[Len(insts)].pc = Zero
    <3>1. insts' = [insts EXCEPT ![Len(insts)].pc = l.addr]
      BY <1>7, <2>3 DEF FoundNexti
    <3>2. LockPcs(insts)
      BY DEF PcInv, LockPcs
    <3>3. \A t : t = [insts EXCEPT ![Len(insts)].pc = l.addr] =>
            /\ Len(insts) <= Len(t)
            /\ LockPcs(t)
            /\ \A i \in 1..Len(insts) :
                 t[i] # insts[i] =>
                   Resolved(insts[i], t[i])
      BY <1>4, <2>1, <2>3, <3>2, ResolvePlaceholder
    <3>4. /\ Len(insts) <= Len(insts')
          /\ LockPcs(insts')
          /\ \A i \in 1..Len(insts) :
               insts'[i] # insts[i] =>
                 Resolved(insts[i], insts'[i])
      <4>1. insts' = [insts EXCEPT ![Len(insts)].pc = l.addr]
        BY <3>1
      <4>2. LockPcs(insts')
        BY <4>1, <3>3
      <4>3. Len(insts) <= Len(insts')
        BY <4>1, <3>3
      <4>. QED
        BY <4>1, <4>2, <4>3, <3>3
    <3>. QED
      BY <2>2, <3>4 DEF PcInv, FinalStep, LockPcs
  <2>4. CASE ~(insts # <<>> /\ insts[Len(insts)].pc = Zero)
    BY <1>7, <2>2, <2>4 DEF FoundNexti, PcInv, FinalStep
  <2>. QED
    BY <2>3, <2>4
<1>. QED
  BY <1>2, <1>5, <1>6, <1>7

\* One iteration of found_nexti's loop keeps PcInv and the records.
LEMMA NextiEntryFinal ==
  ASSUME IInv, PcInv, NextiEntry
  PROVE  PcInv' /\ FinalStep
<1>. DEFINE e == RIS[ri]
            l == cur.line
<1>1. /\ ri \in 1..Len(RIS)
      /\ l.k = "inst" /\ l.addr \in Addr /\ l.addr # Zero
      /\ insts \in Seq(LockRec \cup PhRec)
      /\ UNCHANGED cur
  BY DEF NextiEntry, IInv, LoopOK, PcInv, TypeOK
<1>2. CASE Accepts(e, l) /\ Malformed(e.pat, l, e.flags)
  BY <1>1, <1>2 DEF NextiEntry, PcInv, FinalStep
<1>3. CASE ~(Accepts(e, l) /\ Malformed(e.pat, l, e.flags)) /\ Accepts(e, l)
  <2>. DEFINE nr == NewRecords(l, e.pat, e.fname, e.flags, e.sync)
  <2>1. insts' = insts \o nr
    BY <1>3 DEF NextiEntry
  <2>2. nr \in Seq(LockRec \cup PhRec)
    <3>1. e \in RISEntry
      BY <1>1, ElementOfSeq
    <3>. QED
      BY <1>1, <3>1, NewRecordsType DEF RISEntry, IInv, TypeOK
  <2>3. LockPcs(nr) /\ LockPcs(insts)
    BY <1>1, NewRecordsPc DEF PcInv, LockPcs
  <2>4. /\ Len(insts) <= Len(insts')
        /\ \A i \in 1..Len(insts) : insts'[i] = insts[i]
        /\ LockPcs(insts')
    BY <1>1, <2>1, <2>2, <2>3, AppendRecords
  <2>5. (PcInv!2)'
    BY <1>1 DEF NextiEntry
  <2>. QED
    BY <2>4, <2>5 DEF PcInv, FinalStep, LockPcs
<1>4. CASE ~(Accepts(e, l) /\ Malformed(e.pat, l, e.flags)) /\ ~Accepts(e, l)
  BY <1>1, <1>4 DEF NextiEntry, PcInv, FinalStep
<1>. QED
  BY <1>2, <1>3, <1>4

LEMMA NextFinal == IInv /\ PcInv /\ [Next]_vars => PcInv' /\ FinalStep
<1>. SUFFICES ASSUME IInv, PcInv, [Next]_vars PROVE PcInv' /\ FinalStep
  OBVIOUS
<1>0. insts \in Seq(LockRec \cup PhRec)
  BY DEF IInv, TypeOK
<1>1. CASE \E l \in LinesAt(lineno + 1) : ReadLine(l)
  BY <1>1, ReadLineFinal
<1>2. CASE NextiEntry
  BY <1>2, NextiEntryFinal
<1>3. CASE EndOfInput
  BY <1>0, <1>3 DEF EndOfInput, PcInv, FinalStep
<1>4. CASE UNCHANGED vars
  BY <1>0, <1>4 DEF vars, PcInv, FinalStep
<1>. QED
  BY <1>1, <1>2, <1>3, <1>4 DEF Next

\* In every run of scan(), no fr_lock record holds lock_pc "zero", and the
\* instruction found_nexti's loop holds has a real address, so the "zero"
\* test of found_nexti can only ever meet a placeholder.
THEOREM PcInvInvariant == Spec => [](IInv /\ PcInv)
<1>1. Init => PcInv
  BY DEF Init, PcInv
<1>2. IInv /\ PcInv /\ [Next]_vars => IInv' /\ PcInv'
  BY NextIInv, NextFinal
<1>. QED
  BY <1>1, <1>2, InitIInv, PTL DEF Spec

\* The action property of run scanner_pass, for every catalog and stream
\* length: once appended to insts, a fr_lock record is never changed, and
\* a placeholder only once, by found_nexti giving its "zero" lock_pc the
\* address of an instruction.
THEOREM RecordsFinalHolds == Spec => RecordsFinal
<1>1. IInv /\ PcInv /\ [Next]_vars => [FinalStep]_vars
  BY NextFinal
<1>. QED
  BY <1>1, PcInvInvariant, PTL DEF Spec, RecordsFinal, FinalStep, Resolved
=============================================================================
