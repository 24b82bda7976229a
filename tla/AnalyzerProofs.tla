--------------------------- MODULE AnalyzerProofs ---------------------------
(***************************************************************************)
(* Proofs about Analyzer for every value of its constants: the windows the *)
(* WS_CLOSE handler keeps stay below DI_WINDOW_SIZE worksets and MAX_CPUS  *)
(* pids (WindowBounded).                                                   *)
(*                                                                         *)
(* WindowBounded is not inductive as it stands: the step that closes a     *)
(* window writes back the record calculate_new_data_independence returns,  *)
(* and the step that appends to it relies on ws and pids being sequences   *)
(* of worksets and pids.  WinInv adds the shape of every window.          *)
(***************************************************************************)
EXTENDS Analyzer, WorkSetProofs, FiniteSetTheorems, SequenceTheorems, TLAPS

USE AnalyzerAssumption, WorkSetAssumption

\* The fields of a window entry.
WinFields == {"ws", "pids", "maxthreads", "conf", "compl", "samples",
              "threads", "size", "sampled", "asym"}

\* A window entry of the right shape and within both bounds.
WinOK(w) ==
  /\ DOMAIN w = WinFields
  /\ w.ws \in Seq(WSs) /\ w.pids \in Seq(Pids)
  /\ Len(w.ws) < WindowSize /\ Len(w.pids) < MaxCpus

\* The inductive invariant: every stored window is WinOK.
WinInv == \A k \in DOMAIN worksets : WinOK(worksets[k])

\* The inductive invariant for NoZeroDivision: the windows that
\* calculate_new_data_independence reads hold worksets of WSs.
NZInv == WinInv /\ NoZeroDivision

-----------------------------------------------------------------------------
(* Lemmas on the helpers of the WS_CLOSE handler.                          *)

\* The entry created for a new (lock, generation) is WinOK.
LEMMA NewWindowOK == WinOK(NewWindow)
BY DEF WinOK, NewWindow, WinFields

\* The pid loop appends at most one pid of the workset.
LEMMA AddPidLen ==
  ASSUME NEW cur \in Seq(Pids), NEW pids \in SUBSET Pids,
         NEW c \in AddPid(cur, pids)
  PROVE  c \in Seq(Pids) /\ Len(c) <= Len(cur) + 1
<1>1. CASE pids \subseteq {cur[i] : i \in DOMAIN cur}
  <2>1. c = cur
    BY <1>1 DEF AddPid
  <2>. QED
    BY <2>1
<1>2. CASE ~(pids \subseteq {cur[i] : i \in DOMAIN cur})
  <2>1. PICK p \in pids : c = Append(cur, p)
    BY <1>2 DEF AddPid
  <2>. QED
    BY <2>1, AppendProperties
<1>. QED
  BY <1>1, <1>2

\* Sampling a workset keeps the fields and appends it to ws.
LEMMA RetainShape ==
  ASSUME NEW w, DOMAIN w = WinFields, w.ws \in Seq(WSs),
         NEW ws \in WSs, NEW cur
  PROVE  /\ DOMAIN Retain(w, ws, cur) = WinFields
         /\ Retain(w, ws, cur).ws = Append(w.ws, ws)
         /\ Retain(w, ws, cur).pids = cur
BY DEF Retain, WinFields

\* calculate_new_data_independence returns the window with the same fields.
LEMMA CalculateShape ==
  ASSUME NEW w, NEW r \in Calculate(w)
  PROVE  DOMAIN r.win = DOMAIN w
<1>1. PICK bypid \in ByPids(w) :
        \E o \in Draws(w, bypid) : r.win = Accumulate(w, bypid, o)
  BY DEF Calculate
<1>2. PICK o \in Draws(w, bypid) : r.win = Accumulate(w, bypid, o)
  BY <1>1
<1>. QED
  BY <1>2 DEF Accumulate

\* Storing a WinOK entry keeps WinInv.
LEMMA PutWinInv ==
  ASSUME WinInv, NEW k, NEW v, WinOK(v)
  PROVE  \A x \in DOMAIN Put(worksets, k, v) : WinOK(Put(worksets, k, v)[x])
BY DEF WinInv, Put

\* The entry the handler starts from is WinOK.
LEMMA StartWindowOK ==
  ASSUME WinInv, NEW k
  PROVE  WinOK(Get(worksets, k, NewWindow))
BY NewWindowOK DEF WinInv, Get

-----------------------------------------------------------------------------
(* WinInv is inductive.                                                    *)

LEMMA InitWinInv == Init => WinInv
BY DEF Init, WinInv

\* A WS_CLOSE line keeps every window WinOK: the workset and the pid it
\* appends fit under the bounds, and a window that reaches one of them is
\* analysed and emptied in the same step.
LEMMA WsCloseWinInv ==
  ASSUME WinInv, NEW k \in Keys, NEW ws \in WSs, WsClose(k, ws)
  PROVE  WinInv'
<1>. DEFINE w0 == Get(worksets, k, NewWindow)
<1>1. WinOK(w0)
  BY StartWindowOK
<1>2. CASE UserApp /\ k[1] >= WsFilterBase
  BY <1>2 DEF WsClose, WinInv
<1>3. CASE ~(UserApp /\ k[1] >= WsFilterBase) /\ k[1] \in DetectorAddrs
  BY <1>3 DEF WsClose, WinInv
<1>4. CASE ~(UserApp /\ k[1] >= WsFilterBase) /\ k[1] \notin DetectorAddrs
  <2>1. PICK retained \in {x < SampleRate : x \in 0..RandMax},
             cur \in AddPid(w0.pids, ws.pids) :
          LET w1 == IF retained THEN Retain(w0, ws, cur) ELSE w0
          IN  IF WindowFull(w1)
              THEN \E r \in Calculate(w1) :
                     worksets' = Put(worksets, k, [r.win EXCEPT !.ws = <<>>, !.pids = <<>>])
              ELSE worksets' = Put(worksets, k, w1)
    BY <1>4 DEF WsClose
  <2>. DEFINE w1 == IF retained THEN Retain(w0, ws, cur) ELSE w0
  <2>2. /\ DOMAIN w1 = WinFields
        /\ w1.ws \in Seq(WSs) /\ w1.pids \in Seq(Pids)
        /\ Len(w1.ws) <= WindowSize /\ Len(w1.pids) <= MaxCpus
    <3>1. cur \in Seq(Pids) /\ Len(cur) <= Len(w0.pids) + 1
      <4>1. ws.pids \in SUBSET Pids
        BY AnalyzerAssumption
      <4>. QED
        BY <1>1, <4>1, AddPidLen DEF WinOK
    <3>2. CASE retained
      <4>1. /\ DOMAIN w1 = WinFields
            /\ w1.ws = Append(w0.ws, ws) /\ w1.pids = cur
        BY <3>2, <1>1, RetainShape DEF WinOK
      <4>2. w1.ws \in Seq(WSs) /\ Len(w1.ws) = Len(w0.ws) + 1
        <5>1. w0.ws \in Seq(WSs)
          BY <1>1 DEF WinOK
        <5>2. Append(w0.ws, ws) \in Seq(WSs) /\ Len(Append(w0.ws, ws)) = Len(w0.ws) + 1
          BY <5>1, AppendProperties
        <5>. QED
          BY <4>1, <5>2
      <4>3. Len(w1.ws) <= WindowSize
        BY <4>2, <1>1 DEF WinOK
      <4>4. Len(w1.pids) <= MaxCpus
        BY <4>1, <3>1, <1>1 DEF WinOK
      <4>. QED
        BY <4>1, <4>2, <4>3, <4>4, <3>1
    <3>3. CASE ~retained
      BY <3>3, <1>1 DEF WinOK
    <3>. QED
      BY <3>2, <3>3
  <2>3. CASE WindowFull(w1)
    <3>1. PICK r \in Calculate(w1) :
            worksets' = Put(worksets, k, [r.win EXCEPT !.ws = <<>>, !.pids = <<>>])
      BY <2>1, <2>3
    <3>2. DOMAIN r.win = WinFields
      BY <2>2, CalculateShape
    <3>3. WinOK([r.win EXCEPT !.ws = <<>>, !.pids = <<>>])
      BY <3>2 DEF WinOK, WinFields
    <3>. QED
      BY <3>1, <3>3, PutWinInv DEF WinInv
  <2>4. CASE ~WindowFull(w1)
    <3>1. worksets' = Put(worksets, k, w1)
      BY <2>1, <2>4
    <3>2. WinOK(w1)
      BY <2>2, <2>4 DEF WindowFull, WinOK
    <3>. QED
      BY <3>1, <3>2, PutWinInv DEF WinInv
  <2>. QED
    BY <2>3, <2>4
<1>. QED
  BY <1>2, <1>3, <1>4

LEMMA NextWinInv == WinInv /\ [Next]_vars => WinInv'
<1>. SUFFICES ASSUME WinInv, [Next]_vars PROVE WinInv'
  OBVIOUS
<1>1. ASSUME NEW k \in Keys, NEW ws \in WSs, WsClose(k, ws) PROVE WinInv'
  BY <1>1, WsCloseWinInv
<1>2. ASSUME NEW k \in Keys, NEW wsize \in WSizes, NEW cs \in SUBSET Callers,
             NEW bad \in BOOLEAN, EndOfLife(k, wsize, cs, bad)
      PROVE  WinInv'
  <2>1. worksets' = Drop(worksets, k)
    BY <1>2 DEF EndOfLife
  <2>. QED
    BY <2>1 DEF WinInv, Drop
<1>3. ASSUME NEW blank \in BOOLEAN, Flush(blank) PROVE WinInv'
  BY <1>3 DEF Flush, WinInv
<1>4. CASE ResetStats
  BY <1>4 DEF ResetStats, WinInv
<1>5. CASE worksets' = worksets
  BY <1>5 DEF WinInv
<1>. QED
  BY <1>1, <1>2, <1>3, <1>4, <1>5
  DEF Next, vars, BlobEnd, EndOfLifeNoWindow, EndOfLifeSkipped, Cycles, Idle, EndOfLog

THEOREM WinInvInvariant == Spec => []WinInv
BY InitWinInv, NextWinInv, PTL DEF Spec

\* The theorem of run analyzer_pass: no lock's window ever holds
\* DI_WINDOW_SIZE worksets or MAX_CPUS pids after a line is processed,
\* for every window size, cpu bound, sampling rate and workset set: the
\* pid loop's break and the close test of the WS_CLOSE handler suffice.
THEOREM WindowBoundedInvariant == Spec => []WindowBounded
<1>1. WinInv => WindowBounded
  BY DEF WinInv, WinOK, WindowBounded
<1>. QED
  BY <1>1, WinInvInvariant, PTL

-----------------------------------------------------------------------------
(* calculate_new_data_independence never divides by zero.                  *)

\* The conflicting worksets of a sample are never exactly one: a workset
\* that conflicts with another of the sample makes that one conflict too,
\* since compare() is symmetric.
LEMMA ConflictingNotOne ==
  ASSUME NEW w, w.ws \in Seq(WSs), NEW I \in SUBSET (1..Len(w.ws))
  PROVE  Cardinality(Conflicting(w, I)) # 1
<1>. DEFINE C == Conflicting(w, I)
<1>1. IsFiniteSet(C)
  <2>0. Len(w.ws) \in Nat
    OBVIOUS
  <2>1. IsFiniteSet(1..Len(w.ws))
    BY <2>0, FS_Interval
  <2>2. C \subseteq 1..Len(w.ws)
    BY DEF Conflicting
  <2>. QED
    BY <2>1, <2>2, FS_Subset
<1>. SUFFICES ASSUME Cardinality(C) = 1 PROVE FALSE
  OBVIOUS
<1>2. PICK j : C = {j}
  BY <1>1, FS_Singleton
<1>3. PICK k \in I \ {j} : j \in I /\ Compare(w.ws[j], w.ws[k], TRUE) > 0
  BY <1>2 DEF Conflicting
<1>4. Compare(w.ws[k], w.ws[j], TRUE) > 0
  <2>1. w.ws[j] \in WSs /\ w.ws[k] \in WSs
    BY <1>3
  <2>2. /\ \A x \in DOMAIN w.ws[j].aset : w.ws[j].aset[x] \in Nat \X Nat
        /\ \A x \in DOMAIN w.ws[k].aset : w.ws[k].aset[x] \in Nat \X Nat
    BY <2>1, AnalyzerAssumption
  <2>3. Compare(w.ws[j], w.ws[k], TRUE) = Compare(w.ws[k], w.ws[j], TRUE)
    BY <2>2, CompareSymmetricLemma
  <2>. QED
    BY <1>3, <2>3
<1>5. k \in C
  BY <1>3, <1>4 DEF Conflicting
<1>. QED
  BY <1>2, <1>3, <1>5

\* What a sample's zerodiv flag says: its conflicting set has one member.
LEMMA SampleZeroDiv ==
  ASSUME NEW w, NEW bypid, NEW c, NEW s \in SampleResults(w, bypid, c)
  PROVE  \E I \in SUBSET (1..Len(w.ws)) :
           s.zerodiv = (Cardinality(Conflicting(w, I)) = 1)
<1>. DEFINE n == Len(w.ws)
            pids == {bypid[i] : i \in 1..n}
            F(I) == LET C == Conflicting(w, I)
                    IN  [conf    |-> Cardinality(C),
                         compl   |-> Cardinality(I) - Cardinality(C),
                         threads |-> Cardinality(I),
                         hist    |-> Cardinality({p \in C \X C :
                                                    p[1] # p[2] /\
                                                    Compare(w.ws[p[1]], w.ws[p[2]], TRUE) > 0}),
                         zerodiv |-> Cardinality(C) = 1]
            S == {J \in SUBSET (1..n) :
                    /\ Cardinality(J) = Min(Cardinality(pids), CpuCounts[c])
                    /\ \A i, j \in J : i # j => bypid[i] # bypid[j]}
<1>1. SampleResults(w, bypid, c) = {F(I) : I \in S}
  BY DEF SampleResults
<1>. HIDE DEF F, S
<1>2. PICK I \in S : s = F(I)
  BY <1>1
<1>3. I \in SUBSET (1..n)
  BY DEF S
<1>4. F(I).zerodiv = (Cardinality(Conflicting(w, I)) = 1)
  BY DEF F
<1>. QED
  BY <1>2, <1>3, <1>4

\* No outcome of calculate_new_data_independence raises ZeroDivisionError
\* on a window of worksets of WSs.
LEMMA CalculateNoZeroDiv ==
  ASSUME NEW w, w.ws \in Seq(WSs), NEW r \in Calculate(w)
  PROVE  ~r.zerodiv
<1>0. PICK bypid \in ByPids(w) :
        \E o \in Draws(w, bypid) :
          r = [win     |-> Accumulate(w, bypid, o),
               hist    |-> HistTotal(o),
               zerodiv |-> \E d \in Rounds : o[d].zerodiv]
  BY DEF Calculate
<1>1. PICK o \in Draws(w, bypid) :
        r = [win     |-> Accumulate(w, bypid, o),
             hist    |-> HistTotal(o),
             zerodiv |-> \E d \in Rounds : o[d].zerodiv]
  BY <1>0
<1>2. ASSUME NEW d \in Rounds PROVE ~o[d].zerodiv
  <2>1. o[d] \in SampleResults(w, bypid, d[1])
    BY <1>1 DEF Draws
  <2>2. \A s \in SampleResults(w, bypid, d[1]) :
          \E I \in SUBSET (1..Len(w.ws)) :
            s.zerodiv = (Cardinality(Conflicting(w, I)) = 1)
    BY SampleZeroDiv
  <2>3. PICK I \in SUBSET (1..Len(w.ws)) :
          o[d].zerodiv = (Cardinality(Conflicting(w, I)) = 1)
    BY <2>1, <2>2
  <2>. QED
    BY <2>3, ConflictingNotOne
<1>. QED
  BY <1>1, <1>2

\* A WS_CLOSE line never ends the program with a ZeroDivisionError.
LEMMA WsCloseNoZeroDiv ==
  ASSUME NZInv, NEW k \in Keys, NEW ws \in WSs, WsClose(k, ws)
  PROVE  status' # "zerodiv"
<1>. DEFINE w0 == Get(worksets, k, NewWindow)
<1>1. WinOK(w0)
  BY StartWindowOK DEF NZInv
<1>2. CASE ~(UserApp /\ k[1] >= WsFilterBase) /\ k[1] \notin DetectorAddrs
  <2>1. PICK retained \in {x < SampleRate : x \in 0..RandMax},
             cur \in AddPid(w0.pids, ws.pids) :
          LET w1 == IF retained THEN Retain(w0, ws, cur) ELSE w0
          IN  IF WindowFull(w1)
              THEN \E r \in Calculate(w1) :
                     status' = IF r.zerodiv THEN "zerodiv" ELSE status
              ELSE status' = status
    BY <1>2 DEF WsClose
  <2>. DEFINE w1 == IF retained THEN Retain(w0, ws, cur) ELSE w0
  <2>2. w1.ws \in Seq(WSs)
    <3>1. DOMAIN w0 = WinFields /\ w0.ws \in Seq(WSs)
      BY <1>1 DEF WinOK
    <3>2. CASE retained
      <4>1. w1.ws = Append(w0.ws, ws)
        BY <3>1, <3>2, RetainShape
      <4>2. Append(w0.ws, ws) \in Seq(WSs)
        BY <3>1, AppendProperties
      <4>. QED
        BY <4>1, <4>2
    <3>. QED
      BY <3>1, <3>2
  <2>3. status # "zerodiv"
    BY DEF NZInv, NoZeroDivision
  <2>. QED
    BY <2>1, <2>2, <2>3, CalculateNoZeroDiv
<1>. QED
  BY <1>2 DEF WsClose, NZInv, NoZeroDivision

\* An end-of-life line never ends the program with a ZeroDivisionError.
LEMMA EndOfLifeNoZeroDiv ==
  ASSUME NZInv, NEW k \in Keys, NEW wsize, NEW cs, NEW bad,
         EndOfLife(k, wsize, cs, bad)
  PROVE  status' # "zerodiv"
<1>1. k \in DOMAIN worksets /\ worksets[k].ws \in Seq(WSs)
  BY DEF EndOfLife, NZInv, WinInv, WinOK
<1>2. PICK r \in Calculate(worksets[k]) :
        IF r.zerodiv THEN status' = "zerodiv"
        ELSE status' = IF k[1] \in DOMAIN lockmap THEN "assert_lockmap"
                       ELSE IF bad THEN "assert_caller" ELSE "running"
  BY DEF EndOfLife, Record
<1>. QED
  BY <1>1, <1>2, CalculateNoZeroDiv

LEMMA NextNZInv == NZInv /\ [Next]_vars => NZInv'
<1>. SUFFICES ASSUME NZInv, [Next]_vars PROVE NZInv'
  OBVIOUS
<1>1. WinInv'
  BY NextWinInv DEF NZInv
<1>2. status' # "zerodiv"
  <2>1. ASSUME NEW k \in Keys, NEW ws \in WSs, WsClose(k, ws)
        PROVE  status' # "zerodiv"
    BY <2>1, WsCloseNoZeroDiv
  <2>2. ASSUME NEW k \in Keys, NEW wsize \in WSizes, NEW cs \in SUBSET Callers,
               NEW bad \in BOOLEAN, EndOfLife(k, wsize, cs, bad)
        PROVE  status' # "zerodiv"
    BY <2>2, EndOfLifeNoZeroDiv
  <2>3. ASSUME NEW k \in Keys, NEW wsize \in WSizes, NEW cs \in SUBSET Callers,
               NEW bad \in BOOLEAN, EndOfLifeNoWindow(k, wsize, cs, bad)
        PROVE  status' # "zerodiv"
    BY <2>3 DEF EndOfLifeNoWindow, Record
  <2>4. status # "zerodiv"
    BY DEF NZInv, NoZeroDivision
  <2>. QED
    BY <2>1, <2>2, <2>3, <2>4
    DEF Next, vars, BlobEnd, EndOfLifeSkipped, Flush, ResetStats, Cycles,
        Idle, EndOfLog
<1>. QED
  BY <1>1, <1>2 DEF NZInv, NoZeroDivision

THEOREM NZInvInvariant == Spec => []NZInv
<1>1. Init => NZInv
  BY InitWinInv DEF Init, NZInv, NoZeroDivision
<1>. QED
  BY <1>1, NextNZInv, PTL DEF Spec

\* The invariant NoZeroDivision of run analyzer_pass, for every window
\* size, cpu count vector, sample size and workset set:
\* calculate_new_data_independence never reaches local_conflicts /=
\* float(conflicting - 1) with conflicting = 1, because compare() is
\* symmetric on the worksets the WS_CLOSE parser builds.
THEOREM NoZeroDivisionInvariant == Spec => []NoZeroDivision
<1>1. NZInv => NoZeroDivision
  BY DEF NZInv
<1>. QED
  BY <1>1, NZInvInvariant, PTL
=============================================================================
