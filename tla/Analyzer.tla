------------------------------ MODULE Analyzer ------------------------------
(***************************************************************************)
(* The main loop of src/scripts/sync_char_post.py: it reads the trace log *)
(* one line at a time and keeps, per lock address and generation, a      *)
(* window of sampled worksets (WS_CLOSE lines), from which               *)
(* calculate_new_data_independence accumulates conflict statistics.  A   *)
(* lock's end-of-life line reports them; RESET_STATS and the end-of-      *)
(* benchmark marker clear the collected state.                            *)
(*                                                                         *)
(* Lock addresses are numbers.  A workset is [pids, aset, io] (module     *)
(* WorkSet).  Statistics are kept as the sums and sample counts the code  *)
(* divides at end of life: a reported average is sum / samples.  Printing *)
(* (process_exp, arff output), the HotOS metric (USE_HOTOS_DI is off),    *)
(* conflict-density values and the per-address histogram entries are left *)
(* out; a histogram is its 'total' count.                                  *)
(***************************************************************************)
EXTENDS WorkSet

CONSTANTS
  Locks,        \* lock addresses in the log
  Gens,         \* lock generations
  WSs,          \* worksets a WS_CLOSE line (and its blob) may carry
  Callers,      \* caller return addresses of end-of-life lines
  WSizes,       \* wsize values of end-of-life lines
  KernelBase,   \* 0xc0000000: the user-app filter of end-of-life lines
  WsFilterBase, \* 0xc000000: the user-app filter of WS_CLOSE lines
  UserApp,      \* opt_user_app (-u)
  Threshold,    \* opt_threshold (-t)
  WindowSize,   \* DI_WINDOW_SIZE (-w)
  MaxCpus,      \* MAX_CPUS
  CpuCounts,    \* NUM_CPUS_ARRAY, e.g. <<8, 16, 32>>
  SampleRounds, \* DI_SAMPLE_SIZE (-z)
  SampleRate,   \* DI_SAMPLE_RATE (-n)
  MaxLines      \* bound on the length of the log

\* randint(0, 100) draws from 0..RandMax.
RandMax == 100

ASSUME AnalyzerAssumption ==
  /\ Locks \subseteq Nat /\ Gens \subseteq Nat
  /\ KernelBase \in Nat /\ WsFilterBase \in Nat
  /\ UserApp \in BOOLEAN
  /\ Threshold \in Nat /\ WSizes \subseteq Nat
  /\ WindowSize \in Nat \ {0}
  /\ MaxCpus \in Nat \ {0}
  /\ CpuCounts \in Seq(Nat \ {0})
  /\ SampleRounds \in Nat
  /\ SampleRate \in 0..RandMax
  /\ MaxLines \in Nat
  /\ \A w \in WSs : w.pids \subseteq Pids /\ w.pids # {} /\ w.io \in {0, 1}
  \* the blob parser stores two unsigned chunks under every address
  /\ \A w \in WSs : \A k \in DOMAIN w.aset : w.aset[k] \in Nat \X Nat

\* The addresses whose WS_CLOSE lines feed the asymmetry detectors.
DetectorAddrs == {0, KernelBase}

Keys == Locks \X Gens

\* NUM_CPUS maps a cpu count to its index in the statistics vectors.
CpuIdx == 1..Len(CpuCounts)

\* WorkSet(0, [], 0, 0, 0, {}, 0): the initial asymmetry detectors.
EmptyWS == [pids |-> {}, aset |-> <<>>, io |-> 0]

Zeros == [c \in CpuIdx |-> 0]

\* The entry the WS_CLOSE handler creates for a new (lock, generation).
NewWindow ==
  [ws |-> <<>>, pids |-> <<>>, maxthreads |-> {},
   conf |-> Zeros, compl |-> Zeros, samples |-> Zeros, threads |-> Zeros,
   size |-> 0, sampled |-> 0, asym |-> 0]

Min(m, n) == IF m <= n THEN m ELSE n

-----------------------------------------------------------------------------
(* calculate_new_data_independence.                                        *)

\* The sample's worksets (given by their indices I in the window) that
\* depend on another one of the sample: the for/else over k with break.
Conflicting(w, I) ==
  {j \in I : \E k \in I \ {j} : Compare(w.ws[j], w.ws[k], TRUE) > 0}

\* One sample of cpu count index c: the pids drawn (random.sample of
\* by_pid's keys) and, for each, one of its worksets.  bypid[i] is the pid
\* workset i was filed under.
SampleResults(w, bypid, c) ==
  LET n    == Len(w.ws)
      pids == {bypid[i] : i \in 1..n}
  IN  {LET C == Conflicting(w, I)
       IN  [conf    |-> Cardinality(C),
            compl   |-> Cardinality(I) - Cardinality(C),
            threads |-> Cardinality(I),
            \* the histogram's 'total': ordered pairs that depend
            hist    |-> Cardinality({p \in C \X C :
                                       p[1] # p[2] /\
                                       Compare(w.ws[p[1]], w.ws[p[2]], TRUE) > 0}),
            \* local_conflicts /= float(conflicting - 1)
            zerodiv |-> Cardinality(C) = 1] :
        I \in {J \in SUBSET (1..n) :
                 /\ Cardinality(J) = Min(Cardinality(pids), CpuCounts[c])
                 /\ \A i, j \in J : i # j => bypid[i] # bypid[j]}}

\* The (cpu count index, round) pairs of the two loops.
Rounds == CpuIdx \X (1..SampleRounds)

\* The ways the loop over worksets files them by pid: ws.pids.pop() picks
\* an arbitrary pid of each workset.  bypid[i] is the pid of workset i.
ByPids(w) ==
  {f \in [1..Len(w.ws) -> Pids] : \A i \in 1..Len(w.ws) : f[i] \in w.ws[i].pids}

\* The draws: one sample result for every cpu count and round.
Draws(w, bypid) ==
  {o \in [Rounds -> UNION {SampleResults(w, bypid, c) : c \in CpuIdx}] :
     \A d \in Rounds : o[d] \in SampleResults(w, bypid, d[1])}

\* The sum over the rounds of cpu count c of field f of the draw o.
SumRounds(o, c, f) ==
  LET s[r \in 0..SampleRounds] == IF r = 0 THEN 0 ELSE s[r - 1] + o[<<c, r>>][f]
  IN  s[SampleRounds]

\* What the draw o adds to histogram['total'].
HistTotal(o) ==
  LET h[c \in 0..Len(CpuCounts)] ==
        IF c = 0 THEN 0 ELSE h[c - 1] + SumRounds(o, c, "hist")
  IN  h[Len(CpuCounts)]

\* The window entry after the draw o: max_threads and the per-cpu-count
\* sums updated.
Accumulate(w, bypid, o) ==
  [w EXCEPT !.maxthreads = @ \cup {bypid[i] : i \in 1..Len(w.ws)},
            !.conf    = [c \in CpuIdx |-> @[c] + SumRounds(o, c, "conf")],
            !.compl   = [c \in CpuIdx |-> @[c] + SumRounds(o, c, "compl")],
            !.samples = [c \in CpuIdx |-> @[c] + SampleRounds],
            !.threads = [c \in CpuIdx |-> @[c] + SumRounds(o, c, "threads")]]

\* The possible outcomes of calculate_new_data_independence on window w:
\* the updated window, the histogram total added, and whether a
\* ZeroDivisionError escaped.
Calculate(w) ==
  UNION {{[win     |-> Accumulate(w, bypid, o),
           hist    |-> HistTotal(o),
           zerodiv |-> \E d \in Rounds : o[d].zerodiv] : o \in Draws(w, bypid)} :
         bypid \in ByPids(w)}

-----------------------------------------------------------------------------
VARIABLES
  worksets,     \* (lock, generation) -> its window entry
  histograms,   \* (lock, generation) -> the histogram's 'total'
  q_count,      \* the (lock, generation) pairs that have a q_count entry
  lockmap,      \* lock -> what its end-of-life line reported
  callmap,      \* the callers seen in end-of-life lines
  cycles,
  idle_cycles,
  det1, det2,   \* asym_detector1, asym_detector2
  status,       \* "running", or how the program ended
  lines,        \* lines read so far
  hist_since    \* history: histogram totals added since the last reset

vars == <<worksets, histograms, q_count, lockmap, callmap, cycles,
          idle_cycles, det1, det2, status, lines, hist_since>>

\* The map f with key k set to v.
Put(f, k, v) == [x \in DOMAIN f \cup {k} |-> IF x = k THEN v ELSE f[x]]

\* Mutant: the entry is emptied instead of removed.
DropClear(f, k) == [x \in DOMAIN f |-> IF x = k THEN <<>> ELSE f[x]]

\* The map f without key k (dict.pop).
Drop(f, k) == [x \in DOMAIN f \ {k} |-> f[x]]

\* The entry of f at k, or d when there is none.
Get(f, k, d) == IF k \in DOMAIN f THEN f[k] ELSE d

Init ==
  /\ worksets = <<>>
  /\ histograms = <<>>
  /\ q_count = {}
  /\ lockmap = <<>>
  /\ callmap = {}
  /\ cycles = 0
  /\ idle_cycles = 0
  /\ det1 = EmptyWS
  /\ det2 = EmptyWS
  /\ status = "running"
  /\ lines = 0
  /\ hist_since = <<>>

\* Every line: the loop reads it while the program runs.
ReadsLine ==
  /\ status = "running"
  /\ lines < MaxLines
  /\ lines' = lines + 1

-----------------------------------------------------------------------------
(* The WS_CLOSE handler.                                                   *)

\* Mutant: every new pid of the workset is appended (no break).
AddPidNoBreak(cur, pids) ==
  {cur \o s : s \in {s \in [1..Cardinality(pids \ {cur[i] : i \in DOMAIN cur})
                             -> pids \ {cur[i] : i \in DOMAIN cur}] :
                      \A i, j \in DOMAIN s : i # j => s[i] # s[j]}}

\* The loop over workset.pids: the first pid (in set order) that is not in
\* current_pids is appended, then break.
AddPid(cur, pids) ==
  IF pids \subseteq {cur[i] : i \in DOMAIN cur} THEN {cur}
  ELSE {Append(cur, p) : p \in pids \ {cur[i] : i \in DOMAIN cur}}

\* The sampled branch: append the workset, count a new pid, and update the
\* size and asymmetry counters.
Retain(w, ws, cur) ==
  [w EXCEPT !.ws = Append(@, ws),
            !.pids = cur,
            !.size = @ + SizeWords(ws),
            !.sampled = @ + 1,
            !.asym = IF Compare(ws, det1, FALSE) > 0 \/ Compare(ws, det2, FALSE) > 0
                     THEN @ + 1 ELSE @]

\* The window closes when it holds DI_WINDOW_SIZE worksets or MAX_CPUS
\* pids.
WindowFull(w) == Len(w.ws) >= WindowSize \/ Len(w.pids) = MaxCpus

\* A WS_CLOSE line for key k and its complete blob.  The workset goes to
\* the asymmetry detectors, or is sampled into k's window (retained: the
\* draw randint(0, 100) < DI_SAMPLE_RATE), which is analysed and cleared
\* when full.
WsClose(k, ws) ==
  LET lock == k[1]
      w0   == Get(worksets, k, NewWindow)
  IN
  /\ ReadsLine
  /\ IF UserApp /\ lock >= WsFilterBase
     THEN /\ UNCHANGED <<worksets, histograms, q_count, det1, det2, status,
                         hist_since>>
     ELSE IF lock \in DetectorAddrs
     THEN /\ det2' = det1
          /\ det1' = ws
          /\ UNCHANGED <<worksets, histograms, q_count, status,
                         hist_since>>
     ELSE /\ q_count' = q_count \cup {k}
          /\ \E retained \in {x < SampleRate : x \in 0..RandMax} :
             \E cur \in AddPid(w0.pids, ws.pids) :
               LET w1 == IF retained THEN Retain(w0, ws, cur) ELSE w0
               IN
               /\ IF WindowFull(w1)
                  THEN \E r \in Calculate(w1) :
                         /\ worksets' = Put(worksets, k,
                                            [r.win EXCEPT !.ws = <<>>, !.pids = <<>>])
                         /\ histograms' = Put(histograms, k, Get(histograms, k, 0) + r.hist)
                         /\ hist_since' = Put(hist_since, k, Get(hist_since, k, 0) + r.hist)
                         /\ status' = IF r.zerodiv THEN "zerodiv" ELSE status
                  ELSE /\ worksets' = Put(worksets, k, w1)
                       /\ histograms' = Put(histograms, k, Get(histograms, k, 0))
                       /\ UNCHANGED <<status, hist_since>>
          /\ UNCHANGED <<det1, det2>>
  /\ UNCHANGED <<lockmap, callmap, cycles, idle_cycles>>

\* The log ends inside a WS_CLOSE blob (EOFError): sys.exit(), or the
\* line after the blob is not the lone newline the assertion expects.
BlobEnd(kind) ==
  /\ ReadsLine
  /\ status' = kind
  /\ UNCHANGED <<worksets, histograms, q_count, lockmap, callmap, cycles,
                 idle_cycles, det1, det2, hist_since>>

-----------------------------------------------------------------------------
(* The end-of-life line of a lock (inst_line_re).                          *)

\* What lockmap[lock_addr] records of the window: max_threads and the sums
\* with their sample counts.
Report(gen, h, w) ==
  [gen |-> gen, hist |-> h, maxthreads |-> Cardinality(w.maxthreads),
   conf |-> w.conf, compl |-> w.compl, samples |-> w.samples,
   threads |-> w.threads]

\* The line's callers are added to callmap; one that caller_re does not
\* match (bad) fails 'assert False'.  lockmap must not have the lock yet.
Record(k, r, cs, bad) ==
  /\ lockmap' = Put(lockmap, k[1], r)
  /\ callmap' = callmap \cup cs
  /\ status' = IF k[1] \in DOMAIN lockmap THEN "assert_lockmap"
               ELSE IF bad THEN "assert_caller" ELSE "running"

\* A lock below the threshold, or a kernel lock in user-app mode, is
\* skipped.
Skipped(k, wsize) == wsize < Threshold \/ (UserApp /\ k[1] >= KernelBase)

\* End of life of (lock, generation) k with a window: analyse what is left
\* of it, report the averages, and free it.
EndOfLife(k, wsize, cs, bad) ==
  /\ ReadsLine
  /\ ~Skipped(k, wsize)
  /\ k \in DOMAIN worksets
  /\ \E r \in Calculate(worksets[k]) :
       LET h == Get(histograms, k, 0) + r.hist
       IN  /\ histograms' = Put(histograms, k, h)
           /\ hist_since' = Put(hist_since, k, Get(hist_since, k, 0) + r.hist)
           /\ worksets' = Drop(worksets, k)
           /\ IF r.zerodiv
              THEN /\ status' = "zerodiv"
                   /\ UNCHANGED <<lockmap, callmap>>
              ELSE Record(k, Report(k[2], h, r.win), cs, bad)
  /\ UNCHANGED <<q_count, cycles, idle_cycles, det1, det2>>

\* End of life of k without a window: zero statistics are reported.
EndOfLifeNoWindow(k, wsize, cs, bad) ==
  /\ ReadsLine
  /\ ~Skipped(k, wsize)
  /\ k \notin DOMAIN worksets
  /\ Record(k, Report(k[2], Get(histograms, k, 0), NewWindow), cs, bad)
  /\ UNCHANGED <<worksets, histograms, q_count, cycles, idle_cycles, det1,
                 det2, hist_since>>

\* A skipped end-of-life line.
EndOfLifeSkipped(k, wsize) ==
  /\ ReadsLine
  /\ Skipped(k, wsize)
  /\ UNCHANGED <<worksets, histograms, q_count, lockmap, callmap, cycles,
                 idle_cycles, det1, det2, status, hist_since>>

-----------------------------------------------------------------------------
(* The other records.                                                      *)

\* The end-of-benchmark marker, or a blank line once cycles were counted:
\* process_exp prints the experiment and everything is cleared.
Flush(blank) ==
  /\ ReadsLine
  /\ blank => cycles # 0
  /\ worksets' = <<>>
  /\ histograms' = <<>>
  /\ q_count' = {}
  /\ lockmap' = <<>>
  /\ callmap' = {}
  /\ cycles' = 0
  /\ idle_cycles' = 0
  /\ hist_since' = <<>>
  /\ UNCHANGED <<det1, det2, status>>

\* RESET_STATS: "Dump everything we have collected thus far".
ResetStats ==
  /\ ReadsLine
  /\ worksets' = <<>>
  /\ q_count' = {}
  /\ lockmap' = <<>>
  /\ callmap' = {}
  /\ cycles' = 0
  /\ hist_since' = <<>>
  /\ UNCHANGED <<histograms, idle_cycles, det1, det2, status>>

\* A "Cycles" line adds to cycles; n may be 0.
Cycles(n) ==
  /\ ReadsLine
  /\ cycles' = cycles + n
  /\ UNCHANGED <<worksets, histograms, q_count, lockmap, callmap,
                 idle_cycles, det1, det2, status, hist_since>>

\* A KSTAT_SNAPSHOT line adds to idle_cycles.
Idle(n) ==
  /\ ReadsLine
  /\ idle_cycles' = idle_cycles + n
  /\ UNCHANGED <<worksets, histograms, q_count, lockmap, callmap, cycles,
                 det1, det2, status, hist_since>>

\* f.readline() returns '': the loop ends.
EndOfLog ==
  /\ status = "running"
  /\ status' = "eof"
  /\ UNCHANGED <<worksets, histograms, q_count, lockmap, callmap, cycles,
                 idle_cycles, det1, det2, lines, hist_since>>

Next ==
  \/ \E k \in Keys, ws \in WSs : WsClose(k, ws)
  \/ \E kind \in {"exit", "assert_newline"} : BlobEnd(kind)
  \/ \E k \in Keys, wsize \in WSizes, cs \in SUBSET Callers, bad \in BOOLEAN :
       \/ EndOfLife(k, wsize, cs, bad)
       \/ EndOfLifeNoWindow(k, wsize, cs, bad)
  \/ \E k \in Keys, wsize \in WSizes : EndOfLifeSkipped(k, wsize)
  \/ \E blank \in BOOLEAN : Flush(blank)
  \/ ResetStats
  \/ \E n \in 0..1 : Cycles(n) \/ Idle(n)
  \/ EndOfLog

Spec == Init /\ [][Next]_vars

-----------------------------------------------------------------------------
Window ==
  [ws : Seq(WSs), pids : Seq(Pids), maxthreads : SUBSET Pids,
   conf : [CpuIdx -> Nat], compl : [CpuIdx -> Nat],
   samples : [CpuIdx -> Nat], threads : [CpuIdx -> Nat],
   size : Nat, sampled : Nat, asym : Nat]

TypeOK ==
  /\ DOMAIN worksets \subseteq Keys
  /\ \A k \in DOMAIN worksets : worksets[k] \in Window
  /\ DOMAIN histograms \subseteq Keys
  /\ \A k \in DOMAIN histograms : histograms[k] \in Nat
  /\ q_count \subseteq Keys
  /\ DOMAIN lockmap \subseteq Locks
  /\ callmap \subseteq Callers
  /\ cycles \in Nat /\ idle_cycles \in Nat
  /\ det1 \in WSs \cup {EmptyWS} /\ det2 \in WSs \cup {EmptyWS}
  /\ status \in {"running", "eof", "exit", "assert_newline", "zerodiv",
                 "assert_lockmap", "assert_caller"}
  /\ lines \in 0..MaxLines

\* A window never holds DI_WINDOW_SIZE worksets or MAX_CPUS pids between
\* two lines: the WS_CLOSE handler adds at most one pid per workset (the
\* break) and closes the window on reaching either bound, so the '=='
\* test on the pid count cannot be jumped over.  This bounds the memory a
\* lock's windows hold.
WindowBounded ==
  \A k \in DOMAIN worksets :
    /\ Len(worksets[k].ws) < WindowSize
    /\ Len(worksets[k].pids) < MaxCpus

\* calculate_new_data_independence never divides by zero: a sample never
\* has exactly one conflicting workset, because compare() is symmetric.
NoZeroDivision == status # "zerodiv"

\* Spec section 8, window-close idempotence: every sample counted in a
\* reported average had at least one thread, so closing an analysed window
\* again adds no empty samples.
AveragesFromRealSamples ==
  \A l \in DOMAIN lockmap, c \in CpuIdx :
    lockmap[l].threads[c] >= lockmap[l].samples[c]

\* RESET_STATS dumps everything collected so far (its comment): no
\* histogram keeps counts from before it.
ResetClearsHistograms ==
  \A k \in DOMAIN histograms : histograms[k] = Get(hist_since, k, 0)

=============================================================================
