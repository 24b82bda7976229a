# Formal models of syncchar

This directory holds TLA+ models of the syncchar tools under `src/scripts`,
TLC configurations that check them on small instances, and TLAPS proofs of
their main invariants.

## The system

syncchar characterises kernel synchronisation from Simics traces.  It has
three parts.

* **Pre-processor** (`sync_char_pre.py`).  `SCAN_OBJ` reads
  `objdump --disassemble --line-numbers` output for vmlinux.  It reads one
  line at a time through an `FSM` object (`fsm.py`).  The output is a map of
  the instructions that take or release a lock, and of where each lock's
  address can be found.  There are two catalogs:
  * `noninlined_funcs`, functions whose lock instruction is found inside
    their own body (state `in_func`);
  * `re_i_s`, inlined lock primitives, recognised by the inlined name or by
    a file:line annotation (state `inlined`, action `found_nexti`).
* **Simics side** (`src/sws`).  It configures the simulator and the
  cache hierarchy that produce the trace.  It has no logic of its own to check.
* **Post-processor** (`sync_char_post.py`).  It reads the trace.  A lock's
  critical sections arrive as `WS_CLOSE` lines with binary read/write bitmaps
  (`WorkSet`).  It samples them into windows, and when a window closes it
  estimates data independence from pairwise `compare`.  It also handles a
  lock's end-of-life line, resets and end-of-benchmark markers.
* **Symbol tables** (`sync_common.py`).  The post-processor names code
  addresses through `ksym` (pc to function, file:line and inlined function,
  built by `GET_KSYM` from objdump output) and data addresses through
  `nm_sym` (built by `GET_NM` from nm output).  `init_syms` caches both in a
  pickle next to vmlinux and rebuilds it when vmlinux is newer.

## Modules

| Module | Models |
|---|---|
| `FSM` | `fsm.py`: a rule of `add()`, and the rules `execute()` may pick for an input. An exact key comes first, then any matching regex (the order is dictionary hash order, so any one may be picked), then the `None` rule. The empty set is `FSMError`. |
| `Scanner` | `SCAN_OBJ`: one action per FSM action, plus the `scan()` loop. |
| `MCScanner` | Small catalogs for TLC, taken from real entries of `noninlined_funcs` and `re_i_s`. |
| `ScannerProofs` | TLAPS proofs about `Scanner`. |
| `WorkSet` | `class WorkSet` of `sync_char_post.py`: chunks, `_size`, `_wsize`, `_size_words`, `compare`. Pure operators, no state. |
| `WorkSetPair` | Two worksets built by the `WS_CLOSE` blob parser, one blob entry per step, to check `compare` on every small pair. |
| `WorkSetProofs` | TLAPS lemmas about `compare` and its helpers, shared by the two modules below. |
| `WorkSetPairProofs` | TLAPS proofs about `WorkSetPair`. |
| `MCWorkSetPair` | Two keys (0x1000, 0x1020) and eight chunk pairs for TLC. |
| `Analyzer` | The main loop of `sync_char_post.py`: `WS_CLOSE`, `calculate_new_data_independence`, end-of-life lines, `RESET_STATS`, the end-of-benchmark flush, cycles/idle lines, end of log. |
| `AnalyzerProofs` | TLAPS proofs about `Analyzer`. |
| `MCAnalyzer` | Four worksets (a reader, a writer, a two-pid writer, an IO reader) for TLC. |
| `Symbols` | `GET_KSYM`, `GET_NM` and `init_syms` of `sync_common.py`, across program runs that may be killed at any step, with kernel rebuilds and a clock in whole seconds. |
| `SymbolCache` | The pickle-cache protocol of `init_syms` with the symbol tables hidden: what a run does to the cache file and what it reports. `Symbols` implements it. |
| `MCSymbols` | Two function names, one .c file, addresses 0..3 with `0xc0000000` at 1, one nm symbol. |
| `SymbolsProofs` | TLAPS proofs about `Symbols`. |

### Scanner: state and actions

Variables:

* `state` and `states` are the FSM's current state and its table. The table
  is a function from a state name to a row (a set of rules).
* `func_name`, `func_pc`, `file_line`, `lock_ra` and `insts` are the fields of
  `SCAN_OBJ`.
* `status` is `running`, `done` (end of input) or `aborted` (an exception
  escaped `scan()`).
* `lineno` counts the input lines read so far.
* `ri` and `cur` are the cursor of `found_nexti`'s loop over `re_i_s` and the
  line being processed. The loop is split into steps so that each catalog
  entry is one step.
* `last_inst` and `fls_since_name` are history variables, used only by
  properties.

Lines are abstracted to their shape:

* a function header (an address and a name);
* an inlined marker (a name);
* a file:line annotation;
* an instruction (an address, an opcode class and which operand groups the
  lock regexes would capture);
* a blank line, or junk.

A regex is the set of shapes it matches. A line's address is its position in
the stream.

Actions:

* `ReadLine(l)` is one `execute()` call. It picks a rule from `Lookup` and
  runs its action:
  * `InFunc`, for `in_func` with `_fsm_in_func`, or the `RestartException`
    to `scan`;
  * `SetFuncName`, including the `__xchg` special case;
  * `SetFl`;
  * `NoAction`;
  * `FoundLockAddr`, for `found_lock_addr`, `real_found_lock_addr` and
    `record_lock_info` together with its assertions;
  * `FoundNexti`, for the first part of `found_nexti`, which resolves the
    placeholder.
* `NextiEntry` is one iteration of `found_nexti`'s loop.
* `EndOfInput` is the end of the stream in `scan()`.

An assertion failure or a `KeyError` escapes `scan()` and sets `status` to
`aborted`.

## Runs (scanner)

The scanner runs use `MCScanner`, with at most 5 lines.

| Run | cfg | Expect | What it shows |
|---|---|---|---|
| scanner_pass | MCScanner.cfg | pass | `TypeOK`; `InFuncInstalled`, which says the `in_func` row is always the one built for the current function; `ExecuteTotal`, which says `execute()` always finds a row and a rule, so `FSMError` never occurs; the inductive invariant `IInv`; the action property `RecordsFinal`: no step shortens the record list or changes a record, except `found_nexti` giving a `"zero"` placeholder its `lock_pc`. |
| scanner_duplicate_records | MCScannerDup.cfg | violation | An instruction accepted by two `re_i_s` entries is recorded twice. |
| scanner_abort | MCScannerAbort.cfg | violation | A malformed lock instruction aborts the whole scan. |
| scanner_placeholder | MCScannerPh.cfg | violation | The placeholder takes the first instruction read in `inlined`, not the instruction after the lock. |
| scanner_stale_name | MCScannerName.cfg | violation | An inlined name keeps matching after two later annotations. |

Why 5 lines are enough: the longest interesting pattern needs only 4 lines,
namely a header, a marker, an annotation and an instruction. Within 5 lines
the catalogs include:

* a LOOP_UNROLL function (`__down`);
* an EAX function (`complete`);
* two `re_i_s` entries that accept the same instruction;
* a NOADDR entry.

Together these reach every row and every action. The run explores about
100k distinct states.

The scanner runs with `CHECK_DEADLOCK FALSE`, because a stream really ends:
after `EndOfInput`, or once `MaxLines` lines have been read, nothing more can
happen.

Liveness is not asked of the scanner. `scan()` is a loop over a finite
stream, and no property of it is about "eventually".

### WorkSet: how the bit operations are written

A chunk is a number in `0..4^Slots - 1` (`Slots` = `4 * SET_CHUNK_SIZE` =
16 bytes). `ReadBit(c, j)` and `WriteBit(c, j)` are bits `2j` and `2j+1`,
i.e. what `& READ_MASK` and `(& WRITE_MASK) >> 1` leave at slot `j`. The
byte of slot `j` of chunk `i` is `key + 16*i + (15 - j)` (`ByteAddr`): the
code shifts `depends` right while `j` counts up, so the lowest bit pair is
the highest byte. `Word` is `la & 0xFFFFFFFC`. `Intersection` is the set
of entries `compare` appends (it appends an entry only when absent, and
decrements `dependences` for a repeat, so the count is the set's size);
`Compare` is its cardinality. Only keys of both worksets count, and chunk
`i` of one is paired with chunk `i` of the other; the blob parser always
stores two chunks per key, so `range2[i]` cannot be out of range.

### Analyzer: state and actions

Variables (keys are `<<lock, generation>>`):

* `worksets`: the window entry of each key (`worksets[lock][gen]` in the
  code): the sampled worksets `ws`, `current_pids` as `pids`, `max_threads`,
  the per-cpu-count sums `conf`, `compl`, `threads` with their `samples`,
  and `size`, `sampled`, `asym` (`workset_size`, `worksets_sampled`,
  `asym_detected`);
* `histograms`: the `'total'` of each key's histogram;
* `q_count`: the keys with a `q_count` entry; `lockmap`, `callmap`;
* `cycles`, `idle_cycles`, `det1`, `det2` (the asymmetry detectors);
* `status`: `running`, `eof`, `exit` (EOF inside a blob), or the exception
  that ended the program: `zerodiv`, `assert_newline`, `assert_lockmap`,
  `assert_caller`;
* `lines` counts lines read; `hist_since` is a history variable used
  only by a property.

Actions, one per kind of log line:

* `WsClose(k, ws)`: a `WS_CLOSE` line with its whole blob. In order: the
  user-app filter (`>= 0xc000000`), the detector addresses `0` and
  `0xc0000000` (rotate `det2 <- det1 <- ws`), creation of the histogram,
  `q_count` and window entries, the draw `randint(0,100) < DI_SAMPLE_RATE`,
  the pid loop that appends the first new pid and breaks (`AddPid`), the
  size and asymmetry counters (`Retain`), and, when the window is full
  (`WindowFull`), `Calculate` followed by clearing `ws` and `pids`.
* `BlobEnd(kind)`: the blob is truncated (`sys.exit()`) or not followed by
  the lone newline the assertion expects.
* `EndOfLife`, `EndOfLifeNoWindow`, `EndOfLifeSkipped`: an `inst_line`.
  Skipped below the threshold or, in user-app mode, at or above
  `0xc0000000`. With a window, it is analysed once more and popped; then the
  `lockmap` assertion, the histogram lookup, and the callers (a caller that
  `caller_re` does not match fails `assert False`).
* `Flush(blank)`: the end-of-benchmark marker, or a blank line when
  `cycles != 0`: everything is cleared.
* `ResetStats`: clears what the code clears, which is not `histograms` or
  `idle_cycles`.
* `Cycles(n)`, `Idle(n)`, `EndOfLog`.

`Calculate(w)` is `calculate_new_data_independence`: each workset is filed
under one of its pids (`ws.pids.pop()` is arbitrary); for every cpu count
and round, a set of distinct pids of size `min(len(by_pid), cpu_count)` is
drawn with one workset each (`random.sample`); `Conflicting` is the
for/else loop with `break`; the histogram total counts ordered pairs of
conflicting worksets that depend; a sample with exactly one conflicting
workset is the `ZeroDivisionError` of `local_conflicts /= conflicting - 1`.
Every random choice of the code is a nondeterministic choice of the model.
Averages are kept as sums and sample counts; the code divides them at end
of life when `samples > 0`, so a property about an average is stated on
the sums.

## Runs (post-processor)

| Run | cfg | Expect | What it shows |
|---|---|---|---|
| workset_pass | MCWorkSetPair.cfg | pass | `CompareSymmetric`: `compare(a, b)` = `compare(b, a)` with and without IO, for every pair of blobs of up to 2 entries. The analyzer depends on it: an asymmetric compare could make exactly one workset of a sample conflict. |
| analyzer_pass | MCAnalyzer.cfg | pass | `WindowBounded`: a stored window never holds `DI_WINDOW_SIZE` worksets or `MAX_CPUS` pids (the pid loop's `break` and the `==` test together guarantee it); `NoZeroDivision`: no sample has exactly one conflicting workset, so `calculate_new_data_independence` never divides by zero. |
| analyzer_empty_samples | MCAnalyzerIdem.cfg | violation | `AveragesFromRealSamples`: end of life analyses the empty window left after a full window closed and counts it as a sample. |
| analyzer_reset_histograms | MCAnalyzerReset.cfg | violation | `ResetClearsHistograms`: histogram totals survive `RESET_STATS`. |

Bounds. Addresses are scaled by 2^-26 so that TLC's 32-bit integers hold
them: `0xc0000000` becomes `KernelBase = 48` and `0xc000000` becomes
`WsFilterBase = 3`; lock 4 lies between the two, as user locks in
`0x0c000000..0xbfffffff` do. Worksets have one key and one chunk pair each
(two keys for the IO worksets), enough for a reader/writer conflict, a
non-conflict, and IO. `WindowSize = 3`, `MaxCpus = 2`, cpu counts
`<<1, 2>>` and one round make a window close on pids after two worksets and
on size after three, and make samples of one and two worksets. Logs have up
to 5 lines: the longest pattern of interest (two `WS_CLOSE` lines that close
a window, a reset, an end-of-life line) needs 4. The pass run explores
about 98k distinct states.

Three observations made while modelling are not kept as runs:

* `compare(a, a)` counts only the written words of `a`, while the spec says
  it equals `a.size()`. A read-only slot adds nothing to `depends`.
* Chunk bit 0 at key 0x1000 is the word 0x100c, not 0x1000 as the spec's
  second scenario has it (`sync_char_post.py:194`).
* The `WS_CLOSE` user filter compares with `0xc000000` (one zero short of
  the end-of-life filter's `0xc0000000`).

Deadlock is not checked: the log really ends (`EndOfLog`, or an exception).
No liveness is asked: the program is a loop over a finite file.

### Symbols: state and actions

The disk is `kver` and `kmtime`, the version and `ST_MTIME` of vmlinux, and
`pickle`, a record `[st, ver, mtime]`:

* `st` is `none`, `partial` (opened with `'wb'`, not yet closed) or `full`;
* `ver` is the kernel version whose symbols the pickle holds.

`clock` counts whole seconds.

A program run moves `phase` through these states:

* `idle`;
* `ksym`, while `GET_KSYM` reads objdump output;
* `nm`, while `GET_NM` reads nm output;
* `dump`, after the pickle is opened.

`GET_KSYM`'s fields (`real_func`, `real_addr`, `inlined_func`, `cfl`,
`last_ksym_pc`, `last_sym_pc`) and the dictionaries `ksym` and `nm` are
variables. Two history variables serve the properties:

* `ctx` keeps the context each instruction was read under;
* `nextpc` is the lowest address objdump may list next, because objdump
  lists in address order.

`result` says how the last run ended.

A line is abstracted to its shape. `KMatch` gives the regex of the row it
matches, and `Candidates` of `FSM` picks the rule, exactly as for the
scanner. The actions:

* `Start`: a new run stats the pickle (`0` if it does not exist) and
  vmlinux. If the kernel is newer, the run starts `GET_KSYM` with fresh
  fields. Otherwise it exits (`opt_pickle_only`) or loads the pickle, and
  a `partial` pickle makes `pickle.load` fail.
* `KsymLine(l)`: one `fsm.execute(line)`, dispatched to `SetRealFunc`,
  `SetCfl`, `SetInlinedFunc` or `RecordKsym`. `RecordKsym` writes the
  current context to every pc in `range(max(new_pc-1, last_ksym_pc),
  new_pc+1)` (`Recorded`) and assigns `last_sym_pc`, the misspelt field,
  so `last_ksym_pc` stays at `0xc0000000`.
* `KsymEnd`, `NmLine(l)` (`set_symbol` with `invert` false), `NmEnd`
  (`open(opt_pickle, 'wb')`: `partial`, mtime now), and `Dump` (both
  dumps and `close`: `full`).
* `Crash`: the run is killed at any step.
* `Rebuild`: the kernel is rebuilt at the current second.
* `Tick`: a second passes.

`SymbolCache` states what `init_syms` promises about its pickle, with the
tables left out. Its `stage` is `idle`, `building` (tables in memory) or
`writing` (pickle open), and its actions are:

* `Begin` (the mtime test, then build, exit or load);
* `Invalidate` (`open 'wb'`) and `Commit` (dump and close);
* `Abort`, `Rebuild` and `Tick`.

`Symbols` maps onto it by `Stage`, which sends `ksym` and `nm` to
`building` and `dump` to `writing`. The other variables map to themselves.
`KsymLine`, `KsymEnd` and `NmLine` are stutters of `SymbolCache`.
`CacheRefinement == Cache!Spec` is checked on `symbols_pass`.

The mutant `DumpRestat` stamps the pickle with the kernel version found at
dump time. It breaks the refinement once a rebuild falls inside a run.

`KeyLabel(a)` is how `print_map_av` names an address: by `ksym`, else by
`nm_sym`, else by the address itself.

## Runs (symbol tables)

| Run | cfg | Expect | What it shows |
|---|---|---|---|
| symbols_pass | MCSymbols.cfg | pass | `KsymCovers`: every instruction at or above `0xc0000000` has a `ksym` entry. `KsymRewriteByNext` (action property): `record_ksym` rewrites an existing entry only while reading the instruction right after it, so an entry is final once the next address is past. `CacheRefinement`: `Symbols` implements `SymbolCache`. |
| symbols_own_entry | MCSymbolsOwn.cfg | violation | `OwnEntryKept`: the comment says PC-1 is written only "if that didn't have an instruction". Because `last_ksym_pc` is never advanced (the typo at `sync_common.py:74`), instruction 2 overwrites the entry of instruction 1. The report then labels instruction 1 with the function of the line read between them. |
| symbols_stale | MCSymbolsStale.cfg | violation | `SymbolsCurrent`: a run killed after `open(..., 'wb')` leaves a truncated pickle newer than vmlinux. Every later run then skips the rebuild and fails in `pickle.load`. |

The same `SymbolsCurrent` also fails without any kill: if vmlinux is
rebuilt in the second the pickle was written, `kernel_time > pickle_time`
is false, and the old symbols load silently.

Bounds. With `KBase = 1` and addresses `0..3`:

* address 0 lies below `0xc0000000`;
* address 1 is the first one recorded, without its predecessor;
* addresses 2 and 3 let an instruction meet an earlier entry at pc-1.

`RecordedWide`, a range starting at pc-2, needs all four addresses to show
the rewrite. Three lines per output are enough for the overwrite: an
instruction, a `name():` line and the next instruction. Two runs, two
seconds and two kernel versions are enough for a kill and a reload, and
for a rebuild in the same second. The pass run explores about 990k
distinct states in under 10 seconds.

Deadlock is not checked: the number of runs is bounded, and each run ends.

## Proofs

`ScannerProofs` proves these theorems for every catalog and every stream
length allowed by `ScannerAssumption`:

* `IInvInvariant`: `Spec => []IInv`;
* `TypeCorrect`: `Spec => []TypeOK`;
* `InFuncInstalledInvariant`;
* `ExecuteTotalInvariant`.

`IInv` strengthens `TypeOK` with three facts:

* `TablesOK`: each row has only keys that `SCAN_OBJ` registers, and has a
  `None` rule. The `scan` and `inlined` rows never change.
* `InFuncInstalled`.
* `LoopOK`: while the loop runs, `cur` holds an instruction line.

`ExecuteTotal` follows from `TablesOK`, because every row has a `None` rule.
`TypeOK` alone is not inductive: the type of the records that `found_nexti`
appends depends on the loop cursor and `cur`.

The proof checks `Init => IInv` and then `IInv /\ [Next]_vars => IInv'`. The
step has one case per action. Lemmas cover:

* the rows (`OuterRowsOK`, `InFuncRowOK`);
* the lookup (`CandidateOfRow`, `DefaultApplies`);
* the records appended (`NewRecordsType`).

It also proves `RecordsFinalHolds`: `Spec => RecordsFinal`, the action
property of `scanner_pass`. `found_nexti` (lines 827-828) rewrites the last
record whenever its `lock_pc` is `"zero"`, and does not ask whether that
record is a placeholder. The property holds only because no lock record
ever has pc `"zero"`. `PcInv` says so, and adds that while the loop runs
`cur`'s address is not `"zero"`. `PcInvInvariant` proves
`Spec => [](IInv /\ PcInv)`. Each step appends records (`AppendRecords`,
`NewRecordsPc`) or resolves the placeholder (`ResolvePlaceholder`), and
both keep `PcInv` and the step's `FinalStep` form. `IInv /\ PcInv` was
checked with TLC on `MCScanner` before it was proved.

`AnalyzerProofs` proves, for every value of the analyzer's constants
allowed by `AnalyzerAssumption` (positive `DI_WINDOW_SIZE` and `MAX_CPUS`,
worksets with non-empty pid sets drawn from `Pids`):

* `WinInvInvariant`: `Spec => []WinInv`;
* `WindowBoundedInvariant`: `Spec => []WindowBounded`, the property of run
  `analyzer_pass`.

`WindowBounded` is not inductive alone: the closing step writes back the
record `calculate_new_data_independence` returns, and the appending step
needs `ws` and `pids` to be sequences. `WinInv` adds that every window has
exactly the window fields and sequence-valued `ws` and `pids`. The argument
of the `WS_CLOSE` step (`WsCloseWinInv`): the pid loop appends at most one
pid (`AddPidLen`), sampling appends one workset (`RetainShape`), so both
lengths are at most their bound after the step; if either reaches it the
window is full, and `Calculate` keeps the fields (`CalculateShape`) so the
cleared entry is `WinOK`; otherwise `~WindowFull` makes both strict. The
other actions only remove windows. `WinInv` was checked with TLC on the
`MCAnalyzer` instance before it was proved.

It also proves `NoZeroDivisionInvariant`: `Spec => []NoZeroDivision`, the
second property of `analyzer_pass`. The code divides by
`float(conflicting - 1)`, so a sample with exactly one conflicting workset
would divide by zero. The argument does not count anything.
`ConflictingNotOne` shows that if workset `j` conflicts with some other
drawn workset `k`, then `k` conflicts with `j`, because `compare` is
symmetric. So the set of conflicting worksets is never a singleton.
`SampleZeroDiv`, `CalculateNoZeroDiv`, `WsCloseNoZeroDiv` and
`EndOfLifeNoZeroDiv` carry this through sampling, `Calculate` and the
actions. The inductive invariant is `NZInv == WinInv /\ NoZeroDivision`,
checked with TLC first. `AnalyzerAssumption` gains one conjunct: every
workset's chunks are pairs of naturals, which is what the `WS_CLOSE` blob
parser stores. The symmetry lemmas (`CompareSymmetricLemma`,
`SharedPositions`, `IntersectionSymmetric`, `DependsSymmetric`) live in
`WorkSetProofs`, and both `WorkSetPairProofs` and `AnalyzerProofs` cite
them.

`SymbolsProofs` proves, for every value of the constants allowed by
`SymbolsAssumption`:

* `TypeCorrect`;
* `KsymCoversInvariant`;
* `KsymRewriteByNextHolds`, the action property of `symbols_pass`.

It also proves `IInvInvariant`. Its invariant `IInv` adds two facts to
`TypeOK` and `KsymCovers`:

* `FieldsOK`: the fields hold names of the right sets, and `last_ksym_pc`
  stays `KBase`. `KsymCovers` needs this: a `last_ksym_pc` above `new_pc`
  would leave `new_pc` out of the range.
* `Below`: every address in `ksym` or in `ctx` is below `nextpc`.

For the action property, `RecordKsymRewrite` argues as follows. An entry
that `record_ksym` changes is in `Recorded(new_pc)`, so it is `new_pc - 1`
or `new_pc`. `Below` rules out `new_pc`, and shows that `new_pc` had no
instruction before. `KsymDispatch` and `NmDispatch` show that each action
is reached only by the line shape its regex matches. `IInv` was checked
with TLC on `MCSymbols` before it was proved.

It also proves `CacheRefinementHolds`: `Spec => CacheRefinement`, the
refinement of `SymbolCache`, in the two steps of a refinement proof:

* `InitCache`: `Init => Cache!Init`;
* `NextCache`: `TypeOK /\ [Next]_vars => [Cache!Next]_Cache!cvars`, one
  case per action.

`Start` is `Begin`. In the build branch, `built` and `Stage` move together,
and in the other branch the result records match. `NmEnd`, `Dump`, `Crash`,
`Rebuild` and `Tick` are `Invalidate`, `Commit`, `Abort`, `Rebuild` and
`Tick`. The line steps leave every mapped variable alone. Only `Crash`
needs an invariant: `phase # "idle"` gives `Stage # "idle"` only because
`TypeOK` limits `phase` to its four values. `TypeCorrect` then closes the
temporal step.

`WorkSetPairProofs` proves, for every set of chunk pairs and every bound
allowed by `WorkSetPairAssumption`:

* `TypeCorrect`: `Spec => []TypeOK`;
* `CompareSymmetricInvariant`: `Spec => []CompareSymmetric`, the
  property of `workset_pass`.

`WorkSetPairAssumption` says that chunks are pairs of naturals. The blob
parser appends two unsigned items for every three it reads. `TypeOK` is
inductive by itself (`InitTypeOK`, `NextTypeOK`). Symmetry needs no more
than `TypeOK`. `compare` counts over the chunks of the shared keys, and
`SharedPositions` shows that both work sets give the same set of (key,
half) positions. `IntersectionSymmetric` then shows that the intersection
formula is the same with the two sides swapped. `DependsSymmetric` covers
the dependence test. The bit arithmetic is never needed, so no fact about
the chunk values' bits enters the proof.

These stay with TLC:

* `Analyzer`'s `TypeOK`, and the values `Calculate` computes.
  `SumRounds` and `HistTotal` are recursive functions over the window's
  draws, so showing that they return naturals needs induction over data.
  `NoZeroDivision` avoids this, because its proof never evaluates a sum. The library's induction theorems
  take an operator parameter, which the installed provers cannot
  instantiate.
* The `compare` counts themselves, which are bit-level.

Liveness is not a question for these programs: each is a loop over a
finite input, so nothing is proved or checked about "eventually".

## Not modelled

* Printing of the records, option parsing, and running objdump/nm.
* `get_static_locks`.
* In `sync_common.py`:
  * `init_syscalls`, a regex scan of `unistd.h`;
  * the branch of `init_syms` without a pickle, which the post-processor
    never takes;
  * `GET_NM` with `invert`, used only by the pre-processor's static lock
    tables;
  * `commify`, `print_set` and `print_hash`.
* Two post-processing runs writing the same pickle at once. The model runs
  one program at a time.
* In the post-processor: `process_exp` and the report printing, the arff
  output, the HotOS metric (`USE_HOTOS_DI` is off), the conflict-density
  values, per-address histogram entries (only `'total'` is kept), and the
  `q_count` statistics, whose update code is commented out; the cpu-info
  line only prints.
* The Simics scripts.

These parts are I/O and formatting with no control of interest.
