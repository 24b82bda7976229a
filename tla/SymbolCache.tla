---------------------------- MODULE SymbolCache ----------------------------
(***************************************************************************)
(* The protocol of init_syms (src/scripts/sync_common.py) on its pickle,   *)
(* with the symbol tables themselves left out: what a run does to the      *)
(* cache file, and what it reports, whatever objdump and nm print.         *)
(*                                                                         *)
(* A run that finds the pickle at least as new as vmlinux uses it (or      *)
(* exits with opt_pickle_only); otherwise it builds the tables of the      *)
(* kernel it stat'ed, which takes no visible step, then invalidates the    *)
(* file (open 'wb') and commits it (dump and close).  A run may be killed  *)
(* at any point; the kernel may be rebuilt and the clock advance at any    *)
(* point.  Symbols implements this specification.                          *)
(***************************************************************************)
EXTENDS Naturals

CONSTANTS MaxClock, MaxVer, MaxRuns

VARIABLES
  kver, kmtime,  \* vmlinux: its version and mtime
  pickle,        \* the cache file: [st, ver, mtime]
  clock,
  stage,         \* "idle", "building" (tables in memory) or "writing"
  only,          \* opt_pickle_only of the current run
  startver,      \* the kernel version the current run stat'ed
  built,         \* the kernel version whose tables the run builds
  runs,
  result         \* [k, ver, start]: how the last run ended

cvars == <<kver, kmtime, pickle, clock, stage, only, startver, built, runs,
           result>>

\* How a run ended: its kind, the tables' kernel version, and the kernel
\* version it stat'ed.
Outcome(k, v, s) == [k |-> k, ver |-> v, start |-> s]

Init ==
  /\ kver = 1 /\ kmtime = 1 /\ clock = 1
  /\ pickle = [st |-> "none", ver |-> 0, mtime |-> 0]
  /\ stage = "idle" /\ only = FALSE /\ startver = 0 /\ built = 0
  /\ runs = 0 /\ result = Outcome("none", 0, 0)

\* The mtime test: the pickle is out of date (or missing).
Stale == kmtime > (IF pickle.st = "none" THEN 0 ELSE pickle.mtime)

\* A run starts: on a stale pickle it builds the tables of the current
\* kernel; otherwise it exits or loads what the pickle holds.
Begin ==
  /\ stage = "idle" /\ runs < MaxRuns
  /\ runs' = runs + 1 /\ startver' = kver
  /\ \E o \in BOOLEAN :
       /\ only' = o
       /\ IF Stale
          THEN /\ stage' = "building" /\ built' = kver /\ UNCHANGED result
          ELSE /\ result' = IF o THEN Outcome("exit", 0, kver)
                            ELSE IF pickle.st = "full"
                            THEN Outcome("ok", pickle.ver, kver)
                            ELSE Outcome("load_error", 0, kver)
               /\ UNCHANGED <<stage, built>>
  /\ UNCHANGED <<kver, kmtime, pickle, clock>>

\* open(opt_pickle, 'wb'): the file is truncated now.
Invalidate ==
  /\ stage = "building"
  /\ stage' = "writing"
  /\ pickle' = [st |-> "partial", ver |-> 0, mtime |-> clock]
  /\ UNCHANGED <<kver, kmtime, clock, only, startver, built, runs, result>>

\* Both dumps and close: the file holds the tables built.
Commit ==
  /\ stage = "writing"
  /\ stage' = "idle"
  /\ pickle' = [st |-> "full", ver |-> built, mtime |-> clock]
  /\ result' = Outcome(IF only THEN "exit" ELSE "ok", built, startver)
  /\ UNCHANGED <<kver, kmtime, clock, only, startver, built, runs>>

\* The run is killed.
Abort ==
  /\ stage # "idle"
  /\ stage' = "idle"
  /\ result' = Outcome("crash", 0, startver)
  /\ UNCHANGED <<kver, kmtime, pickle, clock, only, startver, built, runs>>

\* The kernel is rebuilt at the current second.
Rebuild ==
  /\ kver < MaxVer
  /\ kver' = kver + 1 /\ kmtime' = clock
  /\ UNCHANGED <<pickle, clock, stage, only, startver, built, runs, result>>

\* A second passes.
Tick ==
  /\ clock < MaxClock
  /\ clock' = clock + 1
  /\ UNCHANGED <<kver, kmtime, pickle, stage, only, startver, built, runs,
                 result>>

Next == Begin \/ Invalidate \/ Commit \/ Abort \/ Rebuild \/ Tick

Spec == Init /\ [][Next]_cvars
=============================================================================
