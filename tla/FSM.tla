-------------------------------- MODULE FSM --------------------------------
(***************************************************************************)
(* The rule table of class FSM (src/scripts/fsm.py) and the lookup its     *)
(* execute() performs.  A table row is the dictionary one state keeps: a   *)
(* set of rules, each a key (a literal input, a compiled regex, or None),  *)
(* the state to move to and the action to run.  The operators here are     *)
(* shared by every module whose code drives an FSM object.                 *)
(***************************************************************************)

\* The key None of fsm.py: the default rule of a state.
NoneKey == "None"

\* A (key, newstate, action) entry of a state's dictionary.
Rule(k, newstate, action) == [key |-> k, next |-> newstate, act |-> action]

(***************************************************************************)
(* The rules execute() may pick for an input from a state's row.  An     *)
(* exact key (has_key) wins; otherwise a regex key that matches, in the    *)
(* order of state.keys(), which for compiled regexes is the dictionary's   *)
(* hash order, so any matching one may come first; otherwise the None      *)
(* rule.  The empty set is the FSMError raised when nothing applies.       *)
(* lits is the set of keys equal to the input, rxs the set of regex keys  *)
(* that match it.                                                          *)
(***************************************************************************)
Candidates(row, lits, rxs) ==
  LET exact == {r \in row : r.key \in lits}
      rx    == {r \in row : r.key # NoneKey /\ r.key \in rxs}
      dflt  == {r \in row : r.key = NoneKey}
  IN  IF exact # {} THEN exact ELSE IF rx # {} THEN rx ELSE dflt
=============================================================================
