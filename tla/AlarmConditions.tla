--------------------------- MODULE AlarmConditions ---------------------------
(***************************************************************************)
(* What spc/alarms.py promises an operator (its docstring, lines 12-16):   *)
(* an alarm is a condition.  It is raised once when its rule starts        *)
(* firing, stands while the rule keeps firing, and clears when the rule    *)
(* has been quiet for ClearAfter subgroups; an operator acknowledges what  *)
(* is standing.  There is no list of alarms and no position in a list      *)
(* here: AlarmLog keeps those, and implements this specification.          *)
(***************************************************************************)
EXTENDS Integers

CONSTANTS Key,          \* the (chart, rule) pairs that can raise an alarm
          ClearAfter,   \* quiet subgroups before a condition clears
          MaxIndex      \* bound: the last subgroup of a behaviour

VARIABLES standing,     \* the keys whose condition stands
          seen,         \* those of them an operator has acknowledged
          since,        \* the subgroup on which a standing condition began
          latest,       \* the subgroup on which it most recently fired
          subgroup      \* the subgroup being processed

vars == <<standing, seen, since, latest, subgroup>>

Init == /\ standing = {}
        /\ seen = {}
        /\ since = [k \in Key |-> 0]
        /\ latest = [k \in Key |-> 0]
        /\ subgroup = 0

\* The rule of k fires on this subgroup: a new condition nobody has seen, or
\* one more firing of the condition that already stands.
Fire(k) ==
    /\ standing' = standing \cup {k}
    /\ since' = IF k \in standing THEN since ELSE [since EXCEPT ![k] = subgroup]
    /\ latest' = [latest EXCEPT ![k] = subgroup]
    /\ UNCHANGED <<seen, subgroup>>

Only(S, f) == [k \in Key |-> IF k \in S THEN f[k] ELSE 0]

\* The standing conditions that have not been quiet for long enough to clear.
Lasting == {k \in standing : subgroup - latest[k] < ClearAfter}

\* The subgroup is done: what has been quiet long enough clears.
CloseSubgroup ==
    /\ subgroup < MaxIndex
    /\ standing' = Lasting
    /\ seen' = seen \cap Lasting
    /\ since' = Only(Lasting, since)
    /\ latest' = Only(Lasting, latest)
    /\ subgroup' = subgroup + 1

\* The operator has seen everything that stands.
Acknowledge ==
    /\ seen' = standing
    /\ UNCHANGED <<standing, since, latest, subgroup>>

\* Every condition is forgotten.
Forget ==
    /\ standing' = {}
    /\ seen' = {}
    /\ since' = Only({}, since)
    /\ latest' = Only({}, latest)
    /\ UNCHANGED subgroup

Next == \/ \E k \in Key : Fire(k)
        \/ CloseSubgroup
        \/ Acknowledge
        \/ Forget

Spec == Init /\ [][Next]_vars
==============================================================================
