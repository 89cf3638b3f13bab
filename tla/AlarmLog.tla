------------------------------ MODULE AlarmLog ------------------------------
(***************************************************************************)
(* spc/alarms.py, class AlarmLog: the log that collapses the violations of *)
(* the Nelson rules into alarms that are raised, stand and clear.  The     *)
(* caller is SPCEngine._monitor: for each plotted subgroup it records the  *)
(* violations of that subgroup, each key at most once, and then expires    *)
(* the log at the index of the subgroup.  An operator acknowledges between *)
(* any two calls (LiveAlarms has the finer interleaving).                  *)
(*                                                                         *)
(* A key is the pair (chart, rule); the text of an alarm is left out.      *)
(* Positions count from 1, so 0 is "no entry" in the dictionary _open.     *)
(***************************************************************************)
EXTENDS Integers, Sequences, FiniteSets

CONSTANTS Key,          \* the (chart, rule) pairs that can raise an alarm
          ClearAfter,   \* clear_after: quiet subgroups before an alarm clears
          MaxIndex      \* bound: the last subgroup of a behaviour

\* The constructor refuses a clear_after below 1.
ASSUME ClearAfterAssumption == ClearAfter \in Nat \ {0}
ASSUME MaxIndexAssumption   == MaxIndex \in Nat

VARIABLES alarms,       \* _alarms: every alarm ever raised, oldest first
          open,         \* _open: the position of the alarm each key has open
          index,        \* the index of the subgroup being processed
          reported,     \* the keys recorded for this subgroup so far
          fired         \* history: the subgroups on which each key fired

vars == <<alarms, open, index, reported, fired>>

Alarm == [key          : Key,
          first_index  : Nat,
          last_index   : Nat,
          occurrences  : Nat,
          active       : BOOLEAN,
          acknowledged : BOOLEAN]

TypeOK == /\ alarms \in Seq(Alarm)
          /\ open \in [Key -> Nat]
          /\ index \in Nat
          /\ reported \subseteq Key
          /\ fired \in [Key -> SUBSET Nat]

Init == /\ alarms = <<>>
        /\ open = [k \in Key |-> 0]
        /\ index = 0
        /\ reported = {}
        /\ fired = [k \in Key |-> {}]

-----------------------------------------------------------------------------
(* record *)

\* Mutant: the alarm is dated to the subgroup before.
NewAlarmOneEarly(k) == [key          |-> k,
                        first_index  |-> index - 1,
                        last_index   |-> index,
                        occurrences  |-> 1,
                        active       |-> TRUE,
                        acknowledged |-> FALSE]

NewAlarm(k) == [key          |-> k,
                first_index  |-> index,
                last_index   |-> index,
                occurrences  |-> 1,
                active       |-> TRUE,
                acknowledged |-> FALSE]

Refired(a) == [a EXCEPT !.last_index = index, !.occurrences = a.occurrences + 1]

\* No alarm of this key is open: raise one.
Raise(k) ==
    /\ open[k] = 0
    /\ alarms' = Append(alarms, NewAlarm(k))
    /\ open' = [open EXCEPT ![k] = Len(alarms) + 1]

\* Mutant: the standing alarm is replaced by a fresh one.
UpdateAfresh(k) ==
    /\ open[k] # 0
    /\ alarms' = [alarms EXCEPT ![open[k]] = NewAlarm(k)]
    /\ UNCHANGED open

\* Mutant: the count goes up and the index of the latest firing stays.
UpdateCountOnly(k) ==
    /\ open[k] # 0
    /\ alarms' = [alarms EXCEPT ![open[k]].occurrences = @ + 1]
    /\ UNCHANGED open

\* The alarm of this key stands: it fired once more.
Update(k) ==
    /\ open[k] # 0
    /\ alarms' = [alarms EXCEPT ![open[k]] = Refired(alarms[open[k]])]
    /\ UNCHANGED open

\* record, called for a violation of k on the subgroup being processed.
Record(k) ==
    /\ k \notin reported
    /\ Raise(k) \/ Update(k)
    /\ reported' = reported \cup {k}
    /\ fired' = [fired EXCEPT ![k] = @ \cup {index}]
    /\ UNCHANGED index

-----------------------------------------------------------------------------
(* expire *)

QuietFor(k) == index - alarms[open[k]].last_index

\* Mutant: an alarm needs one quiet subgroup more than it should.
ExpiringOneLate == {k \in Key : open[k] # 0 /\ QuietFor(k) > ClearAfter}

\* The open keys that the loop of expire does not skip.
Expiring == {k \in Key : open[k] # 0 /\ QuietFor(k) >= ClearAfter}

Cleared(S) == [i \in DOMAIN alarms |->
                 IF \E k \in S : open[k] = i
                 THEN [alarms[i] EXCEPT !.active = FALSE] ELSE alarms[i]]

\* expire(index), the last call the engine makes for a subgroup.
Expire ==
    /\ index < MaxIndex
    /\ alarms' = Cleared(Expiring)
    /\ open' = [k \in Key |-> IF k \in Expiring THEN 0 ELSE open[k]]
    /\ index' = index + 1
    /\ reported' = {}
    /\ UNCHANGED fired

-----------------------------------------------------------------------------
(* acknowledge_all and reset *)

AcknowledgeAll ==
    /\ alarms' = [i \in DOMAIN alarms |->
                    IF alarms[i].active
                    THEN [alarms[i] EXCEPT !.acknowledged = TRUE] ELSE alarms[i]]
    /\ UNCHANGED <<open, index, reported, fired>>

\* reset, between two subgroups; the firings it forgets are forgotten here too.
Reset ==
    /\ reported = {}
    /\ alarms' = <<>>
    /\ open' = [k \in Key |-> 0]
    /\ fired' = [k \in Key |-> {}]
    /\ UNCHANGED <<index, reported>>

Next == \/ \E k \in Key : Record(k)
        \/ Expire
        \/ AcknowledgeAll
        \/ Reset

Spec == Init /\ [][Next]_vars

-----------------------------------------------------------------------------
(* Properties *)

\* The dictionary and the list agree: the entry of a key is the position of
\* an active alarm of that key, and every active alarm is some key's entry.
\* Two active alarms for one key, or a cleared alarm that record would go on
\* updating, break it.
OpenIsActive ==
    /\ \A k \in Key : open[k] # 0 =>
         /\ open[k] \in DOMAIN alarms
         /\ alarms[open[k]].key = k
         /\ alarms[open[k]].active
    /\ \A i \in DOMAIN alarms : alarms[i].active => open[alarms[i].key] = i

\* An alarm stands exactly while its rule fires or has been quiet for no more
\* than ClearAfter subgroups: record and expire together, against the firings
\* themselves.
StandsWhileFiring ==
    \A k \in Key : open[k] # 0 <=> \E n \in fired[k] : index - n <= ClearAfter

Spans(a, n) == a.first_index <= n /\ n <= a.last_index

\* The log splits the firings of a key into runs: every firing lies in the
\* span of exactly one alarm of its key, and an alarm spans only firings that
\* happened, from its first to its latest.
FiringsInOneAlarm ==
    /\ \A k \in Key : \A n \in fired[k] :
         /\ \E i \in DOMAIN alarms : alarms[i].key = k /\ Spans(alarms[i], n)
         /\ \A i, j \in DOMAIN alarms :
              /\ alarms[i].key = k /\ Spans(alarms[i], n)
              /\ alarms[j].key = k /\ Spans(alarms[j], n)
              => i = j
    /\ \A i \in DOMAIN alarms :
         {alarms[i].first_index, alarms[i].last_index} \subseteq fired[alarms[i].key]

\* A rule that fires intermittently stays one alarm and does not flap (the
\* comment on DEFAULT_CLEAR_AFTER): two alarms of one key are more than
\* ClearAfter subgroups apart.
NoFlapping ==
    \A i, j \in DOMAIN alarms :
        i < j /\ alarms[i].key = alarms[j].key
        => alarms[j].first_index - alarms[i].last_index > ClearAfter

\* occurrences is "how many times the rule has fired while this alarm stood".
OccurrencesCount ==
    \A i \in DOMAIN alarms :
        alarms[i].occurrences =
            Cardinality({n \in fired[alarms[i].key] : Spans(alarms[i], n)})

\* A cleared alarm is history: nothing but reset changes it any more, and a
\* rule that fires again raises a new alarm that nobody has acknowledged.
HistoryIsFinal ==
    [][alarms' # <<>> =>
         /\ \A i \in DOMAIN alarms : ~ alarms[i].active => alarms'[i] = alarms[i]
         /\ \A i \in DOMAIN alarms' \ DOMAIN alarms : ~ alarms'[i].acknowledged]_vars

\* What an operator has acknowledged stays acknowledged, however often the
\* rule fires again and until long after the alarm has cleared.
AcknowledgedStays ==
    [][alarms' # <<>> =>
         \A i \in DOMAIN alarms :
            /\ alarms[i].acknowledged => alarms'[i].acknowledged
            /\ alarms[i].first_index = alarms'[i].first_index
            /\ alarms[i].last_index <= alarms'[i].last_index]_vars

-----------------------------------------------------------------------------
(* The abstract specification this log implements *)

OpenKeys == {k \in Key : open[k] # 0}
SeenKeys == {k \in OpenKeys : alarms[open[k]].acknowledged}
Since    == [k \in Key |-> IF open[k] = 0 THEN 0 ELSE alarms[open[k]].first_index]
Latest   == [k \in Key |-> IF open[k] = 0 THEN 0 ELSE alarms[open[k]].last_index]

Conditions == INSTANCE AlarmConditions WITH
    standing <- OpenKeys, seen <- SeenKeys, since <- Since, latest <- Latest,
    subgroup <- index

\* The log, with its list and its dictionary, does what AlarmConditions
\* promises of the conditions alone.
ImplementsConditions == Conditions!Spec
=============================================================================
