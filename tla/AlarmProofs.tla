---------------------------- MODULE AlarmProofs ----------------------------
(***************************************************************************)
(* Theorems about AlarmLog and about LiveAlarms, for every set of keys,    *)
(* every ClearAfter, every MaxIndex and any number of acknowledgements.    *)
(*                                                                         *)
(* For AlarmLog, the invariant that the runs check in parts is not         *)
(* inductive as it stands: IInv adds that firings lie in the past, that an *)
(* open alarm holds the latest firing of its key and that no firing of a   *)
(* key without an open alarm is recent.                                    *)
(*                                                                         *)
(* For LiveAlarms, what the two threads cannot break although the          *)
(* background thread writes the log without the lock.  The argument is     *)
(* about the copies.  Each thread writes back a copy of an alarm it read   *)
(* a moment before; CopiesFit says that the copy is of the position it     *)
(* goes to, and LockInv and ScreenInv why the last to publish is current.  *)
(* Until the first overlap the copies are exact (QuietInv), and the two    *)
(* threads implement AlarmLog, one step for each of its calls (WholeCalls).*)
(***************************************************************************)
EXTENDS LiveAlarms, FiniteSetTheorems, TLAPS

-----------------------------------------------------------------------------
(* AlarmLog: the invariant *)

\* Firings are of this subgroup or earlier; of this one only if reported.
FiringsInThePast ==
    \A k \in Key : \A n \in fired[k] : n <= index /\ (k \notin reported => n < index)

\* The open alarm of a key ends in the latest firing, a recent one, and is
\* the newest alarm of the key.
OpenIsLatest ==
    \A k \in Key : open[k] # 0 =>
        /\ \A n \in fired[k] : n <= alarms[open[k]].last_index
        /\ index - alarms[open[k]].last_index <= ClearAfter
        /\ \A i \in DOMAIN alarms : alarms[i].key = k => i <= open[k]

\* No recent firing without an open alarm.
SilentWhenClosed ==
    \A k \in Key : open[k] = 0 => \A n \in fired[k] : index - n > ClearAfter

\* An alarm runs from a firing of its key to a firing that is not earlier.
SpansFirings ==
    \A i \in DOMAIN alarms :
        /\ alarms[i].first_index <= alarms[i].last_index
        /\ alarms[i].first_index \in fired[alarms[i].key]
        /\ alarms[i].last_index \in fired[alarms[i].key]

\* Every firing lies in some alarm of its key.
FiringsCovered ==
    \A k \in Key : \A n \in fired[k] :
        \E i \in DOMAIN alarms : alarms[i].key = k /\ Spans(alarms[i], n)

IInv == /\ TypeOK
        /\ OpenIsActive
        /\ FiringsInThePast
        /\ OpenIsLatest
        /\ SilentWhenClosed
        /\ SpansFirings
        /\ FiringsCovered
        /\ NoFlapping

-----------------------------------------------------------------------------

\* Changing the alarms in place leaves a list of alarms of the same length:
\* what expire and acknowledge_all do to _alarms.
LEMMA PointwiseList ==
    ASSUME NEW s \in Seq(Alarm), NEW f \in [DOMAIN s -> Alarm]
    PROVE  f \in Seq(Alarm) /\ Len(f) = Len(s) /\ DOMAIN f = DOMAIN s
<1>1. DOMAIN s = 1 .. Len(s) /\ Len(s) \in Nat
  OBVIOUS
<1> QED BY <1>1

\* What record does to the list when it raises an alarm.
LEMMA RaiseList ==
    ASSUME TypeOK, NEW k \in Key, Raise(k)
    PROVE  /\ NewAlarm(k) \in Alarm
           /\ alarms' \in Seq(Alarm)
           /\ DOMAIN alarms = 1 .. Len(alarms) /\ Len(alarms) \in Nat
           /\ DOMAIN alarms' = 1 .. Len(alarms) + 1
           /\ \A i \in DOMAIN alarms : alarms'[i] = alarms[i]
           /\ alarms'[Len(alarms) + 1] = NewAlarm(k)
<1>1. NewAlarm(k) \in Alarm
  BY DEF TypeOK, NewAlarm, Alarm
<1> QED BY <1>1 DEF TypeOK, Raise

\* What record does to an alarm that stands.
LEMMA RefiredAlarm ==
    ASSUME index \in Nat, NEW a \in Alarm
    PROVE  /\ Refired(a) \in Alarm
           /\ Refired(a).key = a.key
           /\ Refired(a).first_index = a.first_index
           /\ Refired(a).last_index = index
           /\ Refired(a).occurrences = a.occurrences + 1
           /\ Refired(a).active = a.active
           /\ Refired(a).acknowledged = a.acknowledged
<1> DEFINE moved == [a EXCEPT !.last_index = index]
<1>1. /\ moved \in Alarm
      /\ moved.key = a.key /\ moved.first_index = a.first_index
      /\ moved.last_index = index /\ moved.occurrences = a.occurrences
      /\ moved.active = a.active /\ moved.acknowledged = a.acknowledged
  BY DEF Alarm
<1>2. Refired(a) = [moved EXCEPT !.occurrences = a.occurrences + 1]
  BY Zenon DEF Refired
<1> HIDE DEF moved
<1> QED BY <1>1, <1>2 DEF Alarm

\* What record does to the list when the alarm of the key stands.
LEMMA UpdateList ==
    ASSUME TypeOK, OpenIsActive, NEW k \in Key, Update(k)
    PROVE  /\ alarms' \in Seq(Alarm)
           /\ DOMAIN alarms' = DOMAIN alarms
           /\ open[k] \in DOMAIN alarms
           /\ \A i \in DOMAIN alarms : i # open[k] => alarms'[i] = alarms[i]
           /\ LET old == alarms[open[k]]
                  new == alarms'[open[k]]
              IN  /\ new.key = old.key /\ new.first_index = old.first_index
                  /\ new.last_index = index /\ new.occurrences = old.occurrences + 1
                  /\ new.active = old.active /\ new.acknowledged = old.acknowledged
<1>1. open[k] \in DOMAIN alarms
  BY DEF OpenIsActive, Update
<1>2. alarms[open[k]] \in Alarm
  BY <1>1 DEF TypeOK
<1> DEFINE new == Refired(alarms[open[k]])
<1>3. /\ new \in Alarm
      /\ new.key = alarms[open[k]].key
      /\ new.first_index = alarms[open[k]].first_index
      /\ new.last_index = index
      /\ new.occurrences = alarms[open[k]].occurrences + 1
      /\ new.active = alarms[open[k]].active
      /\ new.acknowledged = alarms[open[k]].acknowledged
  BY <1>2, RefiredAlarm DEF TypeOK
<1>4. alarms' = [alarms EXCEPT ![open[k]] = new]
  BY DEF Update
<1> HIDE DEF new
<1>5. alarms' \in [DOMAIN alarms -> Alarm]
  BY <1>1, <1>3, <1>4 DEF TypeOK
<1>6. alarms' \in Seq(Alarm) /\ DOMAIN alarms' = DOMAIN alarms
  BY <1>5, PointwiseList DEF TypeOK
<1>7. alarms'[open[k]] = new
  BY <1>1, <1>4
<1>8. \A i \in DOMAIN alarms : i # open[k] => alarms'[i] = alarms[i]
  BY <1>4
<1> QED BY <1>1, <1>3, <1>6, <1>7, <1>8

\* What expire does to the list.
LEMMA ExpireList ==
    ASSUME TypeOK, NEW S \in SUBSET Key, alarms' = Cleared(S)
    PROVE  /\ alarms' \in Seq(Alarm)
           /\ DOMAIN alarms' = DOMAIN alarms
           /\ \A i \in DOMAIN alarms :
                /\ alarms'[i].key = alarms[i].key
                /\ alarms'[i].first_index = alarms[i].first_index
                /\ alarms'[i].last_index = alarms[i].last_index
                /\ alarms'[i].occurrences = alarms[i].occurrences
                /\ alarms'[i].acknowledged = alarms[i].acknowledged
                /\ alarms'[i].active = (alarms[i].active /\ ~ \E k \in S : open[k] = i)
<1>1. \A i \in DOMAIN alarms : alarms[i] \in Alarm
  BY DEF TypeOK
<1>2. \A i \in DOMAIN alarms : [alarms[i] EXCEPT !.active = FALSE] \in Alarm
  BY <1>1 DEF Alarm
<1>3. alarms' \in [DOMAIN alarms -> Alarm]
  BY <1>1, <1>2 DEF Cleared
<1>4. alarms' \in Seq(Alarm) /\ DOMAIN alarms' = DOMAIN alarms
  BY <1>3, PointwiseList DEF TypeOK
<1>5. ASSUME NEW i \in DOMAIN alarms
      PROVE  /\ alarms'[i].key = alarms[i].key
             /\ alarms'[i].first_index = alarms[i].first_index
             /\ alarms'[i].last_index = alarms[i].last_index
             /\ alarms'[i].occurrences = alarms[i].occurrences
             /\ alarms'[i].acknowledged = alarms[i].acknowledged
             /\ alarms'[i].active = (alarms[i].active /\ ~ \E k \in S : open[k] = i)
  BY <1>1 DEF Cleared, Alarm
<1> QED BY <1>4, <1>5

\* What acknowledge_all does to the list.
LEMMA AcknowledgeList ==
    ASSUME TypeOK, AcknowledgeAll
    PROVE  /\ alarms' \in Seq(Alarm)
           /\ DOMAIN alarms' = DOMAIN alarms
           /\ \A i \in DOMAIN alarms :
                /\ alarms'[i].key = alarms[i].key
                /\ alarms'[i].first_index = alarms[i].first_index
                /\ alarms'[i].last_index = alarms[i].last_index
                /\ alarms'[i].occurrences = alarms[i].occurrences
                /\ alarms'[i].active = alarms[i].active
                /\ alarms'[i].acknowledged = (alarms[i].acknowledged \/ alarms[i].active)
<1>1. \A i \in DOMAIN alarms : alarms[i] \in Alarm
  BY DEF TypeOK
<1>2. \A i \in DOMAIN alarms : [alarms[i] EXCEPT !.acknowledged = TRUE] \in Alarm
  BY <1>1 DEF Alarm
<1>3. alarms' \in [DOMAIN alarms -> Alarm]
  BY <1>1, <1>2 DEF AcknowledgeAll
<1>4. alarms' \in Seq(Alarm) /\ DOMAIN alarms' = DOMAIN alarms
  BY <1>3, PointwiseList DEF TypeOK
<1>5. ASSUME NEW i \in DOMAIN alarms
      PROVE  /\ alarms'[i].key = alarms[i].key
             /\ alarms'[i].first_index = alarms[i].first_index
             /\ alarms'[i].last_index = alarms[i].last_index
             /\ alarms'[i].occurrences = alarms[i].occurrences
             /\ alarms'[i].active = alarms[i].active
             /\ alarms'[i].acknowledged = (alarms[i].acknowledged \/ alarms[i].active)
  BY <1>1 DEF AcknowledgeAll, Alarm
<1> QED BY <1>4, <1>5
-----------------------------------------------------------------------------

LEMMA InitIInv == Init => IInv
BY DEF Init, IInv, TypeOK, OpenIsActive, FiringsInThePast, OpenIsLatest,
       SilentWhenClosed, SpansFirings, FiringsCovered, NoFlapping

\* A violation that raises an alarm.
LEMMA RaiseIInv ==
    ASSUME IInv, NEW k \in Key, Record(k), Raise(k)
    PROVE  IInv'
<1> DEFINE L == Len(alarms)
<1>0. TypeOK /\ OpenIsActive /\ FiringsInThePast /\ OpenIsLatest /\ SilentWhenClosed
      /\ SpansFirings /\ FiringsCovered /\ NoFlapping
  BY DEF IInv
<1>1. /\ alarms' \in Seq(Alarm)
      /\ DOMAIN alarms = 1 .. L /\ L \in Nat
      /\ DOMAIN alarms' = 1 .. L + 1
      /\ \A i \in 1 .. L : alarms'[i] = alarms[i]
      /\ alarms'[L + 1] = NewAlarm(k)
  BY <1>0, RaiseList
<1>2. /\ NewAlarm(k).key = k /\ NewAlarm(k).first_index = index
      /\ NewAlarm(k).last_index = index /\ NewAlarm(k).active
  BY DEF NewAlarm
<1>3. /\ open[k] = 0 /\ open' = [open EXCEPT ![k] = L + 1]
      /\ index' = index /\ reported' = reported \cup {k} /\ k \notin reported
      /\ fired' = [fired EXCEPT ![k] = @ \cup {index}]
  BY DEF Record, Raise
<1>4. /\ open \in [Key -> Nat] /\ index \in Nat /\ reported \subseteq Key
      /\ fired \in [Key -> SUBSET Nat]
      /\ \A i \in 1 .. L : alarms[i] \in Alarm
  BY <1>0, <1>1 DEF TypeOK
<1>5. \A i \in 1 .. L : alarms[i].key \in Key /\ alarms[i].first_index \in Nat
                        /\ alarms[i].last_index \in Nat /\ alarms[i].active \in BOOLEAN
  BY <1>4 DEF Alarm
<1> HIDE DEF L
<1>6. TypeOK'
  BY <1>1, <1>3, <1>4 DEF TypeOK
<1>7. OpenIsActive'
  <2>1. ASSUME NEW j \in Key, open'[j] # 0
        PROVE  open'[j] \in DOMAIN alarms' /\ alarms'[open'[j]].key = j
               /\ alarms'[open'[j]].active
    <3>1. CASE j = k
      BY <3>1, <1>1, <1>2, <1>3, <1>4
    <3>2. CASE j # k
      BY <3>2, <2>1, <1>0, <1>1, <1>3, <1>4 DEF OpenIsActive
    <3> QED BY <3>1, <3>2
  <2>2. ASSUME NEW i \in DOMAIN alarms', alarms'[i].active
        PROVE  open'[alarms'[i].key] = i
    <3>1. CASE i = L + 1
      BY <3>1, <1>1, <1>2, <1>3, <1>4
    <3>2. CASE i # L + 1
      BY <3>2, <2>2, <1>0, <1>1, <1>3, <1>4, <1>5 DEF OpenIsActive
    <3> QED BY <3>1, <3>2
  <2> QED BY <2>1, <2>2 DEF OpenIsActive
<1>8. FiringsInThePast'
  BY <1>0, <1>3, <1>4 DEF FiringsInThePast
<1>9. OpenIsLatest'
  <2> SUFFICES ASSUME NEW j \in Key, open'[j] # 0
               PROVE  /\ \A n \in fired'[j] : n <= alarms'[open'[j]].last_index
                      /\ index' - alarms'[open'[j]].last_index <= ClearAfter
                      /\ \A i \in DOMAIN alarms' : alarms'[i].key = j => i <= open'[j]
    BY DEF OpenIsLatest
  <2>1. CASE j = k
    BY <2>1, <1>0, <1>1, <1>2, <1>3, <1>4, ClearAfterAssumption DEF FiringsInThePast
  <2>2. CASE j # k
    <3>1. open'[j] = open[j] /\ open[j] \in 1 .. L /\ fired'[j] = fired[j]
      BY <2>2, <1>0, <1>1, <1>3, <1>4 DEF OpenIsActive
    <3> QED BY <2>2, <3>1, <1>0, <1>1, <1>2, <1>3 DEF OpenIsLatest
  <2> QED BY <2>1, <2>2
<1>10. SilentWhenClosed'
  BY <1>0, <1>1, <1>3, <1>4 DEF SilentWhenClosed
<1>11. SpansFirings'
  <2> SUFFICES ASSUME NEW i \in DOMAIN alarms'
               PROVE  /\ alarms'[i].first_index <= alarms'[i].last_index
                      /\ alarms'[i].first_index \in fired'[alarms'[i].key]
                      /\ alarms'[i].last_index \in fired'[alarms'[i].key]
    BY DEF SpansFirings
  <2>1. CASE i = L + 1
    BY <2>1, <1>1, <1>2, <1>3, <1>4
  <2>2. CASE i # L + 1
    BY <2>2, <1>0, <1>1, <1>3, <1>4, <1>5 DEF SpansFirings
  <2> QED BY <2>1, <2>2
<1>12. FiringsCovered'
  <2> SUFFICES ASSUME NEW j \in Key, NEW n \in fired'[j]
               PROVE  \E i \in DOMAIN alarms' : alarms'[i].key = j /\ Spans(alarms'[i], n)
    BY DEF FiringsCovered
  <2>1. CASE n \in fired[j]
    <3>1. PICK i \in 1 .. L : alarms[i].key = j /\ Spans(alarms[i], n)
      BY <2>1, <1>0, <1>1 DEF FiringsCovered
    <3> QED BY <3>1, <1>1
  <2>2. CASE n \notin fired[j]
    <3>1. j = k /\ n = index
      BY <2>2, <1>3, <1>4
    <3> QED BY <3>1, <1>1, <1>2, <1>4 DEF Spans
  <2> QED BY <2>1, <2>2
<1>13. NoFlapping'
  <2> SUFFICES ASSUME NEW i \in DOMAIN alarms', NEW j \in DOMAIN alarms',
                      i < j, alarms'[i].key = alarms'[j].key
               PROVE  alarms'[j].first_index - alarms'[i].last_index > ClearAfter
    BY DEF NoFlapping
  <2>1. CASE j = L + 1
    BY <2>1, <1>0, <1>1, <1>2, <1>3, <1>5 DEF SpansFirings, SilentWhenClosed
  <2>2. CASE j # L + 1
    BY <2>2, <1>0, <1>1 DEF NoFlapping
  <2> QED BY <2>1, <2>2
<1> QED BY <1>6, <1>7, <1>8, <1>9, <1>10, <1>11, <1>12, <1>13 DEF IInv

\* A violation that updates the alarm that stands.
LEMMA UpdateIInv ==
    ASSUME IInv, NEW k \in Key, Record(k), Update(k)
    PROVE  IInv'
<1> DEFINE p == open[k]
<1>0. TypeOK /\ OpenIsActive /\ FiringsInThePast /\ OpenIsLatest /\ SilentWhenClosed
      /\ SpansFirings /\ FiringsCovered /\ NoFlapping
  BY DEF IInv
<1>1. /\ alarms' \in Seq(Alarm)
      /\ DOMAIN alarms' = DOMAIN alarms
      /\ p \in DOMAIN alarms
      /\ \A i \in DOMAIN alarms : i # p => alarms'[i] = alarms[i]
      /\ alarms'[p].key = alarms[p].key
      /\ alarms'[p].first_index = alarms[p].first_index
      /\ alarms'[p].last_index = index
      /\ alarms'[p].active = alarms[p].active
  BY <1>0, UpdateList
<1>2. /\ open[k] # 0 /\ open' = open
      /\ index' = index /\ reported' = reported \cup {k} /\ k \notin reported
      /\ fired' = [fired EXCEPT ![k] = @ \cup {index}]
  BY DEF Record, Update
<1>3. /\ open \in [Key -> Nat] /\ index \in Nat /\ reported \subseteq Key
      /\ fired \in [Key -> SUBSET Nat]
      /\ \A i \in DOMAIN alarms : alarms[i] \in Alarm
  BY <1>0 DEF TypeOK
<1>4. \A i \in DOMAIN alarms : i \in Nat
        /\ alarms[i].key \in Key /\ alarms[i].first_index \in Nat
        /\ alarms[i].last_index \in Nat /\ alarms[i].active \in BOOLEAN
  BY <1>0, <1>3 DEF Alarm, TypeOK
<1>5. alarms[p].key = k /\ alarms[p].active
  BY <1>0, <1>2 DEF OpenIsActive
<1> HIDE DEF p
<1>20. \A i \in DOMAIN alarms : alarms'[i].key = alarms[i].key
           /\ alarms'[i].first_index = alarms[i].first_index
           /\ alarms'[i].active = alarms[i].active
  BY <1>1
<1>21. \A i \in DOMAIN alarms : alarms'[i].last_index = IF i = p THEN index ELSE alarms[i].last_index
  BY <1>1
<1>6. TypeOK'
  BY <1>1, <1>2, <1>3 DEF TypeOK
<1>7. OpenIsActive'
  BY <1>0, <1>1, <1>2, <1>20 DEF OpenIsActive
<1>8. FiringsInThePast'
  BY <1>0, <1>2, <1>3 DEF FiringsInThePast
<1>9. OpenIsLatest'
  <2> SUFFICES ASSUME NEW j \in Key, open[j] # 0
               PROVE  /\ \A n \in fired'[j] : n <= alarms'[open[j]].last_index
                      /\ index - alarms'[open[j]].last_index <= ClearAfter
                      /\ \A i \in DOMAIN alarms : alarms'[i].key = j => i <= open[j]
    BY <1>1, <1>2 DEF OpenIsLatest
  <2>0. open[j] \in DOMAIN alarms /\ alarms[open[j]].key = j
    BY <1>0 DEF OpenIsActive
  <2>1. CASE j = k
    <3>1. alarms'[open[j]].last_index = index
      BY <2>1, <1>1 DEF p
    <3>2. \A n \in fired'[j] : n <= index
      BY <2>1, <1>0, <1>2, <1>3 DEF FiringsInThePast
    <3> QED BY <2>0, <3>1, <3>2, <1>0, <1>3, <1>20, ClearAfterAssumption DEF OpenIsLatest
  <2>2. CASE j # k
    BY <2>0, <2>2, <1>0, <1>2, <1>3, <1>5, <1>20, <1>21 DEF OpenIsLatest
  <2> QED BY <2>1, <2>2
<1>10. SilentWhenClosed'
  BY <1>0, <1>2, <1>3 DEF SilentWhenClosed
<1>11. SpansFirings'
  <2> SUFFICES ASSUME NEW i \in DOMAIN alarms
               PROVE  /\ alarms'[i].first_index <= alarms'[i].last_index
                      /\ alarms'[i].first_index \in fired'[alarms'[i].key]
                      /\ alarms'[i].last_index \in fired'[alarms'[i].key]
    BY <1>1 DEF SpansFirings
  <2>1. alarms[i].first_index <= index
    BY <1>0, <1>3, <1>4 DEF SpansFirings, FiringsInThePast
  <2>2. \A j \in Key : fired[j] \subseteq fired'[j]
    BY <1>2, <1>3
  <2>3. CASE i = p
    BY <2>1, <2>2, <2>3, <1>0, <1>2, <1>3, <1>4, <1>5, <1>20, <1>21 DEF SpansFirings
  <2>4. CASE i # p
    BY <2>2, <2>4, <1>0, <1>4, <1>20, <1>21 DEF SpansFirings
  <2> QED BY <2>3, <2>4
<1>12. FiringsCovered'
  <2> SUFFICES ASSUME NEW j \in Key, NEW n \in fired'[j]
               PROVE  \E i \in DOMAIN alarms : alarms'[i].key = j /\ Spans(alarms'[i], n)
    BY <1>1 DEF FiringsCovered
  <2>1. CASE n \in fired[j]
    <3>1. PICK i \in DOMAIN alarms : alarms[i].key = j /\ Spans(alarms[i], n)
      BY <2>1, <1>0 DEF FiringsCovered
    <3>2. n <= index
      BY <2>1, <1>0 DEF FiringsInThePast
    <3>3. Spans(alarms'[i], n)
      BY <3>1, <3>2, <1>20, <1>21 DEF Spans
    <3> QED BY <3>1, <3>3, <1>20
  <2>2. CASE n \notin fired[j]
    <3>1. j = k /\ n = index
      BY <2>2, <1>2, <1>3
    <3>2. alarms[p].first_index <= index
      BY <1>0, <1>1, <1>3, <1>4, <1>5 DEF SpansFirings, FiringsInThePast
    <3> QED BY <3>1, <3>2, <1>1, <1>3, <1>5, <1>20, <1>21 DEF Spans
  <2> QED BY <2>1, <2>2
<1>13. NoFlapping'
  <2> SUFFICES ASSUME NEW i \in DOMAIN alarms, NEW j \in DOMAIN alarms,
                      i < j, alarms[i].key = alarms[j].key
               PROVE  alarms'[j].first_index - alarms'[i].last_index > ClearAfter
    BY <1>1, <1>20 DEF NoFlapping
  <2>1. i # p
    BY <1>0, <1>1, <1>2, <1>4, <1>5 DEF OpenIsLatest, p
  <2> QED BY <2>1, <1>0, <1>20, <1>21 DEF NoFlapping
<1> QED BY <1>6, <1>7, <1>8, <1>9, <1>10, <1>11, <1>12, <1>13 DEF IInv
\* The end of a subgroup.
LEMMA ExpireIInv ==
    ASSUME IInv, Expire
    PROVE  IInv'
<1>0. TypeOK /\ OpenIsActive /\ FiringsInThePast /\ OpenIsLatest /\ SilentWhenClosed
      /\ SpansFirings /\ FiringsCovered /\ NoFlapping
  BY DEF IInv
<1>1. /\ alarms' \in Seq(Alarm)
      /\ DOMAIN alarms' = DOMAIN alarms
      /\ \A i \in DOMAIN alarms :
           /\ alarms'[i].key = alarms[i].key
           /\ alarms'[i].first_index = alarms[i].first_index
           /\ alarms'[i].last_index = alarms[i].last_index
           /\ alarms'[i].active = (alarms[i].active /\ ~ \E k \in Expiring : open[k] = i)
  BY <1>0, ExpireList DEF Expire, Expiring
<1>2. /\ open' = [k \in Key |-> IF k \in Expiring THEN 0 ELSE open[k]]
      /\ index' = index + 1 /\ reported' = {} /\ fired' = fired
  BY DEF Expire
<1>20. index' = index + 1 /\ fired' = fired
  BY <1>2
<1>3. /\ open \in [Key -> Nat] /\ index \in Nat /\ fired \in [Key -> SUBSET Nat]
      /\ \A i \in DOMAIN alarms : alarms[i] \in Alarm
  BY <1>0 DEF TypeOK
<1>4. \A i \in DOMAIN alarms : /\ alarms[i].key \in Key /\ alarms[i].first_index \in Nat
                               /\ alarms[i].last_index \in Nat
  BY <1>3 DEF Alarm
<1>5. /\ \A k \in Expiring : k \in Key /\ open[k] # 0
                             /\ index - alarms[open[k]].last_index >= ClearAfter
      /\ \A k \in Key \ Expiring : open[k] # 0
            => ~ (index - alarms[open[k]].last_index >= ClearAfter)
  BY DEF Expiring, QuietFor
<1>6. TypeOK'
  BY <1>1, <1>2, <1>3 DEF TypeOK
<1>7. OpenIsActive'
  <2>1. ASSUME NEW k \in Key, open'[k] # 0
        PROVE  /\ open'[k] \in DOMAIN alarms'
               /\ alarms'[open'[k]].key = k
               /\ alarms'[open'[k]].active
    <3>1. open'[k] = open[k] /\ k \notin Expiring /\ open[k] # 0
      BY <2>1, <1>2
    <3>2. open[k] \in DOMAIN alarms /\ alarms[open[k]].key = k /\ alarms[open[k]].active
      BY <3>1, <1>0 DEF OpenIsActive
    <3>3. ~ \E j \in Expiring : open[j] = open[k]
      BY <3>1, <3>2, <1>0, <1>5 DEF OpenIsActive
    <3> QED BY <3>1, <3>2, <3>3, <1>1, ZenonT(40)
  <2>2. ASSUME NEW i \in DOMAIN alarms', alarms'[i].active
        PROVE  open'[alarms'[i].key] = i
    BY <2>2, <1>0, <1>1, <1>2, <1>4, ZenonT(40) DEF OpenIsActive
  <2> QED BY <2>1, <2>2 DEF OpenIsActive
<1>8. FiringsInThePast'
  BY <1>0, <1>2, <1>3 DEF FiringsInThePast
<1>9. OpenIsLatest'
  <2> SUFFICES ASSUME NEW k \in Key, open'[k] # 0
               PROVE  /\ \A n \in fired[k] : n <= alarms'[open'[k]].last_index
                      /\ index' - alarms'[open'[k]].last_index <= ClearAfter
                      /\ \A i \in DOMAIN alarms : alarms'[i].key = k => i <= open'[k]
    BY <1>1, <1>20 DEF OpenIsLatest
  <2>1. open'[k] = open[k] /\ k \notin Expiring /\ open[k] # 0
    BY <1>2
  <2>2. open[k] \in DOMAIN alarms
    BY <2>1, <1>0 DEF OpenIsActive
  <2>3. index' - alarms[open[k]].last_index <= ClearAfter
    BY <2>1, <2>2, <1>3, <1>4, <1>5, <1>20, ClearAfterAssumption
  <2> QED BY <2>1, <2>2, <2>3, <1>0, <1>1, <1>20 DEF OpenIsLatest
<1>10. SilentWhenClosed'
  <2> SUFFICES ASSUME NEW k \in Key, open'[k] = 0, NEW n \in fired[k]
               PROVE  index' - n > ClearAfter
    BY <1>20 DEF SilentWhenClosed
  <2>1. n \in Nat
    BY <1>3
  <2>2. CASE open[k] = 0
    BY <2>1, <2>2, <1>0, <1>3, <1>20, ClearAfterAssumption DEF SilentWhenClosed
  <2>3. CASE open[k] # 0
    <3>1. k \in Expiring /\ open[k] \in DOMAIN alarms
      BY <2>3, <1>0, <1>2 DEF OpenIsActive
    <3>2. n <= alarms[open[k]].last_index
      BY <2>3, <1>0 DEF OpenIsLatest
    <3> QED BY <3>1, <3>2, <2>1, <1>3, <1>4, <1>5, <1>20, ClearAfterAssumption
  <2> QED BY <2>2, <2>3
<1>11. SpansFirings'
  BY <1>0, <1>1, <1>2 DEF SpansFirings
<1>12. FiringsCovered'
  BY <1>0, <1>1, <1>2 DEF FiringsCovered, Spans
<1>13. NoFlapping'
  BY <1>0, <1>1 DEF NoFlapping
<1> QED BY <1>6, <1>7, <1>8, <1>9, <1>10, <1>11, <1>12, <1>13 DEF IInv

\* Changing nothing of the alarms but their acknowledgements.
LEMMA SameSpans ==
    ASSUME IInv, UNCHANGED <<open, index, reported, fired>>,
           alarms' \in Seq(Alarm), DOMAIN alarms' = DOMAIN alarms,
           \A i \in DOMAIN alarms :
              /\ alarms'[i].key = alarms[i].key
              /\ alarms'[i].first_index = alarms[i].first_index
              /\ alarms'[i].last_index = alarms[i].last_index
              /\ alarms'[i].active = alarms[i].active
    PROVE  IInv'
<1>0. TypeOK /\ OpenIsActive /\ FiringsInThePast /\ OpenIsLatest /\ SilentWhenClosed
      /\ SpansFirings /\ FiringsCovered /\ NoFlapping
  BY DEF IInv
<1>1. TypeOK'
  BY <1>0 DEF TypeOK
<1>2. OpenIsActive' /\ FiringsInThePast' /\ SilentWhenClosed'
  BY <1>0 DEF OpenIsActive, FiringsInThePast, SilentWhenClosed
<1>3. OpenIsLatest'
  BY <1>0 DEF OpenIsLatest, OpenIsActive
<1>4. SpansFirings' /\ NoFlapping'
  BY <1>0 DEF SpansFirings, NoFlapping
<1>5. FiringsCovered'
  BY <1>0 DEF FiringsCovered, Spans
<1> QED BY <1>1, <1>2, <1>3, <1>4, <1>5 DEF IInv

\* The operator acknowledges.
LEMMA AcknowledgeIInv ==
    ASSUME IInv, AcknowledgeAll
    PROVE  IInv'
<1>1. TypeOK
  BY DEF IInv
<1>2. UNCHANGED <<open, index, reported, fired>>
  BY DEF AcknowledgeAll
<1> QED BY <1>1, <1>2, AcknowledgeList, SameSpans

\* The log is emptied.
LEMMA ResetIInv ==
    ASSUME IInv, Reset
    PROVE  IInv'
BY DEF Reset, IInv, TypeOK, OpenIsActive, FiringsInThePast, OpenIsLatest,
       SilentWhenClosed, SpansFirings, FiringsCovered, NoFlapping

\* Nothing changes.
LEMMA StutterIInv ==
    ASSUME IInv, UNCHANGED vars
    PROVE  IInv'
BY DEF vars, IInv, TypeOK, OpenIsActive, FiringsInThePast, OpenIsLatest,
       SilentWhenClosed, SpansFirings, FiringsCovered, NoFlapping, Spans

\* Every step of the log preserves the invariant.
LEMMA NextIInv == IInv /\ [Next]_vars => IInv'
<1> SUFFICES ASSUME IInv, [Next]_vars
             PROVE  IInv'
  OBVIOUS
<1>1. ASSUME NEW k \in Key, Record(k)
      PROVE  IInv'
  BY <1>1, RaiseIInv, UpdateIInv DEF Record
<1>2. CASE Expire
  BY <1>2, ExpireIInv
<1>3. CASE AcknowledgeAll
  BY <1>3, AcknowledgeIInv
<1>4. CASE Reset
  BY <1>4, ResetIInv
<1>5. CASE UNCHANGED vars
  BY <1>5, StutterIInv
<1> QED BY <1>1, <1>2, <1>3, <1>4, <1>5 DEF Next

\* The inductive invariant holds of the log, whatever is recorded, expired,
\* acknowledged and reset.
THEOREM Invariance == Spec => []IInv
<1>1. Init => IInv
  BY InitIInv
<1>2. IInv /\ [Next]_vars => IInv'
  BY NextIInv
<1> QED BY <1>1, <1>2, PTL DEF Spec

\* _alarms, _open and the rest keep their types.
THEOREM TypeCorrect == Spec => []TypeOK
BY Invariance, PTL DEF IInv

\* The list and the dictionary of the log agree.
THEOREM OpenCorrect == Spec => []OpenIsActive
BY Invariance, PTL DEF IInv

LEMMA StandsByIInv == IInv => StandsWhileFiring
<1> SUFFICES ASSUME IInv, NEW k \in Key
             PROVE  open[k] # 0 <=> \E n \in fired[k] : index - n <= ClearAfter
  BY DEF StandsWhileFiring
<1>0. index \in Nat /\ fired[k] \in SUBSET Nat
  BY DEF IInv, TypeOK
<1>1. CASE open[k] # 0
  <2>1. open[k] \in DOMAIN alarms /\ alarms[open[k]].key = k
    BY <1>1 DEF IInv, OpenIsActive
  <2>2. alarms[open[k]].last_index \in fired[k]
    BY <2>1 DEF IInv, SpansFirings
  <2> QED BY <1>1, <2>2 DEF IInv, OpenIsLatest
<1>2. CASE open[k] = 0
  BY <1>0, <1>2, ClearAfterAssumption DEF IInv, SilentWhenClosed
<1> QED BY <1>1, <1>2

\* An alarm stands exactly while its rule fires or was recently quiet.
THEOREM StandingCorrect == Spec => []StandsWhileFiring
BY StandsByIInv, Invariance, PTL

\* Two alarms of one key are more than ClearAfter subgroups apart.
THEOREM NoFlappingCorrect == Spec => []NoFlapping
BY Invariance, PTL DEF IInv

\* Every firing belongs to exactly one alarm of its key.
THEOREM FiringsCorrect == Spec => []FiringsInOneAlarm
<1>1. IInv => FiringsInOneAlarm
  <2> SUFFICES ASSUME IInv
               PROVE  FiringsInOneAlarm
    OBVIOUS
  <2>0. \A i \in DOMAIN alarms : i \in Nat /\ alarms[i] \in Alarm
    BY DEF IInv, TypeOK
  <2>1. ASSUME NEW k \in Key, NEW n \in fired[k], NEW i \in DOMAIN alarms,
               NEW j \in DOMAIN alarms, alarms[i].key = k, Spans(alarms[i], n),
               alarms[j].key = k, Spans(alarms[j], n)
        PROVE  i = j
    <3>1. n \in Nat
      BY DEF IInv, TypeOK
    <3>2. ~ i < j /\ ~ j < i
      BY <2>0, <2>1, <3>1, ClearAfterAssumption DEF IInv, NoFlapping, Spans, Alarm
    <3> QED BY <2>0, <3>2
  <2>2. \A k \in Key : \A n \in fired[k] :
          \E i \in DOMAIN alarms : alarms[i].key = k /\ Spans(alarms[i], n)
    BY DEF IInv, FiringsCovered
  <2>3. \A i \in DOMAIN alarms :
          {alarms[i].first_index, alarms[i].last_index} \subseteq fired[alarms[i].key]
    BY DEF IInv, SpansFirings
  <2> QED BY <2>1, <2>2, <2>3 DEF FiringsInOneAlarm
<1> QED BY <1>1, Invariance, PTL
-----------------------------------------------------------------------------
(* The count of an alarm *)

\* The firings that alarm a spans when f is the history of firings.
FiringsOf(f, a) == {n \in f[a.key] : Spans(a, n)}

\* An alarm spans finitely many firings.
LEMMA FiringsFinite ==
    ASSUME NEW f \in [Key -> SUBSET Nat], NEW a \in Alarm
    PROVE  IsFiniteSet(FiringsOf(f, a))
<1>1. a.first_index \in Nat /\ a.last_index \in Nat /\ a.key \in Key
  BY DEF Alarm
<1>2. FiringsOf(f, a) \in SUBSET (a.first_index .. a.last_index)
  BY <1>1 DEF FiringsOf, Spans
<1>3. IsFiniteSet(a.first_index .. a.last_index)
  BY <1>1, FS_Interval, SMTT(30)
<1> QED BY <1>2, <1>3, FS_Subset

\* One more firing of a key, outside the span of an alarm, changes nothing.
LEMMA FiringsOutside ==
    ASSUME NEW f \in [Key -> SUBSET Nat], NEW a \in Alarm, NEW k \in Key, NEW n \in Nat,
           a.key = k => a.last_index < n
    PROVE  FiringsOf([f EXCEPT ![k] = @ \cup {n}], a) = FiringsOf(f, a)
<1>1. a.first_index \in Nat /\ a.last_index \in Nat /\ a.key \in Key
  BY DEF Alarm
<1>2. CASE a.key # k
  BY <1>1, <1>2 DEF FiringsOf
<1>3. CASE a.key = k
  <2>1. ~ Spans(a, n)
    BY <1>1, <1>3 DEF Spans
  <2>2. [f EXCEPT ![k] = @ \cup {n}][a.key] = f[a.key] \cup {n}
    BY <1>3
  <2> QED BY <2>1, <2>2 DEF FiringsOf
<1> QED BY <1>2, <1>3

LEMMA RaiseCounts ==
    ASSUME IInv, OccurrencesCount, NEW k \in Key, Record(k), Raise(k)
    PROVE  OccurrencesCount'
<1> DEFINE L == Len(alarms)
           f == [fired EXCEPT ![k] = @ \cup {index}]
<1>0. TypeOK /\ SilentWhenClosed /\ SpansFirings
  BY DEF IInv
<1>1. /\ DOMAIN alarms = 1 .. L /\ L \in Nat /\ DOMAIN alarms' = 1 .. L + 1
      /\ \A i \in 1 .. L : alarms'[i] = alarms[i]
      /\ alarms'[L + 1] = NewAlarm(k)
      /\ \A i \in 1 .. L : alarms[i] \in Alarm
  BY <1>0, RaiseList DEF TypeOK
<1> HIDE DEF L
<1>2. open[k] = 0 /\ fired' = f /\ fired \in [Key -> SUBSET Nat] /\ index \in Nat
  BY <1>0 DEF Record, Raise, TypeOK
<1>3. f[k] = fired[k] \cup {index}
  BY <1>2
<1> HIDE DEF f
<1>4. ASSUME NEW i \in 1 .. L
      PROVE  FiringsOf(f, alarms[i]) = FiringsOf(fired, alarms[i])
  <2>1. alarms[i].key = k => index - alarms[i].last_index > ClearAfter
    BY <1>0, <1>1, <1>2 DEF SilentWhenClosed, SpansFirings
  <2>2. alarms[i].last_index \in Nat
    BY <1>1 DEF Alarm
  <2>3. alarms[i].key = k => alarms[i].last_index < index
    BY <2>1, <2>2, <1>2, ClearAfterAssumption
  <2> QED BY <2>3, <1>1, <1>2, FiringsOutside, ZenonT(40) DEF f
<1>5. FiringsOf(f, NewAlarm(k)) = {index}
  BY <1>2, <1>3 DEF FiringsOf, Spans, NewAlarm
<1>6. NewAlarm(k).occurrences = Cardinality(FiringsOf(f, NewAlarm(k)))
  BY <1>5, FS_Singleton DEF NewAlarm
<1>7. \A i \in 1 .. L : alarms[i].occurrences = Cardinality(FiringsOf(fired, alarms[i]))
  BY <1>1 DEF OccurrencesCount, FiringsOf
<1>8. \A i \in 1 .. L + 1 : alarms'[i].occurrences = Cardinality(FiringsOf(fired', alarms'[i]))
  <2> SUFFICES ASSUME NEW i \in 1 .. L + 1
               PROVE  alarms'[i].occurrences = Cardinality(FiringsOf(fired', alarms'[i]))
    OBVIOUS
  <2>1. CASE i = L + 1
    BY <2>1, <1>1, <1>2, <1>6
  <2>2. CASE i # L + 1
    <3>1. i \in 1 .. L
      BY <2>2, <1>1
    <3> QED BY <3>1, <1>1, <1>2, <1>4, <1>7
  <2> QED BY <2>1, <2>2
<1> QED BY <1>1, <1>8 DEF OccurrencesCount, FiringsOf

LEMMA UpdateCounts ==
    ASSUME IInv, OccurrencesCount, NEW k \in Key, Record(k), Update(k)
    PROVE  OccurrencesCount'
<1> DEFINE p == open[k]
           f == [fired EXCEPT ![k] = @ \cup {index}]
<1>0. TypeOK /\ OpenIsActive /\ FiringsInThePast /\ OpenIsLatest /\ SpansFirings /\ NoFlapping
  BY DEF IInv
<1>1. /\ DOMAIN alarms' = DOMAIN alarms
      /\ p \in DOMAIN alarms
      /\ \A i \in DOMAIN alarms : i # p => alarms'[i] = alarms[i]
      /\ alarms'[p].key = alarms[p].key
      /\ alarms'[p].first_index = alarms[p].first_index
      /\ alarms'[p].last_index = index
      /\ alarms'[p].occurrences = alarms[p].occurrences + 1
  BY <1>0, UpdateList
<1>2. /\ open[k] # 0 /\ k \notin reported /\ fired' = f
      /\ fired \in [Key -> SUBSET Nat] /\ index \in Nat
      /\ \A i \in DOMAIN alarms : i \in Nat /\ alarms[i] \in Alarm
  BY <1>0 DEF Record, Update, TypeOK
<1>3. alarms[p].key = k
  BY <1>0, <1>2 DEF OpenIsActive
<1>4. f[k] = fired[k] \cup {index}
  BY <1>2
<1>5. \A n \in fired[k] : n < index /\ n <= alarms[p].last_index
  BY <1>0, <1>2 DEF FiringsInThePast, OpenIsLatest
<1> HIDE DEF p, f
<1>6. \A i \in DOMAIN alarms : /\ alarms[i].first_index \in Nat /\ alarms[i].last_index \in Nat
                               /\ alarms[i].key \in Key
  BY <1>2 DEF Alarm
<1>7. alarms[p].first_index < index
  BY <1>0, <1>1, <1>3, <1>5 DEF SpansFirings
<1>8. FiringsOf(f, alarms'[p]) = FiringsOf(fired, alarms[p]) \cup {index}
  <2>1. \A n \in fired[k] : Spans(alarms'[p], n) <=> Spans(alarms[p], n)
    BY <1>1, <1>2, <1>5, <1>6 DEF Spans
  <2>2. Spans(alarms'[p], index)
    BY <1>1, <1>2, <1>6, <1>7 DEF Spans
  <2> QED BY <2>1, <2>2, <1>1, <1>3, <1>4 DEF FiringsOf
<1>9. index \notin FiringsOf(fired, alarms[p])
  BY <1>2, <1>3, <1>5 DEF FiringsOf
<1>10. IsFiniteSet(FiringsOf(fired, alarms[p]))
  BY <1>1, <1>2, FiringsFinite
<1>11. Cardinality(FiringsOf(f, alarms'[p])) = Cardinality(FiringsOf(fired, alarms[p])) + 1
  BY <1>8, <1>9, <1>10, FS_AddElement
<1>12. ASSUME NEW i \in DOMAIN alarms, i # p
       PROVE  FiringsOf(f, alarms[i]) = FiringsOf(fired, alarms[i])
  <2>1. alarms[i].key = k => i < p
    BY <1>0, <1>1, <1>2, <1>12 DEF OpenIsLatest, p
  <2>2. alarms[i].key = k => alarms[p].first_index - alarms[i].last_index > ClearAfter
    BY <2>1, <1>0, <1>1, <1>3 DEF NoFlapping
  <2>3. alarms[i].key = k => alarms[i].last_index < index
    BY <2>2, <1>1, <1>2, <1>6, <1>7, ClearAfterAssumption
  <2> QED BY <2>3, <1>2, FiringsOutside, ZenonT(40) DEF f
<1>13. \A i \in DOMAIN alarms :
         alarms[i].occurrences = Cardinality(FiringsOf(fired, alarms[i]))
  BY DEF OccurrencesCount, FiringsOf
<1>14. \A i \in DOMAIN alarms' :
         alarms'[i].occurrences = Cardinality(FiringsOf(fired', alarms'[i]))
  <2> SUFFICES ASSUME NEW i \in DOMAIN alarms
               PROVE  alarms'[i].occurrences = Cardinality(FiringsOf(fired', alarms'[i]))
    BY <1>1
  <2>1. CASE i = p
    BY <2>1, <1>1, <1>2, <1>11, <1>13
  <2>2. CASE i # p
    BY <2>2, <1>1, <1>2, <1>12, <1>13
  <2> QED BY <2>1, <2>2
<1> QED BY <1>14 DEF OccurrencesCount, FiringsOf

\* Steps that move neither a key, nor a span, nor a count, nor a firing.
LEMMA SameCounts ==
    ASSUME OccurrencesCount, fired' = fired, DOMAIN alarms' = DOMAIN alarms,
           \A i \in DOMAIN alarms :
              /\ alarms'[i].key = alarms[i].key
              /\ alarms'[i].first_index = alarms[i].first_index
              /\ alarms'[i].last_index = alarms[i].last_index
              /\ alarms'[i].occurrences = alarms[i].occurrences
    PROVE  OccurrencesCount'
<1>1. \A i \in DOMAIN alarms : FiringsOf(fired', alarms'[i]) = FiringsOf(fired, alarms[i])
  BY DEF FiringsOf, Spans
<1>2. \A i \in DOMAIN alarms :
        alarms[i].occurrences = Cardinality(FiringsOf(fired, alarms[i]))
  BY DEF OccurrencesCount, FiringsOf
<1>3. \A i \in DOMAIN alarms' :
        alarms'[i].occurrences = Cardinality(FiringsOf(fired', alarms'[i]))
  BY <1>1, <1>2
<1> QED BY <1>3 DEF OccurrencesCount, FiringsOf

\* occurrences is the number of times the rule fired while the alarm stood.
THEOREM CountCorrect == Spec => []OccurrencesCount
<1>1. Init => OccurrencesCount
  BY DEF Init, OccurrencesCount
<1>2. IInv /\ OccurrencesCount /\ [Next]_vars => OccurrencesCount'
  <2> SUFFICES ASSUME IInv, OccurrencesCount, [Next]_vars
               PROVE  OccurrencesCount'
    OBVIOUS
  <2>0. TypeOK
    BY DEF IInv
  <2>1. ASSUME NEW k \in Key, Record(k)
        PROVE  OccurrencesCount'
    BY <2>1, RaiseCounts, UpdateCounts DEF Record
  <2>2. CASE Expire
    <3>1. Expiring \in SUBSET Key /\ alarms' = Cleared(Expiring) /\ fired' = fired
      BY <2>2 DEF Expire, Expiring
    <3> QED BY <3>1, <2>0, ExpireList, SameCounts
  <2>3. CASE AcknowledgeAll
    <3>1. fired' = fired
      BY <2>3 DEF AcknowledgeAll
    <3> QED BY <3>1, <2>0, <2>3, AcknowledgeList, SameCounts
  <2>4. CASE Reset
    BY <2>4 DEF Reset, OccurrencesCount
  <2>5. CASE UNCHANGED vars
    BY <2>5, SameCounts DEF vars
  <2> QED BY <2>1, <2>2, <2>3, <2>4, <2>5 DEF Next
<1> QED BY <1>1, <1>2, Invariance, PTL DEF Spec

-----------------------------------------------------------------------------
(* The action properties *)

\* What has been acknowledged stays acknowledged, and an alarm keeps where it
\* began and never ends earlier.
THEOREM AcknowledgedCorrect == Spec => AcknowledgedStays
<1> DEFINE Stays == alarms' # <<>> =>
                      \A i \in DOMAIN alarms :
                        /\ alarms[i].acknowledged => alarms'[i].acknowledged
                        /\ alarms[i].first_index = alarms'[i].first_index
                        /\ alarms[i].last_index <= alarms'[i].last_index
<1>1. IInv /\ [Next]_vars => [Stays]_vars
  <2> SUFFICES ASSUME IInv, Next
               PROVE  Stays
    BY DEF vars
  <2>0. TypeOK /\ OpenIsActive /\ FiringsInThePast /\ SpansFirings
    BY DEF IInv
  <2>9. index \in Nat /\ \A i \in DOMAIN alarms : alarms[i] \in Alarm
    BY <2>0 DEF TypeOK
  <2>1. /\ index \in Nat
        /\ \A i \in DOMAIN alarms : alarms[i].last_index \in Nat /\ alarms[i].key \in Key
    BY <2>9 DEF Alarm
  <2>2. \A i \in DOMAIN alarms : alarms[i].last_index <= index
    BY <2>0, <2>1 DEF SpansFirings, FiringsInThePast
  <2>3. ASSUME NEW k \in Key, Raise(k)
        PROVE  Stays
    BY <2>0, <2>1, <2>3, RaiseList
  <2>4. ASSUME NEW k \in Key, Update(k)
        PROVE  Stays
    <3> SUFFICES ASSUME NEW i \in DOMAIN alarms
                 PROVE  /\ alarms[i].acknowledged => alarms'[i].acknowledged
                        /\ alarms[i].first_index = alarms'[i].first_index
                        /\ alarms[i].last_index <= alarms'[i].last_index
      OBVIOUS
    <3>1. CASE i = open[k]
      BY <2>0, <2>2, <2>4, <3>1, UpdateList
    <3>2. CASE i # open[k]
      BY <2>0, <2>1, <2>4, <3>2, UpdateList
    <3> QED BY <3>1, <3>2
  <2>5. CASE Expire
    BY <2>0, <2>1, <2>5, ExpireList DEF Expire, Expiring
  <2>6. CASE AcknowledgeAll
    <3> SUFFICES ASSUME NEW i \in DOMAIN alarms
                 PROVE  /\ alarms[i].acknowledged => alarms'[i].acknowledged
                        /\ alarms[i].first_index = alarms'[i].first_index
                        /\ alarms[i].last_index <= alarms'[i].last_index
      OBVIOUS
    <3>1. alarms'[i].acknowledged = (alarms[i].acknowledged \/ alarms[i].active)
      BY <2>0, <2>6, AcknowledgeList
    <3>2. /\ alarms'[i].first_index = alarms[i].first_index
          /\ alarms'[i].last_index = alarms[i].last_index
      BY <2>0, <2>6, AcknowledgeList
    <3>3. alarms[i].acknowledged => alarms'[i].acknowledged
      BY <3>1, Zenon
    <3> QED BY <2>1, <3>2, <3>3
  <2>7. CASE Reset
    BY <2>7 DEF Reset
  <2> QED BY <2>3, <2>4, <2>5, <2>6, <2>7 DEF Next, Record
<1> QED BY <1>1, Invariance, PTL DEF AcknowledgedStays, Spec

\* A cleared alarm never changes again, and a new alarm is unacknowledged.
THEOREM HistoryCorrect == Spec => HistoryIsFinal
<1> DEFINE Final == alarms' # <<>> =>
              /\ \A i \in DOMAIN alarms : ~ alarms[i].active => alarms'[i] = alarms[i]
              /\ \A i \in DOMAIN alarms' \ DOMAIN alarms : ~ alarms'[i].acknowledged
<1>1. IInv /\ [Next]_vars => [Final]_vars
  <2> SUFFICES ASSUME IInv, Next
               PROVE  Final
    BY DEF vars
  <2>0. TypeOK /\ OpenIsActive
    BY DEF IInv
  <2>1. ASSUME NEW k \in Key, Raise(k)
        PROVE  Final
    <3>1. ~ NewAlarm(k).acknowledged
      BY DEF NewAlarm
    <3>2. \A i \in DOMAIN alarms' \ DOMAIN alarms : i = Len(alarms) + 1
      BY <2>0, <2>1, RaiseList
    <3>3. \A i \in DOMAIN alarms : alarms'[i] = alarms[i]
      BY <2>0, <2>1, RaiseList
    <3>4. alarms'[Len(alarms) + 1] = NewAlarm(k)
      BY <2>0, <2>1, RaiseList
    <3> QED BY <3>1, <3>2, <3>3, <3>4
  <2>2. ASSUME NEW k \in Key, Update(k)
        PROVE  Final
    <3>1. alarms[open[k]].active
      BY <2>0, <2>2 DEF OpenIsActive, Update
    <3>2. \A i \in DOMAIN alarms : i # open[k] => alarms'[i] = alarms[i]
      BY <2>0, <2>2, UpdateList
    <3>3. DOMAIN alarms' = DOMAIN alarms
      BY <2>0, <2>2, UpdateList
    <3> QED BY <3>1, <3>2, <3>3
  <2>3. CASE Expire
    <3>1. \A k \in Expiring : alarms[open[k]].active
      BY <2>0 DEF OpenIsActive, Expiring
    <3> QED BY <2>3, <3>1 DEF Expire, Cleared
  <2>4. CASE AcknowledgeAll
    BY <2>4 DEF AcknowledgeAll
  <2>5. CASE Reset
    BY <2>5 DEF Reset
  <2> QED BY <2>1, <2>2, <2>3, <2>4, <2>5 DEF Next, Record
<1> QED BY <1>1, Invariance, PTL DEF HistoryIsFinal, Spec

-----------------------------------------------------------------------------
(* The log implements AlarmConditions *)

\* What record does to the conditions when it raises an alarm.
LEMMA RaiseRefines ==
    ASSUME IInv, NEW k \in Key, Record(k), Raise(k)
    PROVE  Conditions!Fire(k)
<1>0. TypeOK /\ OpenIsActive
  BY DEF IInv
<1> DEFINE L == Len(alarms)
<1>1. /\ open[k] = 0 /\ open' = [open EXCEPT ![k] = L + 1] /\ index' = index
      /\ open \in [Key -> Nat]
  BY <1>0 DEF Raise, Record, TypeOK
<1>2. /\ DOMAIN alarms = 1 .. L /\ L \in Nat
      /\ \A i \in DOMAIN alarms : alarms'[i] = alarms[i]
      /\ alarms'[L + 1] = NewAlarm(k)
  BY <1>0, RaiseList
<1> HIDE DEF L
<1>3. open'[k] = L + 1 /\ open'[k] # 0
  BY <1>1, <1>2
<1>4. /\ alarms'[open'[k]].first_index = index /\ alarms'[open'[k]].last_index = index
      /\ ~ alarms'[open'[k]].acknowledged
  BY <1>2, <1>3 DEF NewAlarm
<1>5. \A j \in Key : j # k => open'[j] = open[j]
  BY <1>1
<1>6. \A j \in Key : open[j] # 0 => alarms'[open[j]] = alarms[open[j]]
  BY <1>0, <1>2 DEF OpenIsActive
<1>7. OpenKeys' = OpenKeys \cup {k} /\ k \notin OpenKeys
  BY <1>1, <1>3, <1>5 DEF OpenKeys
<1>8. SeenKeys' = SeenKeys
  BY <1>1, <1>4, <1>5, <1>6, <1>7 DEF SeenKeys, OpenKeys
<1>9. Since' = [Since EXCEPT ![k] = index]
  BY <1>3, <1>4, <1>5, <1>6 DEF Since
<1>10. Latest' = [Latest EXCEPT ![k] = index]
  BY <1>3, <1>4, <1>5, <1>6 DEF Latest
<1> QED BY <1>1, <1>7, <1>8, <1>9, <1>10 DEF Conditions!Fire

\* What record does to the conditions when the alarm stands.
LEMMA UpdateRefines ==
    ASSUME IInv, NEW k \in Key, Record(k), Update(k)
    PROVE  Conditions!Fire(k)
<1>0. TypeOK /\ OpenIsActive
  BY DEF IInv
<1>1. open[k] # 0 /\ open' = open /\ index' = index
  BY DEF Update, Record
<1>2. /\ \A i \in DOMAIN alarms : i # open[k] => alarms'[i] = alarms[i]
      /\ alarms'[open[k]].first_index = alarms[open[k]].first_index
      /\ alarms'[open[k]].last_index = index
      /\ alarms'[open[k]].acknowledged = alarms[open[k]].acknowledged
  BY <1>0, UpdateList
<1>3. \A j \in Key : j # k /\ open[j] # 0 => alarms'[open[j]] = alarms[open[j]]
  BY <1>0, <1>1, <1>2 DEF OpenIsActive
<1>4. OpenKeys' = OpenKeys \cup {k} /\ k \in OpenKeys
  BY <1>1 DEF OpenKeys
<1>5. SeenKeys' = SeenKeys
  <2>1. \A j \in Key : open[j] # 0 =>
          alarms'[open[j]].acknowledged = alarms[open[j]].acknowledged
    BY <1>2, <1>3
  <2> QED BY <1>1, <2>1 DEF SeenKeys, OpenKeys
<1>6. Since' = Since
  BY <1>1, <1>2, <1>3 DEF Since
<1>7. Latest' = [Latest EXCEPT ![k] = index]
  BY <1>1, <1>2, <1>3 DEF Latest
<1> QED BY <1>1, <1>4, <1>5, <1>6, <1>7 DEF Conditions!Fire

\* What expire does to the conditions.
LEMMA ExpireRefines ==
    ASSUME IInv, Expire
    PROVE  Conditions!CloseSubgroup
<1>0. TypeOK /\ OpenIsActive
  BY DEF IInv
<1>1. /\ index < MaxIndex /\ index' = index + 1
      /\ \A k \in Key : open'[k] = IF k \in Expiring THEN 0 ELSE open[k]
  BY DEF Expire
<1>2. \A k \in OpenKeys :
        /\ alarms'[open[k]].first_index = alarms[open[k]].first_index
        /\ alarms'[open[k]].last_index = alarms[open[k]].last_index
        /\ alarms'[open[k]].acknowledged = alarms[open[k]].acknowledged
  BY <1>0, ExpireList DEF Expire, Expiring, OpenIsActive, OpenKeys
<1>12. index \in Nat /\ \A k \in OpenKeys : alarms[open[k]] \in Alarm
  BY <1>0 DEF OpenIsActive, OpenKeys, TypeOK
<1>3. index \in Nat /\ \A k \in OpenKeys : alarms[open[k]].last_index \in Nat
  BY <1>12 DEF Alarm
<1>4. \A k \in OpenKeys : Latest[k] = alarms[open[k]].last_index
  BY DEF Latest, OpenKeys
<1>5. Conditions!Lasting = OpenKeys \ Expiring
  BY <1>3, <1>4, ClearAfterAssumption DEF Conditions!Lasting, Expiring, QuietFor, OpenKeys
<1>6. OpenKeys' = OpenKeys \ Expiring
  BY <1>1 DEF OpenKeys
<1>7. \A k \in OpenKeys \ Expiring : open'[k] = open[k]
  BY <1>1 DEF OpenKeys
<1>8. SeenKeys' = SeenKeys \cap (OpenKeys \ Expiring)
  BY <1>2, <1>6, <1>7 DEF SeenKeys
<1>9. /\ \A k \in Key : k \notin OpenKeys \ Expiring => open'[k] = 0
      /\ \A k \in Key : k \in OpenKeys \ Expiring => open'[k] # 0 /\ open[k] # 0
  BY <1>1 DEF OpenKeys
<1>10. Since' = Conditions!Only(OpenKeys \ Expiring, Since)
  BY <1>2, <1>7, <1>9 DEF Since, Conditions!Only
<1>11. Latest' = Conditions!Only(OpenKeys \ Expiring, Latest)
  BY <1>2, <1>7, <1>9 DEF Latest, Conditions!Only
<1> QED BY <1>1, <1>5, <1>6, <1>8, <1>10, <1>11 DEF Conditions!CloseSubgroup

\* What acknowledge_all does to the conditions.
LEMMA AcknowledgeRefines ==
    ASSUME IInv, AcknowledgeAll
    PROVE  Conditions!Acknowledge
<1>0. TypeOK /\ OpenIsActive
  BY DEF IInv
<1>1. open' = open /\ index' = index
  BY DEF AcknowledgeAll
<1>2. \A k \in Key : open[k] # 0 =>
        /\ alarms[open[k]].active
        /\ alarms'[open[k]].first_index = alarms[open[k]].first_index
        /\ alarms'[open[k]].last_index = alarms[open[k]].last_index
        /\ alarms'[open[k]].acknowledged =
             (alarms[open[k]].acknowledged \/ alarms[open[k]].active)
  BY <1>0, AcknowledgeList DEF OpenIsActive
<1>3. \A k \in Key : open[k] # 0 => alarms'[open[k]].acknowledged
  BY <1>2, Zenon
<1>4. OpenKeys' = OpenKeys
  BY <1>1 DEF OpenKeys
<1>5. SeenKeys' = OpenKeys
  BY <1>1, <1>3, <1>4 DEF SeenKeys, OpenKeys
<1>6. Since' = Since
  BY <1>1, <1>2 DEF Since
<1>7. Latest' = Latest
  BY <1>1, <1>2 DEF Latest
<1> QED BY <1>1, <1>4, <1>5, <1>6, <1>7 DEF Conditions!Acknowledge

\* What reset does to the conditions.
LEMMA ResetRefines ==
    ASSUME Reset
    PROVE  Conditions!Forget
<1>1. index' = index /\ \A k \in Key : open'[k] = 0
  BY DEF Reset
<1>2. OpenKeys' = {} /\ SeenKeys' = {}
  BY <1>1 DEF OpenKeys, SeenKeys
<1>3. Since' = Conditions!Only({}, Since) /\ Latest' = Conditions!Only({}, Latest)
  BY <1>1 DEF Since, Latest, Conditions!Only
<1> QED BY <1>1, <1>2, <1>3 DEF Conditions!Forget

\* Every behaviour of the log is a behaviour of AlarmConditions.
THEOREM Refinement == Spec => ImplementsConditions
<1>1. Init => Conditions!Init
  BY DEF Init, Conditions!Init, OpenKeys, SeenKeys, Since, Latest
<1>2. IInv /\ [Next]_vars => [Conditions!Next]_Conditions!vars
  <2> SUFFICES ASSUME IInv, [Next]_vars
               PROVE  [Conditions!Next]_Conditions!vars
    OBVIOUS
  <2>1. ASSUME NEW k \in Key, Record(k)
        PROVE  Conditions!Next
    BY <2>1, RaiseRefines, UpdateRefines DEF Record, Conditions!Next
  <2>2. CASE Expire
    BY <2>2, ExpireRefines DEF Conditions!Next
  <2>3. CASE AcknowledgeAll
    BY <2>3, AcknowledgeRefines DEF Conditions!Next
  <2>4. CASE Reset
    BY <2>4, ResetRefines DEF Conditions!Next
  <2>5. CASE UNCHANGED vars
    BY <2>5 DEF vars, OpenKeys, SeenKeys, Since, Latest, Conditions!vars
  <2> QED BY <2>1, <2>2, <2>3, <2>4, <2>5 DEF Next
<1> QED BY <1>1, <1>2, Invariance, PTL DEF Spec, ImplementsConditions, Conditions!Spec

-----------------------------------------------------------------------------
(* LiveAlarms: the copies *)

\* The copy c may be written to position i: same key, same start, active.
Fits(c, i) == /\ i \in DOMAIN alarms
              /\ c.key = alarms[i].key
              /\ c.first_index = alarms[i].first_index
              /\ c.active

\* What each thread holds while it is about to write; what expire has to do.
CopiesFit ==
    /\ bg.pc \in {"update", "clear"} => /\ bg.todo # {}
                                        /\ open[NextKey] # 0
                                        /\ Fits(bg.copy, open[NextKey])
    /\ ui.pc = "mark" => Fits(ui.copy, ui.position)
    /\ bg.pc \in {"expire", "clear"} => bg.todo \subseteq OpenKeys

LockInv == lock = IF ui.pc = "idle" THEN "free" ELSE "ui"

\* While the background thread rests, what the interface thread has read, and
\* once both rest what is on the screen, is the log: the background thread
\* comes to rest only by publishing, which needs the lock.
ScreenInv ==
    bg.pc = "idle" =>
      /\ ui.pc = "idle" => snapshot = [active |-> ActiveAlarms, history |-> ClearedAlarms]
      /\ ui.pc \in {"history", "publish"} => ui.active = ActiveAlarms
      /\ ui.pc = "publish" => ui.history = ClearedAlarms

LInv == LiveTypeOK /\ EntriesStand /\ CopiesFit /\ LockInv /\ ScreenInv

-----------------------------------------------------------------------------
(* Facts about the log and the records *)

\* A write that does not move alarms: PositionsKept for one step.
Keeps == \A i \in DOMAIN alarms :
           /\ i \in DOMAIN alarms'
           /\ alarms'[i].key = alarms[i].key
           /\ alarms'[i].first_index = alarms[i].first_index

LEMMA NoCopyIsAlarm == NoCopy \in Alarm
<1>1. (CHOOSE k \in Key : TRUE) \in Key
  BY KeyAssumption
<1> QED BY <1>1 DEF NoCopy, Alarm

\* self._alarms[position] = an alarm that fits there.
LEMMA PutAlarm ==
    ASSUME alarms \in Seq(Alarm), NEW i \in DOMAIN alarms, NEW a \in Alarm,
           a.key = alarms[i].key, a.first_index = alarms[i].first_index,
           alarms' = [alarms EXCEPT ![i] = a]
    PROVE  /\ alarms' \in Seq(Alarm)
           /\ DOMAIN alarms' = DOMAIN alarms
           /\ alarms'[i] = a
           /\ \A j \in DOMAIN alarms : j # i => alarms'[j] = alarms[j]
           /\ Keeps
BY DEF Keeps

LEMMA RefiredFits ==
    ASSUME index \in Nat, NEW a \in Alarm
    PROVE  /\ Refired(a) \in Alarm
           /\ Refired(a).key = a.key
           /\ Refired(a).first_index = a.first_index
           /\ Refired(a).active = a.active
<1> DEFINE moved == [a EXCEPT !.last_index = index]
<1>1. /\ moved \in Alarm
      /\ moved.key = a.key /\ moved.first_index = a.first_index
      /\ moved.active = a.active /\ moved.occurrences = a.occurrences
  BY DEF Alarm
<1>2. Refired(a) = [moved EXCEPT !.occurrences = a.occurrences + 1]
  BY Zenon DEF Refired
<1> HIDE DEF moved
<1> QED BY <1>1, <1>2 DEF Alarm

\* A copy goes on fitting while alarms are only written in place or appended.
LEMMA FitsStays ==
    ASSUME NEW c, NEW i, Fits(c, i), Keeps
    PROVE  /\ i \in DOMAIN alarms'
           /\ c.key = alarms'[i].key
           /\ c.first_index = alarms'[i].first_index
           /\ c.active
BY DEF Fits, Keeps

\* The dictionary points to different positions for different keys.
LEMMA EntriesDiffer ==
    ASSUME EntriesStand, NEW k \in OpenKeys, NEW j \in OpenKeys, k # j
    PROVE  open[k] # open[j]
BY DEF EntriesStand

BgType == bg \in [pc   : {"idle", "record", "update", "expire", "clear", "publish"},
                  todo : SUBSET Key, copy : Alarm]
UiType == ui \in [pc : {"idle", "scan", "mark", "history", "publish"},
                  position : Nat, copy : Alarm, active : SUBSET Entry, history : SUBSET Entry]
RestType == /\ lock \in {"free", "ui"}
            /\ snapshot \in [active : SUBSET Entry, history : SUBSET Entry]
            /\ clicks \in 0 .. MaxClicks
            /\ overlap \in BOOLEAN

LEMMA TypeParts == LiveTypeOK <=> TypeOK /\ BgType /\ UiType /\ RestType
BY DEF LiveTypeOK, BgType, UiType, RestType

LEMMA NextKeyInTodo ==
    ASSUME BgType, bg.todo # {}
    PROVE  NextKey \in bg.todo /\ NextKey \in Key
BY DEF BgType, NextKey

LEMMA PassesAreEntries ==
    ASSUME TypeOK
    PROVE  ActiveAlarms \subseteq Entry /\ ClearedAlarms \subseteq Entry
BY DEF TypeOK, ActiveAlarms, ClearedAlarms, Entry

-----------------------------------------------------------------------------
(* Steps of the background thread *)

LEMMA BeginAddInv ==
    ASSUME LInv, NEW V \in SUBSET Key, BeginAdd(V)
    PROVE  LInv'
<1>0. TypeOK /\ BgType /\ UiType /\ RestType /\ EntriesStand /\ CopiesFit /\ LockInv
  BY TypeParts DEF LInv
<1>1. /\ bg'.pc = "record" /\ BgType'
      /\ UNCHANGED <<alarms, open, index, reported, fired, ui, lock, snapshot, clicks>>
      /\ overlap' \in BOOLEAN
  BY <1>0 DEF BeginAdd, log, BgType, UiType, RestType
<1>2. TypeOK' /\ UiType' /\ RestType' /\ EntriesStand' /\ LockInv' /\ ScreenInv'
  BY <1>0, <1>1 DEF TypeOK, UiType, RestType, EntriesStand, OpenKeys, LockInv, ScreenInv
<1>3. CopiesFit'
  BY <1>0, <1>1 DEF CopiesFit, Fits
<1> QED BY <1>1, <1>2, <1>3, TypeParts DEF LInv, LiveTypeOK, BgType, UiType, RestType

LEMMA RecordNewInv ==
    ASSUME LInv, RecordNew
    PROVE  LInv' /\ Keeps
<1> DEFINE k == NextKey
<1>0. TypeOK /\ BgType /\ UiType /\ RestType /\ EntriesStand /\ CopiesFit /\ LockInv
  BY TypeParts DEF LInv
<1>k. k \in Key /\ k \in bg.todo
  BY <1>0, NextKeyInTodo DEF RecordNew
<1>1. /\ bg'.pc = "record" /\ BgType'
      /\ UNCHANGED <<index, ui, lock, snapshot, clicks, overlap>>
  BY <1>0 DEF RecordNew, BgType
<1>2. /\ open[k] = 0 /\ open' = [open EXCEPT ![k] = Len(alarms) + 1]
      /\ alarms' = Append(alarms, NewAlarm(k))
      /\ reported' = reported \cup {k}
      /\ fired' = [fired EXCEPT ![k] = @ \cup {index}]
  BY DEF RecordNew, Raise, Fired
<1>3. NewAlarm(k) \in Alarm /\ NewAlarm(k).key = k /\ NewAlarm(k).active
  BY <1>0, <1>k DEF TypeOK, NewAlarm, Alarm
<1> HIDE DEF k
<1>4. /\ alarms' \in Seq(Alarm) /\ Len(alarms) \in Nat
      /\ DOMAIN alarms = 1 .. Len(alarms) /\ DOMAIN alarms' = 1 .. Len(alarms) + 1
      /\ \A i \in DOMAIN alarms : alarms'[i] = alarms[i]
      /\ alarms'[Len(alarms) + 1] = NewAlarm(k)
  BY <1>0, <1>2, <1>3 DEF TypeOK
<1>5. Keeps
  BY <1>4 DEF Keeps
<1>6. TypeOK'
  BY <1>0, <1>k, <1>1, <1>2, <1>4 DEF TypeOK
<1>7. EntriesStand'
  <2> SUFFICES ASSUME NEW j \in Key, open'[j] # 0
               PROVE  /\ open'[j] \in DOMAIN alarms'
                      /\ alarms'[open'[j]].key = j /\ alarms'[open'[j]].active
    BY DEF EntriesStand, OpenKeys
  <2>1. CASE j = k
    BY <2>1, <1>0, <1>k, <1>2, <1>3, <1>4 DEF TypeOK
  <2>2. CASE j # k
    <3>1. open'[j] = open[j] /\ j \in OpenKeys
      BY <2>2, <1>0, <1>2 DEF TypeOK, OpenKeys
    <3> QED BY <3>1, <1>0, <1>4 DEF EntriesStand
  <2> QED BY <2>1, <2>2
<1>8. CopiesFit'
  <2>1. ui'.pc = "mark" => Fits(ui.copy, ui.position)
    BY <1>0, <1>1 DEF CopiesFit
  <2> QED BY <1>1, <1>5, <2>1, FitsStays DEF CopiesFit, Fits
<1>9. UiType' /\ RestType' /\ LockInv' /\ ScreenInv'
  BY <1>0, <1>1 DEF UiType, RestType, LockInv, ScreenInv
<1> QED BY <1>1, <1>5, <1>6, <1>7, <1>8, <1>9, TypeParts
        DEF LInv, LiveTypeOK, BgType, UiType, RestType

\* A step of the background thread that reads, or moves on.
LEMMA BgMoves ==
    ASSUME LInv, UNCHANGED <<log, ui, lock, snapshot, clicks, overlap>>,
           BgType', bg'.pc # "idle",
           bg'.pc \in {"update", "clear"} => /\ bg'.todo # {}
                                             /\ open[NextKey'] # 0
                                             /\ Fits(bg'.copy, open[NextKey']),
           bg'.pc \in {"expire", "clear"} => bg'.todo \subseteq OpenKeys
    PROVE  LInv' /\ Keeps
<1>0. TypeOK /\ BgType /\ UiType /\ RestType /\ EntriesStand /\ CopiesFit /\ LockInv
  BY TypeParts DEF LInv
<1>1. UNCHANGED <<alarms, open, index, reported, fired, ui, lock, snapshot, clicks, overlap>>
  BY DEF log
<1>2. TypeOK' /\ UiType' /\ RestType' /\ EntriesStand' /\ LockInv' /\ ScreenInv'
  BY <1>0, <1>1 DEF TypeOK, UiType, RestType, EntriesStand, OpenKeys, LockInv, ScreenInv
<1>3. OpenKeys' = OpenKeys
  BY <1>1 DEF OpenKeys
<1>4. ui'.pc = "mark" => Fits(ui.copy, ui.position)
  BY <1>0, <1>1 DEF CopiesFit
<1>5. CopiesFit'
  BY <1>1, <1>3, <1>4 DEF CopiesFit, Fits
<1>6. Keeps
  BY <1>1 DEF Keeps
<1>7. LiveTypeOK'
  BY <1>2 DEF LiveTypeOK, BgType, UiType, RestType
<1> QED BY <1>2, <1>5, <1>6, <1>7 DEF LInv

\* The entry of an open key fits where it stands, and is an alarm.
LEMMA EntryFits ==
    ASSUME TypeOK, EntriesStand, NEW k \in OpenKeys
    PROVE  open[k] # 0 /\ alarms[open[k]] \in Alarm /\ Fits(alarms[open[k]], open[k])
BY DEF TypeOK, EntriesStand, Fits, OpenKeys

LEMMA ReadInv ==
    ASSUME LInv, ReadStanding \/ ReadQuiet
    PROVE  LInv' /\ Keeps
<1>0. TypeOK /\ BgType /\ EntriesStand /\ CopiesFit
  BY TypeParts DEF LInv
<1>1. bg.todo # {} /\ UNCHANGED <<log, ui, lock, snapshot, clicks, overlap>>
  BY DEF ReadStanding, ReadQuiet
<1>2. NextKey \in bg.todo /\ NextKey \in Key
  BY <1>0, <1>1, NextKeyInTodo
<1>3. NextKey \in OpenKeys
  BY <1>0, <1>2 DEF ReadStanding, ReadQuiet, CopiesFit, OpenKeys
<1>4. /\ open[NextKey] # 0 /\ alarms[open[NextKey]] \in Alarm
      /\ Fits(alarms[open[NextKey]], open[NextKey])
  BY <1>0, <1>3, EntryFits
<1>5. /\ bg'.pc \in {"update", "clear"} /\ bg'.todo = bg.todo
      /\ bg'.copy = alarms[open[NextKey]]
      /\ bg'.pc = "clear" => bg.pc = "expire"
  BY <1>0 DEF ReadStanding, ReadQuiet, BgType
<1>6. BgType'
  BY <1>0, <1>4 DEF ReadStanding, ReadQuiet, BgType
<1>7. NextKey' = NextKey
  BY <1>5 DEF NextKey
<1>8. bg'.pc \in {"expire", "clear"} => bg'.todo \subseteq OpenKeys
  BY <1>0, <1>5 DEF CopiesFit
<1> QED BY <1>1, <1>4, <1>5, <1>6, <1>7, <1>8, BgMoves

LEMMA ExpireLoopInv ==
    ASSUME LInv, BeginExpire \/ KeepStanding
    PROVE  LInv' /\ Keeps
<1>0. BgType /\ CopiesFit
  BY TypeParts DEF LInv
<1>1. bg'.pc = "expire" /\ UNCHANGED <<log, ui, lock, snapshot, clicks, overlap>>
  BY <1>0 DEF BeginExpire, KeepStanding, BgType
<1>2. bg'.todo \subseteq OpenKeys
  BY <1>0 DEF BeginExpire, KeepStanding, BgType, CopiesFit
<1>3. BgType'
  BY <1>0 DEF BeginExpire, KeepStanding, BgType, OpenKeys
<1> QED BY <1>1, <1>2, <1>3, BgMoves

LEMMA WriteStandingInv ==
    ASSUME LInv, WriteStanding
    PROVE  LInv' /\ Keeps
<1> DEFINE k == NextKey
           a == Refired(bg.copy)
<1>0. TypeOK /\ BgType /\ UiType /\ RestType /\ EntriesStand /\ CopiesFit /\ LockInv
  BY TypeParts DEF LInv
<1>1. bg.todo # {} /\ open[k] # 0 /\ Fits(bg.copy, open[k]) /\ bg.copy \in Alarm
  BY <1>0 DEF WriteStanding, CopiesFit, BgType
<1>2. k \in Key /\ k \in OpenKeys
  BY <1>0, <1>1, NextKeyInTodo DEF OpenKeys
<1>3. /\ a \in Alarm /\ a.key = alarms[open[k]].key /\ a.active
      /\ a.first_index = alarms[open[k]].first_index /\ open[k] \in DOMAIN alarms
  BY <1>0, <1>1, RefiredFits DEF TypeOK, Fits
<1>4. /\ alarms' = [alarms EXCEPT ![open[k]] = a]
      /\ reported' = reported \cup {k}
      /\ fired' = [fired EXCEPT ![k] = @ \cup {index}]
      /\ UNCHANGED <<open, index, ui, lock, snapshot, clicks, overlap>>
  BY DEF WriteStanding, Fired
<1>5. bg'.pc = "record" /\ BgType'
  BY <1>0, NoCopyIsAlarm DEF WriteStanding, BgType
<1> HIDE DEF k, a
<1>6. /\ alarms' \in Seq(Alarm) /\ DOMAIN alarms' = DOMAIN alarms
      /\ alarms'[open[k]] = a /\ Keeps
      /\ \A j \in DOMAIN alarms : j # open[k] => alarms'[j] = alarms[j]
  <2>1. alarms \in Seq(Alarm)
    BY <1>0 DEF TypeOK
  <2> QED BY <2>1, <1>3, <1>4, PutAlarm
<1>7. TypeOK'
  BY <1>0, <1>2, <1>4, <1>6 DEF TypeOK
<1>8. EntriesStand'
  BY <1>0, <1>2, <1>3, <1>4, <1>6 DEF EntriesStand, OpenKeys
<1>9. CopiesFit'
  <2>1. ui'.pc = "mark" => Fits(ui.copy, ui.position)
    BY <1>0, <1>4 DEF CopiesFit
  <2> QED BY <1>4, <1>5, <1>6, <2>1, FitsStays DEF CopiesFit, Fits
<1>10. UiType' /\ RestType' /\ LockInv' /\ ScreenInv'
  BY <1>0, <1>4, <1>5 DEF UiType, RestType, LockInv, ScreenInv
<1>11. LiveTypeOK'
  BY <1>5, <1>7, <1>10 DEF LiveTypeOK, BgType, UiType, RestType
<1> QED BY <1>6, <1>8, <1>9, <1>10, <1>11 DEF LInv

LEMMA WriteClearedInv ==
    ASSUME LInv, WriteCleared
    PROVE  LInv' /\ Keeps
<1> DEFINE k == NextKey
           a == [bg.copy EXCEPT !.active = FALSE]
<1>0. TypeOK /\ BgType /\ UiType /\ RestType /\ EntriesStand /\ CopiesFit /\ LockInv
  BY TypeParts DEF LInv
<1>1. bg.todo # {} /\ open[k] # 0 /\ Fits(bg.copy, open[k]) /\ bg.copy \in Alarm
      /\ bg.todo \subseteq OpenKeys
  BY <1>0 DEF WriteCleared, CopiesFit, BgType
<1>2. k \in Key /\ k \in OpenKeys
  BY <1>0, <1>1, NextKeyInTodo DEF OpenKeys
<1>3. /\ a \in Alarm /\ a.key = alarms[open[k]].key
      /\ a.first_index = alarms[open[k]].first_index /\ open[k] \in DOMAIN alarms
  BY <1>1 DEF Fits, Alarm
<1>4. /\ alarms' = [alarms EXCEPT ![open[k]] = a]
      /\ open' = [open EXCEPT ![k] = 0]
      /\ UNCHANGED <<index, reported, fired, ui, lock, snapshot, clicks, overlap>>
  BY DEF WriteCleared
<1>5. bg'.pc = "expire" /\ BgType' /\ bg'.todo = bg.todo \ {k}
  BY <1>0, NoCopyIsAlarm DEF WriteCleared, BgType
<1> HIDE DEF k, a
<1>6. /\ alarms' \in Seq(Alarm) /\ DOMAIN alarms' = DOMAIN alarms
      /\ alarms'[open[k]] = a /\ Keeps
      /\ \A j \in DOMAIN alarms : j # open[k] => alarms'[j] = alarms[j]
  <2>1. alarms \in Seq(Alarm)
    BY <1>0 DEF TypeOK
  <2> QED BY <2>1, <1>3, <1>4, PutAlarm
<1>7. TypeOK'
  BY <1>0, <1>2, <1>4, <1>6 DEF TypeOK
<1>8. EntriesStand' /\ OpenKeys' = OpenKeys \ {k}
  <2>1. OpenKeys' = OpenKeys \ {k} /\ \A j \in OpenKeys \ {k} : open'[j] = open[j]
    BY <1>0, <1>2, <1>4 DEF TypeOK, OpenKeys
  <2>2. \A j \in OpenKeys \ {k} : open[j] # open[k]
    BY <1>0, <1>2, EntriesDiffer
  <2> QED BY <1>0, <1>6, <2>1, <2>2 DEF EntriesStand
<1>9. CopiesFit'
  <2>1. ui'.pc = "mark" => Fits(ui.copy, ui.position)
    BY <1>0, <1>4 DEF CopiesFit
  <2> QED BY <1>1, <1>4, <1>5, <1>6, <1>8, <2>1, FitsStays DEF CopiesFit, Fits
<1>10. UiType' /\ RestType' /\ LockInv' /\ ScreenInv'
  BY <1>0, <1>4, <1>5 DEF UiType, RestType, LockInv, ScreenInv
<1>11. LiveTypeOK'
  BY <1>5, <1>7, <1>10 DEF LiveTypeOK, BgType, UiType, RestType
<1> QED BY <1>6, <1>8, <1>9, <1>10, <1>11 DEF LInv

LEMMA EndAddInv ==
    ASSUME LInv, EndAdd
    PROVE  LInv' /\ Keeps
<1>0. TypeOK /\ BgType /\ UiType /\ RestType /\ EntriesStand /\ CopiesFit /\ LockInv
  BY TypeParts DEF LInv
<1>1. /\ bg'.pc = "publish" /\ BgType' /\ index' = index + 1 /\ reported' = {}
      /\ UNCHANGED <<alarms, open, fired, ui, lock, snapshot, clicks, overlap>>
  BY <1>0 DEF EndAdd, BgType
<1>2. TypeOK' /\ UiType' /\ RestType' /\ EntriesStand' /\ LockInv' /\ ScreenInv'
  BY <1>0, <1>1 DEF TypeOK, UiType, RestType, EntriesStand, OpenKeys, LockInv, ScreenInv
<1>3. CopiesFit' /\ Keeps
  BY <1>0, <1>1 DEF CopiesFit, Fits, Keeps
<1>4. LiveTypeOK'
  BY <1>1, <1>2 DEF LiveTypeOK, BgType, UiType, RestType
<1> QED BY <1>2, <1>3, <1>4 DEF LInv

\* The lock is free, so the interface thread holds nothing it has read.
LEMMA RefreshInv ==
    ASSUME LInv, Refresh
    PROVE  LInv' /\ Keeps
<1>0. TypeOK /\ BgType /\ UiType /\ RestType /\ EntriesStand /\ CopiesFit /\ LockInv
  BY TypeParts DEF LInv
<1>1. /\ bg'.pc = "idle" /\ BgType'
      /\ UNCHANGED <<alarms, open, index, reported, fired, ui, lock, clicks, overlap>>
      /\ ui.pc = "idle"
      /\ snapshot' = [active |-> ActiveAlarms, history |-> ClearedAlarms]
  BY <1>0, NoCopyIsAlarm DEF Refresh, IdleBg, BgType, log, LockInv
<1>2. ActiveAlarms' = ActiveAlarms /\ ClearedAlarms' = ClearedAlarms
  BY <1>1 DEF ActiveAlarms, ClearedAlarms
<1>3. ScreenInv'
  BY <1>1, <1>2 DEF ScreenInv
<1>4. RestType'
  BY <1>0, <1>1, PassesAreEntries DEF RestType
<1>5. TypeOK' /\ UiType' /\ EntriesStand' /\ LockInv'
  BY <1>0, <1>1 DEF TypeOK, UiType, EntriesStand, OpenKeys, LockInv
<1>6. CopiesFit' /\ Keeps
  BY <1>0, <1>1 DEF CopiesFit, Fits, Keeps
<1>7. LiveTypeOK'
  BY <1>1, <1>4, <1>5 DEF LiveTypeOK, BgType, UiType, RestType
<1> QED BY <1>3, <1>5, <1>6, <1>7 DEF LInv

-----------------------------------------------------------------------------
(* Steps of the interface thread *)

\* A step of the interface thread that does not write the log.
LEMMA UiMoves ==
    ASSUME LInv, UNCHANGED <<log, bg>>, UiType', RestType', LockInv', ScreenInv',
           ui'.pc = "mark" => Fits(ui'.copy, ui'.position)
    PROVE  LInv' /\ Keeps
<1>0. TypeOK /\ BgType /\ EntriesStand /\ CopiesFit
  BY TypeParts DEF LInv
<1>1. UNCHANGED <<alarms, open, index, reported, fired, bg>>
  BY DEF log
<1>2. TypeOK' /\ BgType' /\ EntriesStand' /\ OpenKeys' = OpenKeys /\ NextKey' = NextKey
  BY <1>0, <1>1 DEF TypeOK, BgType, EntriesStand, OpenKeys, NextKey
<1>3. CopiesFit'
  BY <1>0, <1>1, <1>2 DEF CopiesFit, Fits
<1>4. Keeps
  BY <1>1 DEF Keeps
<1>5. LiveTypeOK'
  BY <1>2 DEF LiveTypeOK, BgType, UiType, RestType
<1> QED BY <1>2, <1>3, <1>4, <1>5 DEF LInv

LEMMA ClickInv ==
    ASSUME LInv, Click
    PROVE  LInv' /\ Keeps
<1>0. UiType /\ RestType /\ LockInv
  BY TypeParts DEF LInv
<1>1. /\ UNCHANGED <<log, bg, snapshot>>
      /\ ui' = [IdleUi EXCEPT !.pc = "scan"] /\ lock' = "ui"
      /\ clicks' = clicks + 1 /\ clicks < MaxClicks /\ overlap' = (overlap \/ Adding)
  BY DEF Click
<1>2. ui'.pc = "scan" /\ UiType'
  BY <1>1, NoCopyIsAlarm DEF IdleUi, UiType
<1>3. RestType' /\ LockInv' /\ ScreenInv'
  BY <1>0, <1>1, <1>2, ClicksAssumption DEF RestType, LockInv, ScreenInv, Adding
<1> QED BY <1>1, <1>2, <1>3, UiMoves

LEMMA ScanInv ==
    ASSUME LInv, Scan
    PROVE  LInv' /\ Keeps
<1>0. TypeOK /\ UiType /\ RestType /\ LockInv
  BY TypeParts DEF LInv
<1>1. UNCHANGED <<log, bg, lock, snapshot, clicks, overlap>> /\ ui.pc = "scan"
      /\ ui.position \in DOMAIN alarms
  BY DEF Scan
<1>2. alarms[ui.position] \in Alarm /\ ui.position \in Nat
  BY <1>0, <1>1 DEF TypeOK
<1>3. /\ UiType' /\ ui'.pc \in {"scan", "mark"}
      /\ ui'.pc = "mark" => /\ ui'.copy = alarms[ui.position]
                            /\ ui'.position = ui.position /\ alarms[ui.position].active
  <2>1. CASE ui' = [ui EXCEPT !.position = ui.position + 1]
    <3>1. ui.position + 1 \in Nat
      BY <1>2
    <3> QED BY <1>0, <1>1, <2>1, <3>1 DEF UiType
  <2>2. CASE ui' = [ui EXCEPT !.pc = "mark", !.copy = alarms[ui.position]] /\ Unseen(ui.position)
    BY <1>0, <1>2, <2>2 DEF UiType, Unseen
  <2> QED BY <2>1, <2>2 DEF Scan
<1>4. ui'.pc = "mark" => Fits(ui'.copy, ui'.position)
  BY <1>1, <1>3 DEF Fits
<1>5. RestType' /\ LockInv' /\ ScreenInv'
  BY <1>0, <1>1, <1>3 DEF RestType, LockInv, ScreenInv
<1> QED BY <1>1, <1>3, <1>4, <1>5, UiMoves

LEMMA PassInv ==
    ASSUME LInv, ReadActive \/ ReadHistory
    PROVE  LInv' /\ Keeps
<1>0. TypeOK /\ UiType /\ RestType /\ LockInv /\ ScreenInv
  BY TypeParts DEF LInv
<1>1. UNCHANGED <<log, bg, lock, snapshot, clicks, overlap>> /\ ui.pc # "idle"
      /\ UNCHANGED alarms
  BY DEF ReadActive, ReadHistory, log
<1>2. UiType' /\ ui'.pc \in {"history", "publish"}
  BY <1>0, PassesAreEntries DEF ReadActive, ReadHistory, UiType
<1>3. ActiveAlarms' = ActiveAlarms /\ ClearedAlarms' = ClearedAlarms
  BY <1>1 DEF ActiveAlarms, ClearedAlarms
<1>4. ScreenInv'
  BY <1>0, <1>1, <1>2, <1>3 DEF ReadActive, ReadHistory, UiType, ScreenInv
<1>5. RestType' /\ LockInv'
  BY <1>0, <1>1, <1>2 DEF RestType, LockInv
<1> QED BY <1>1, <1>2, <1>4, <1>5, UiMoves

LEMMA PublishInv ==
    ASSUME LInv, Publish
    PROVE  LInv' /\ Keeps
<1>0. TypeOK /\ UiType /\ RestType /\ LockInv /\ ScreenInv
  BY TypeParts DEF LInv
<1>1. /\ UNCHANGED <<log, bg, clicks, overlap>> /\ UNCHANGED alarms
      /\ ui' = IdleUi /\ lock' = "free" /\ ui.pc = "publish"
      /\ snapshot' = [active |-> ui.active, history |-> ui.history]
  BY DEF Publish, log
<1>2. UiType' /\ ui'.pc = "idle"
  BY <1>1, NoCopyIsAlarm DEF IdleUi, UiType
<1>3. ActiveAlarms' = ActiveAlarms /\ ClearedAlarms' = ClearedAlarms
  BY <1>1 DEF ActiveAlarms, ClearedAlarms
<1>4. ScreenInv'
  BY <1>0, <1>1, <1>2, <1>3 DEF ScreenInv
<1>5. RestType' /\ LockInv'
  BY <1>0, <1>1, <1>2 DEF UiType, RestType, LockInv
<1> QED BY <1>1, <1>2, <1>4, <1>5, UiMoves

LEMMA MarkInv ==
    ASSUME LInv, Mark
    PROVE  LInv' /\ Keeps
<1> DEFINE p == ui.position
           a == [ui.copy EXCEPT !.acknowledged = TRUE]
<1>0. TypeOK /\ BgType /\ UiType /\ RestType /\ EntriesStand /\ CopiesFit /\ LockInv
  BY TypeParts DEF LInv
<1>1. Fits(ui.copy, p) /\ ui.copy \in Alarm /\ ui.pc = "mark"
  BY <1>0 DEF Mark, CopiesFit, UiType
<1>2. /\ a \in Alarm /\ a.key = alarms[p].key /\ a.active
      /\ a.first_index = alarms[p].first_index /\ p \in DOMAIN alarms
  BY <1>1 DEF Fits, Alarm
<1>3. /\ alarms' = [alarms EXCEPT ![p] = a]
      /\ UNCHANGED <<open, index, reported, fired, bg, lock, snapshot, clicks, overlap>>
  BY DEF Mark
<1>4. ui'.pc = "scan" /\ UiType'
  <2>1. ui.position + 1 \in Nat
    BY <1>0 DEF UiType
  <2>2. ui' = [ui EXCEPT !.pc = "scan", !.position = ui.position + 1, !.copy = NoCopy]
    BY DEF Mark
  <2> QED BY <1>0, <2>1, <2>2, NoCopyIsAlarm DEF UiType
<1> HIDE DEF p, a
<1>5. /\ alarms' \in Seq(Alarm) /\ DOMAIN alarms' = DOMAIN alarms
      /\ alarms'[p] = a /\ Keeps
      /\ \A j \in DOMAIN alarms : j # p => alarms'[j] = alarms[j]
  <2>1. alarms \in Seq(Alarm)
    BY <1>0 DEF TypeOK
  <2> QED BY <2>1, <1>2, <1>3, PutAlarm
<1>6. TypeOK' /\ BgType' /\ RestType' /\ LockInv' /\ ScreenInv'
  BY <1>0, <1>1, <1>3, <1>4, <1>5 DEF TypeOK, BgType, RestType, LockInv, ScreenInv
<1>7. EntriesStand' /\ OpenKeys' = OpenKeys /\ NextKey' = NextKey
  BY <1>0, <1>2, <1>3, <1>5 DEF EntriesStand, OpenKeys, NextKey
<1>8. CopiesFit'
  <2>1. bg.pc \in {"update", "clear"} => Fits(bg.copy, open[NextKey])
    BY <1>0 DEF CopiesFit
  <2> QED BY <1>0, <1>3, <1>4, <1>5, <1>7, <2>1, FitsStays DEF CopiesFit, Fits
<1>9. LiveTypeOK'
  BY <1>4, <1>6 DEF LiveTypeOK, BgType, UiType, RestType
<1> QED BY <1>5, <1>6, <1>7, <1>8, <1>9 DEF LInv

-----------------------------------------------------------------------------

LEMMA LiveInitInv == LiveInit => LInv
<1> SUFFICES ASSUME LiveInit PROVE LInv
  OBVIOUS
<1>1. TypeOK
  BY DEF LiveInit, Init, TypeOK
<1>2. BgType /\ UiType /\ RestType
  <2>1. BgType
    <3>1. bg = [pc |-> "idle", todo |-> {}, copy |-> NoCopy]
      BY DEF LiveInit, IdleBg
    <3> QED BY <3>1, NoCopyIsAlarm DEF BgType
  <2>2. UiType
    <3>1. 1 \in Nat /\ {} \in SUBSET Entry
      OBVIOUS
    <3>2. ui = [pc |-> "idle", position |-> 1, copy |-> NoCopy, active |-> {}, history |-> {}]
      BY DEF LiveInit, IdleUi
    <3> QED BY <3>1, <3>2, NoCopyIsAlarm DEF UiType
  <2>3. RestType
    <3>1. snapshot = [active |-> {}, history |-> {}] /\ {} \in SUBSET Entry
      BY DEF LiveInit
    <3>2. snapshot \in [active : SUBSET Entry, history : SUBSET Entry]
      BY <3>1
    <3>3. lock = "free" /\ clicks = 0 /\ overlap = FALSE
      BY DEF LiveInit
    <3>4. clicks \in 0 .. MaxClicks
      BY <3>3, ClicksAssumption
    <3>5. overlap \in BOOLEAN
      BY <3>3, Zenon
    <3> QED BY <3>2, <3>3, <3>4, <3>5 DEF RestType
  <2> QED BY <2>1, <2>2, <2>3
<1>3. EntriesStand /\ CopiesFit /\ LockInv
  BY DEF LiveInit, Init, IdleBg, IdleUi, EntriesStand, OpenKeys, CopiesFit, LockInv
<1>4. ScreenInv
  <2>1. alarms = <<>>
    BY DEF LiveInit, Init
  <2>2. ActiveAlarms = {} /\ ClearedAlarms = {}
    BY <2>1 DEF ActiveAlarms, ClearedAlarms
  <2>3. ui.pc = "idle" /\ snapshot = [active |-> {}, history |-> {}]
    BY DEF LiveInit, IdleUi
  <2> QED BY <2>2, <2>3 DEF ScreenInv
<1> QED BY <1>1, <1>2, <1>3, <1>4, TypeParts DEF LInv

LEMMA LiveNextInv == LInv /\ [LiveNext]_liveVars => LInv' /\ Keeps
<1> SUFFICES ASSUME LInv, [LiveNext]_liveVars PROVE LInv' /\ Keeps
  OBVIOUS
<1>1. CASE \E V \in SUBSET Key : BeginAdd(V)
  BY <1>1, BeginAddInv DEF BeginAdd, log, Keeps
<1>2. CASE Working
  BY <1>2, RecordNewInv, ReadInv, WriteStandingInv, ExpireLoopInv, WriteClearedInv,
     EndAddInv, RefreshInv DEF Working
<1>3. CASE Click
  BY <1>3, ClickInv
<1>4. CASE Acknowledging
  BY <1>4, ScanInv, MarkInv, PassInv, PublishInv DEF Acknowledging
<1>5. CASE UNCHANGED liveVars
  <2>1. UNCHANGED <<log, bg, ui, lock, snapshot, clicks, overlap, alarms>>
    BY <1>5 DEF liveVars, log
  <2>2. UiType' /\ RestType' /\ LockInv' /\ ScreenInv'
    BY <2>1, TypeParts DEF LInv, UiType, RestType, LockInv, ScreenInv, ActiveAlarms,
                           ClearedAlarms
  <2>3. ui'.pc = "mark" => Fits(ui'.copy, ui'.position)
    BY <2>1 DEF LInv, CopiesFit
  <2> QED BY <2>1, <2>2, <2>3, UiMoves
<1> QED BY <1>1, <1>2, <1>3, <1>4, <1>5 DEF LiveNext

\* The strengthening holds in every reachable state.
THEOREM LiveInvariance == LiveSpec => []LInv
<1> QED BY LiveInitInv, LiveNextInv, PTL DEF LiveSpec

\* The log and both threads keep their types.
THEOREM LiveTypeCorrect == LiveSpec => []LiveTypeOK
<1> QED BY LiveInvariance, PTL DEF LInv

\* Whatever the interface thread writes back, the dictionary of record and
\* expire holds active alarms of its keys.
THEOREM EntriesCorrect == LiveSpec => []EntriesStand
<1> QED BY LiveInvariance, PTL DEF LInv

\* No write of either thread lands on another alarm.
THEOREM PositionsCorrect == LiveSpec => PositionsKept
<1>1. LInv /\ [LiveNext]_liveVars =>
        [\A i \in DOMAIN alarms : /\ i \in DOMAIN alarms'
                                  /\ alarms'[i].key = alarms[i].key
                                  /\ alarms'[i].first_index = alarms[i].first_index]_liveVars
  BY LiveNextInv DEF Keeps
<1> QED BY <1>1, LiveInvariance, PTL DEF LiveSpec, PositionsKept

\* When both threads rest the screen shows the log, for any interleaving.
THEOREM SnapshotCorrect == LiveSpec => []SnapshotCatchesUp
<1>1. LInv => SnapshotCatchesUp
  BY DEF LInv, ScreenInv, SnapshotCatchesUp
<1> QED BY <1>1, LiveInvariance, PTL

-----------------------------------------------------------------------------
(* The log while no acknowledgement overlaps an add.  QuietInv says that   *)
(* every copy is then what the log still holds, so record, expire and      *)
(* acknowledge_all do to the log what AlarmLog says they do.               *)

\* The invariant of the log inside expire: the alarms that have been quiet
\* and are not yet cleared are all among those expire has still to look at.
ExpiringInv ==
    /\ TypeOK
    /\ OpenIsActive
    /\ \A k \in Key : \A n \in fired[k] : n <= index
    /\ OpenIsLatest
    /\ \A k \in Key : open[k] = 0 => \A n \in fired[k] : index + 1 - n > ClearAfter
    /\ SpansFirings
    /\ FiringsCovered
    /\ NoFlapping
    /\ \A k \in OpenKeys \ bg.todo : QuietFor(k) < ClearAfter

LogInv == /\ bg.pc \in {"expire", "clear"} => ExpiringInv
          /\ bg.pc \notin {"expire", "clear"} => IInv

CopiesCurrent ==
    /\ bg.pc \in {"update", "clear"} => bg.copy = alarms[open[NextKey]]
    /\ bg.pc = "clear" => QuietFor(NextKey) >= ClearAfter
    /\ ui.pc = "mark" => ui.copy = alarms[ui.position]

\* No key is recorded twice in an add, and none between two adds.
RecordsOnce ==
    /\ bg.pc \in {"record", "update"} => bg.todo \cap reported = {}
    /\ bg.pc \in {"idle", "publish"} => reported = {}

Quiet == /\ Adding => ui.pc = "idle"
         /\ CopiesCurrent
         /\ RecordsOnce
         /\ OccurrencesCount
         /\ LogInv

QuietInv == ~ overlap => Quiet

\* A step that leaves the log as it is, inside one call of it.
LEMMA SameLog ==
    ASSUME UNCHANGED <<log, bg>>, LogInv, RecordsOnce, OccurrencesCount
    PROVE  LogInv' /\ RecordsOnce' /\ OccurrencesCount' /\ Adding' = Adding
<1>1. UNCHANGED <<alarms, open, index, reported, fired, bg>>
  BY DEF log
<1>2. UNCHANGED vars
  BY <1>1 DEF vars
<1>3. OccurrencesCount'
  BY <1>1, SameCounts
<1>4. IInv => IInv'
  BY <1>2, StutterIInv
<1>5. ExpiringInv => ExpiringInv'
  BY <1>1 DEF ExpiringInv, TypeOK, OpenIsActive, OpenIsLatest, SpansFirings, FiringsCovered,
              NoFlapping, Spans, OpenKeys, QuietFor
<1>6. LogInv' /\ RecordsOnce' /\ Adding' = Adding
  BY <1>1, <1>4, <1>5 DEF LogInv, RecordsOnce, Adding
<1> QED BY <1>3, <1>6

\* What the log says does not depend on where the background thread is, as
\* long as the thread is not inside expire.
LEMMA SameLogOutside ==
    ASSUME UNCHANGED log, IInv, OccurrencesCount, bg'.pc \notin {"expire", "clear"}
    PROVE  LogInv' /\ OccurrencesCount'
<1>1. UNCHANGED <<alarms, open, index, reported, fired>>
  BY DEF log
<1>2. UNCHANGED vars
  BY <1>1 DEF vars
<1>3. OccurrencesCount'
  BY <1>1, SameCounts
<1> QED BY <1>2, <1>3, StutterIInv DEF LogInv

LEMMA BeginAddQuiet ==
    ASSUME LInv, QuietInv, NEW V \in SUBSET Key, BeginAdd(V)
    PROVE  QuietInv'
<1> SUFFICES ASSUME ~ overlap'
             PROVE  Quiet'
  BY DEF QuietInv
<1>0. BgType /\ Quiet /\ ui.pc = "idle" /\ bg.pc = "idle"
  BY TypeParts DEF LInv, BeginAdd, QuietInv
<1>1. bg'.pc = "record" /\ UNCHANGED <<log, ui>>
  BY <1>0 DEF BeginAdd, BgType
<1>2. LogInv' /\ OccurrencesCount'
  BY <1>0, <1>1, SameLogOutside DEF Quiet, LogInv
<1>3. reported' = {}
  BY <1>0, <1>1 DEF Quiet, RecordsOnce, log
<1>4. CopiesCurrent' /\ RecordsOnce'
  BY <1>0, <1>1, <1>3 DEF CopiesCurrent, RecordsOnce
<1> QED BY <1>0, <1>1, <1>2, <1>4 DEF Quiet

\* record, for a key whose alarm does not stand: one step of AlarmLog.
LEMMA RecordNewQuiet ==
    ASSUME LInv, QuietInv, RecordNew
    PROVE  QuietInv'
<1> SUFFICES ASSUME ~ overlap'
             PROVE  Quiet'
  BY DEF QuietInv
<1> DEFINE k == NextKey
<1>0. BgType /\ Quiet /\ ui.pc = "idle" /\ bg.pc = "record" /\ ui' = ui
  BY TypeParts DEF LInv, RecordNew, QuietInv, Quiet, Adding
<1>1. k \in Key /\ k \in bg.todo
  BY <1>0, NextKeyInTodo DEF RecordNew
<1>2. bg'.pc = "record" /\ bg'.todo = bg.todo \ {k}
  BY <1>0 DEF RecordNew, BgType
<1>3. bg.todo \cap reported = {}
  BY <1>0 DEF Quiet, RecordsOnce
<1>4. Record(k) /\ Raise(k)
  BY <1>1, <1>3 DEF RecordNew, Fired, Record
<1>5. IInv /\ OccurrencesCount
  BY <1>0 DEF Quiet, LogInv
<1>6. IInv' /\ OccurrencesCount'
  BY <1>1, <1>4, <1>5, RaiseIInv, RaiseCounts
<1>7. reported' = reported \cup {k}
  BY <1>4 DEF Record
<1>8. CopiesCurrent' /\ RecordsOnce'
  BY <1>0, <1>2, <1>3, <1>7 DEF CopiesCurrent, RecordsOnce
<1> QED BY <1>0, <1>2, <1>6, <1>8 DEF Quiet, LogInv

LEMMA ReadStandingQuiet ==
    ASSUME LInv, QuietInv, ReadStanding
    PROVE  QuietInv'
<1> SUFFICES ASSUME ~ overlap'
             PROVE  Quiet'
  BY DEF QuietInv
<1>0. BgType /\ Quiet /\ ui.pc = "idle" /\ bg.pc = "record" /\ UNCHANGED <<log, ui>>
  BY TypeParts DEF LInv, ReadStanding, QuietInv, Quiet, Adding
<1>1. /\ bg'.pc = "update" /\ bg'.todo = bg.todo
      /\ bg'.copy = alarms[open[NextKey]]
  BY <1>0 DEF ReadStanding, BgType
<1>2. NextKey' = NextKey /\ UNCHANGED <<alarms, open, reported>>
  BY <1>0, <1>1 DEF NextKey, log
<1>3. LogInv' /\ OccurrencesCount'
  BY <1>0, <1>1, SameLogOutside DEF Quiet, LogInv
<1>4. CopiesCurrent' /\ RecordsOnce'
  BY <1>0, <1>1, <1>2 DEF Quiet, CopiesCurrent, RecordsOnce
<1> QED BY <1>0, <1>1, <1>3, <1>4 DEF Quiet

\* The copy is what stands in the list, so the write is record's update.
LEMMA WriteStandingQuiet ==
    ASSUME LInv, QuietInv, WriteStanding
    PROVE  QuietInv'
<1> SUFFICES ASSUME ~ overlap'
             PROVE  Quiet'
  BY DEF QuietInv
<1> DEFINE k == NextKey
<1>0. BgType /\ Quiet /\ CopiesFit /\ ui.pc = "idle" /\ bg.pc = "update" /\ ui' = ui
  BY TypeParts DEF LInv, WriteStanding, QuietInv, Quiet, Adding
<1>1. bg.todo # {} /\ open[k] # 0
  BY <1>0 DEF CopiesFit
<1>2. k \in Key /\ k \in bg.todo
  BY <1>0, <1>1, NextKeyInTodo
<1>3. bg'.pc = "record" /\ bg'.todo = bg.todo \ {k}
  BY <1>0 DEF WriteStanding, BgType
<1>4. bg.todo \cap reported = {} /\ bg.copy = alarms[open[k]]
  BY <1>0 DEF Quiet, RecordsOnce, CopiesCurrent
<1>5. Update(k)
  BY <1>1, <1>4 DEF WriteStanding, Update
<1>6. Record(k)
  BY <1>2, <1>4, <1>5 DEF WriteStanding, Fired, Record
<1>7. IInv /\ OccurrencesCount
  BY <1>0 DEF Quiet, LogInv
<1>8. IInv' /\ OccurrencesCount'
  BY <1>2, <1>5, <1>6, <1>7, UpdateIInv, UpdateCounts
<1>9. reported' = reported \cup {k}
  BY <1>6 DEF Record
<1>10. CopiesCurrent' /\ RecordsOnce'
  BY <1>0, <1>3, <1>4, <1>9 DEF CopiesCurrent, RecordsOnce
<1> QED BY <1>0, <1>3, <1>8, <1>10 DEF Quiet, LogInv

\* expire begins: every standing alarm is still to be looked at.
LEMMA BeginExpireQuiet ==
    ASSUME LInv, QuietInv, BeginExpire
    PROVE  QuietInv'
<1> SUFFICES ASSUME ~ overlap'
             PROVE  Quiet'
  BY DEF QuietInv
<1>0. BgType /\ Quiet /\ ui.pc = "idle" /\ bg.pc = "record" /\ UNCHANGED <<log, ui>>
  BY TypeParts DEF LInv, BeginExpire, QuietInv, Quiet, Adding
<1>1. bg'.pc = "expire" /\ bg'.todo = OpenKeys
  BY <1>0 DEF BeginExpire, BgType
<1>2. UNCHANGED <<alarms, open, index, reported, fired>>
  BY <1>0 DEF log
<1>3. IInv /\ OccurrencesCount
  BY <1>0 DEF Quiet, LogInv
<1>4. UNCHANGED vars
  BY <1>2 DEF vars
<1>5. IInv' /\ OccurrencesCount'
  BY <1>2, <1>3, <1>4, StutterIInv, SameCounts
<1>6. \A k \in Key : open'[k] = 0 => \A n \in fired'[k] : index' + 1 - n > ClearAfter
  <2> SUFFICES ASSUME NEW k \in Key, open[k] = 0, NEW n \in fired[k]
               PROVE  index + 1 - n > ClearAfter
    BY <1>2
  <2>1. index - n > ClearAfter
    BY <1>3 DEF IInv, SilentWhenClosed
  <2>2. index \in Nat /\ n \in Nat
    BY <1>3 DEF IInv, TypeOK
  <2> QED BY <2>1, <2>2, ClearAfterAssumption
<1>7. OpenKeys' = OpenKeys
  BY <1>2 DEF OpenKeys
<1>8. \A k \in Key : \A n \in fired'[k] : n <= index'
  BY <1>5 DEF IInv, FiringsInThePast
<1>9. ExpiringInv'
  BY <1>1, <1>5, <1>6, <1>7, <1>8 DEF IInv, ExpiringInv
<1>10. CopiesCurrent' /\ RecordsOnce'
  BY <1>0, <1>1 DEF CopiesCurrent, RecordsOnce
<1> QED BY <1>0, <1>1, <1>5, <1>9, <1>10 DEF Quiet, LogInv

\* The log inside expire, when the thread only reads it.
LEMMA SameExpiring ==
    ASSUME UNCHANGED log, ExpiringInv, OccurrencesCount, bg'.pc \in {"expire", "clear"},
           \A k \in OpenKeys \ bg'.todo : QuietFor(k) < ClearAfter
    PROVE  LogInv' /\ OccurrencesCount'
<1>1. UNCHANGED <<alarms, open, index, reported, fired>>
  BY DEF log
<1>2. OccurrencesCount'
  BY <1>1, SameCounts
<1>3. \A k \in OpenKeys' \ bg'.todo : QuietFor(k)' < ClearAfter
  BY <1>1 DEF OpenKeys, QuietFor
<1>4. ExpiringInv'
  BY <1>1, <1>3 DEF ExpiringInv, TypeOK, OpenIsActive, OpenIsLatest, SpansFirings,
                    FiringsCovered, NoFlapping, Spans, OpenKeys, QuietFor
<1> QED BY <1>2, <1>4 DEF LogInv

LEMMA KeepStandingQuiet ==
    ASSUME LInv, QuietInv, KeepStanding
    PROVE  QuietInv'
<1> SUFFICES ASSUME ~ overlap'
             PROVE  Quiet'
  BY DEF QuietInv
<1> DEFINE k == NextKey
<1>0. BgType /\ Quiet /\ ui.pc = "idle" /\ bg.pc = "expire" /\ UNCHANGED <<log, ui>>
  BY TypeParts DEF LInv, KeepStanding, QuietInv, Quiet, Adding
<1>1. bg'.pc = "expire" /\ bg'.todo = bg.todo \ {k}
  BY <1>0 DEF KeepStanding, BgType
<1>2. ExpiringInv /\ OccurrencesCount
  BY <1>0 DEF Quiet, LogInv
<1>3. \A j \in OpenKeys \ bg'.todo : QuietFor(j) < ClearAfter
  BY <1>1, <1>2 DEF KeepStanding, ExpiringInv
<1>4. LogInv' /\ OccurrencesCount'
  BY <1>0, <1>1, <1>2, <1>3, SameExpiring
<1>5. CopiesCurrent' /\ RecordsOnce'
  BY <1>0, <1>1 DEF CopiesCurrent, RecordsOnce
<1> QED BY <1>0, <1>1, <1>4, <1>5 DEF Quiet

LEMMA ReadQuietQuiet ==
    ASSUME LInv, QuietInv, ReadQuiet
    PROVE  QuietInv'
<1> SUFFICES ASSUME ~ overlap'
             PROVE  Quiet'
  BY DEF QuietInv
<1>0. BgType /\ Quiet /\ ui.pc = "idle" /\ bg.pc = "expire" /\ UNCHANGED <<log, ui>>
  BY TypeParts DEF LInv, ReadQuiet, QuietInv, Quiet, Adding
<1>1. /\ bg'.pc = "clear" /\ bg'.todo = bg.todo
      /\ bg'.copy = alarms[open[NextKey]] /\ QuietFor(NextKey) >= ClearAfter
  BY <1>0 DEF ReadQuiet, BgType
<1>2. NextKey' = NextKey /\ UNCHANGED <<alarms, open, index>>
  BY <1>0, <1>1 DEF NextKey, log
<1>3. ExpiringInv /\ OccurrencesCount
  BY <1>0 DEF Quiet, LogInv
<1>4. LogInv' /\ OccurrencesCount'
  BY <1>0, <1>1, <1>3, SameExpiring DEF ExpiringInv
<1>5. CopiesCurrent' /\ RecordsOnce'
  BY <1>0, <1>1, <1>2 DEF CopiesCurrent, RecordsOnce, QuietFor
<1> QED BY <1>0, <1>1, <1>4, <1>5 DEF Quiet

\* The copy is what stands in the list, so the write clears that alarm and
\* changes nothing else of it.
LEMMA WriteClearedQuiet ==
    ASSUME LInv, QuietInv, WriteCleared
    PROVE  QuietInv'
<1> SUFFICES ASSUME ~ overlap'
             PROVE  Quiet'
  BY DEF QuietInv
<1> DEFINE k == NextKey
           p == open[k]
           a == [bg.copy EXCEPT !.active = FALSE]
<1>0. BgType /\ Quiet /\ CopiesFit /\ ui.pc = "idle" /\ bg.pc = "clear" /\ ui' = ui
  BY TypeParts DEF LInv, WriteCleared, QuietInv, Quiet, Adding
<1>1. ExpiringInv /\ OccurrencesCount /\ bg.copy = alarms[p] /\ QuietFor(k) >= ClearAfter
  BY <1>0 DEF Quiet, LogInv, CopiesCurrent
<1>2. bg.todo # {} /\ p # 0 /\ bg.copy \in Alarm /\ bg.todo \subseteq OpenKeys
  BY <1>0 DEF CopiesFit, BgType
<1>3. k \in Key /\ k \in bg.todo
  BY <1>0, <1>2, NextKeyInTodo
<1>4. bg'.pc = "expire" /\ bg'.todo = bg.todo \ {k}
  BY <1>0 DEF WriteCleared, BgType
<1>5. /\ a \in Alarm /\ a.key = alarms[p].key /\ a.first_index = alarms[p].first_index
      /\ a.last_index = alarms[p].last_index /\ a.occurrences = alarms[p].occurrences
      /\ a.active = FALSE
  BY <1>1, <1>2 DEF Alarm
<1>6. /\ TypeOK /\ OpenIsActive /\ OpenIsLatest /\ SpansFirings /\ FiringsCovered
      /\ NoFlapping
  BY <1>1 DEF ExpiringInv
<1>7. /\ p \in DOMAIN alarms /\ alarms[p].key = k
      /\ alarms \in Seq(Alarm) /\ open \in [Key -> Nat] /\ index \in Nat
      /\ fired \in [Key -> SUBSET Nat]
  BY <1>2, <1>3, <1>6 DEF OpenIsActive, TypeOK
<1>8. /\ alarms' = [alarms EXCEPT ![p] = a]
      /\ open' = [open EXCEPT ![k] = 0]
      /\ UNCHANGED <<index, reported, fired>>
  BY DEF WriteCleared
<1>9. index - alarms[p].last_index >= ClearAfter
  BY <1>1 DEF QuietFor
<1> HIDE DEF k, p, a
<1>10. /\ alarms' \in Seq(Alarm) /\ DOMAIN alarms' = DOMAIN alarms
       /\ alarms'[p] = a
       /\ \A j \in DOMAIN alarms : j # p => alarms'[j] = alarms[j]
  BY <1>5, <1>7, <1>8, PutAlarm
<1>11. \A j \in DOMAIN alarms :
          /\ alarms'[j].key = alarms[j].key
          /\ alarms'[j].first_index = alarms[j].first_index
          /\ alarms'[j].last_index = alarms[j].last_index
          /\ alarms'[j].occurrences = alarms[j].occurrences
  BY <1>5, <1>10
<1>12. OccurrencesCount'
  BY <1>1, <1>8, <1>10, <1>11, SameCounts
<1>13. TypeOK'
  BY <1>6, <1>7, <1>8, <1>10 DEF TypeOK
<1>14. /\ open'[k] = 0
       /\ \A j \in Key : j # k => open'[j] = open[j]
       /\ \A j \in Key : j # k => open[j] # p
  BY <1>3, <1>6, <1>7, <1>8 DEF OpenIsActive
<1>15. OpenIsActive'
  <2>1. ASSUME NEW j \in Key, open'[j] # 0
        PROVE  /\ open'[j] \in DOMAIN alarms'
               /\ alarms'[open'[j]].key = j
               /\ alarms'[open'[j]].active
    <3>1. open'[j] = open[j] /\ open[j] # p /\ open[j] # 0
      BY <2>1, <1>14
    <3> QED BY <3>1, <1>6, <1>10 DEF OpenIsActive
  <2>2. ASSUME NEW i \in DOMAIN alarms', alarms'[i].active
        PROVE  open'[alarms'[i].key] = i
    <3>1. i # p /\ i \in DOMAIN alarms /\ alarms'[i] = alarms[i]
      BY <2>2, <1>5, <1>10
    <3>2. alarms[i] \in Alarm
      BY <3>1, <1>7
    <3>3. alarms[i].key \in Key
      BY <3>2 DEF Alarm
    <3>4. open[alarms[i].key] = i
      BY <2>2, <3>1, <1>6 DEF OpenIsActive
    <3>5. alarms[i].key # k
      BY <3>1, <3>4 DEF p
    <3> QED BY <3>1, <3>3, <3>4, <3>5, <1>14
  <2> QED BY <2>1, <2>2 DEF OpenIsActive
<1>16. \A j \in Key : \A n \in fired'[j] : n <= index'
  BY <1>1, <1>8 DEF ExpiringInv
<1>17. OpenIsLatest'
  <2> SUFFICES ASSUME NEW j \in Key, open'[j] # 0
               PROVE  /\ \A n \in fired[j] : n <= alarms'[open'[j]].last_index
                      /\ index - alarms'[open'[j]].last_index <= ClearAfter
                      /\ \A i \in DOMAIN alarms : alarms'[i].key = j => i <= open'[j]
    BY <1>8, <1>10 DEF OpenIsLatest
  <2>1. open'[j] = open[j] /\ open[j] # 0 /\ open[j] \in DOMAIN alarms
    BY <1>6, <1>14 DEF OpenIsActive
  <2> QED BY <2>1, <1>6, <1>11 DEF OpenIsLatest
<1>18. \A j \in Key : open'[j] = 0 => \A n \in fired'[j] : index' + 1 - n > ClearAfter
  <2> SUFFICES ASSUME NEW j \in Key, open'[j] = 0, NEW n \in fired[j]
               PROVE  index + 1 - n > ClearAfter
    BY <1>8
  <2>1. CASE j = k
    <3>1. n <= alarms[p].last_index
      BY <2>1, <1>2, <1>3, <1>6 DEF OpenIsLatest, p
    <3>2. alarms[p] \in Alarm /\ n \in Nat
      BY <1>7
    <3>3. alarms[p].last_index \in Nat
      BY <3>2 DEF Alarm
    <3> QED BY <3>1, <3>2, <3>3, <1>7, <1>9, ClearAfterAssumption
  <2>2. CASE j # k
    BY <2>2, <1>1, <1>14 DEF ExpiringInv
  <2> QED BY <2>1, <2>2
<1>19. SpansFirings' /\ NoFlapping'
  BY <1>6, <1>8, <1>10, <1>11 DEF SpansFirings, NoFlapping
<1>20. FiringsCovered'
  BY <1>6, <1>8, <1>10, <1>11 DEF FiringsCovered, Spans
<1>21. \A j \in OpenKeys' \ bg'.todo : QuietFor(j)' < ClearAfter
  <2> SUFFICES ASSUME NEW j \in OpenKeys' \ bg'.todo
               PROVE  index - alarms'[open'[j]].last_index < ClearAfter
    BY <1>8 DEF QuietFor
  <2>1. j \in Key /\ open'[j] # 0
    BY DEF OpenKeys
  <2>2. j # k /\ open'[j] = open[j] /\ open[j] # 0
    BY <2>1, <1>14
  <2>3. j \in OpenKeys \ bg.todo /\ open[j] \in DOMAIN alarms
    BY <2>1, <2>2, <1>4, <1>6 DEF OpenKeys, OpenIsActive
  <2>4. QuietFor(j) < ClearAfter
    BY <2>3, <1>1 DEF ExpiringInv
  <2> QED BY <2>2, <2>3, <2>4, <1>11 DEF QuietFor
<1>22. ExpiringInv'
  BY <1>13, <1>15, <1>16, <1>17, <1>18, <1>19, <1>20, <1>21 DEF ExpiringInv
<1>23. CopiesCurrent' /\ RecordsOnce'
  BY <1>0, <1>4 DEF CopiesCurrent, RecordsOnce
<1> QED BY <1>0, <1>4, <1>12, <1>22, <1>23 DEF Quiet, LogInv

\* expire has looked at every standing alarm: those left have fired recently,
\* also as the next subgroup will see it.
LEMMA EndAddQuiet ==
    ASSUME LInv, QuietInv, EndAdd
    PROVE  QuietInv'
<1> SUFFICES ASSUME ~ overlap'
             PROVE  Quiet'
  BY DEF QuietInv
<1>0. BgType /\ Quiet /\ ui.pc = "idle" /\ bg.pc = "expire" /\ bg.todo = {} /\ ui' = ui
  BY TypeParts DEF LInv, EndAdd, QuietInv, Quiet, Adding
<1>1. bg'.pc = "publish"
  BY <1>0 DEF EndAdd, BgType
<1>2. index' = index + 1 /\ reported' = {} /\ UNCHANGED <<alarms, open, fired>>
  BY DEF EndAdd
<1>3. ExpiringInv /\ OccurrencesCount
  BY <1>0 DEF Quiet, LogInv
<1>4. OccurrencesCount'
  BY <1>2, <1>3, SameCounts
<1>5. TypeOK' /\ OpenIsActive' /\ SpansFirings' /\ FiringsCovered' /\ NoFlapping'
  BY <1>2, <1>3 DEF ExpiringInv, TypeOK, OpenIsActive, SpansFirings, FiringsCovered,
                    NoFlapping, Spans
<1>6. index \in Nat /\ fired \in [Key -> SUBSET Nat]
  BY <1>3 DEF ExpiringInv, TypeOK
<1>7. FiringsInThePast'
  <2> SUFFICES ASSUME NEW k \in Key, NEW n \in fired[k]
               PROVE  n <= index + 1 /\ n < index + 1
    BY <1>2 DEF FiringsInThePast
  <2>1. n <= index /\ n \in Nat
    BY <1>3, <1>6 DEF ExpiringInv
  <2> QED BY <2>1, <1>6
<1>8. SilentWhenClosed'
  <2>1. \A k \in Key : open[k] = 0 => \A n \in fired[k] : index + 1 - n > ClearAfter
    BY <1>3 DEF ExpiringInv
  <2> QED BY <2>1, <1>2, <1>6 DEF SilentWhenClosed
<1>9. OpenIsLatest'
  <2> SUFFICES ASSUME NEW k \in Key, open[k] # 0
               PROVE  /\ \A n \in fired[k] : n <= alarms[open[k]].last_index
                      /\ index' - alarms[open[k]].last_index <= ClearAfter
                      /\ \A i \in DOMAIN alarms : alarms[i].key = k => i <= open[k]
    <3>1. UNCHANGED <<alarms, open, fired>>
      BY <1>2
    <3> QED BY <3>1 DEF OpenIsLatest
  <2>1. index - alarms[open[k]].last_index < ClearAfter
    BY <1>0, <1>3 DEF ExpiringInv, OpenKeys, QuietFor
  <2>2. open[k] \in DOMAIN alarms
    BY <1>3 DEF ExpiringInv, OpenIsActive
  <2>3. alarms[open[k]] \in Alarm
    BY <2>2, <1>3 DEF ExpiringInv, TypeOK
  <2>4. alarms[open[k]].last_index \in Nat
    BY <2>3 DEF Alarm
  <2>5. index' - alarms[open[k]].last_index <= ClearAfter
    BY <2>1, <2>4, <1>2, <1>6, ClearAfterAssumption
  <2> QED BY <2>5, <1>3 DEF ExpiringInv, OpenIsLatest
<1>10. IInv'
  BY <1>5, <1>7, <1>8, <1>9 DEF IInv
<1>11. CopiesCurrent' /\ RecordsOnce'
  BY <1>0, <1>1, <1>2 DEF CopiesCurrent, RecordsOnce
<1> QED BY <1>0, <1>1, <1>4, <1>10, <1>11 DEF Quiet, LogInv

LEMMA RefreshQuiet ==
    ASSUME LInv, QuietInv, Refresh
    PROVE  QuietInv'
<1> SUFFICES ASSUME ~ overlap'
             PROVE  Quiet'
  BY DEF QuietInv
<1>0. LockInv /\ Quiet /\ bg.pc = "publish" /\ lock = "free" /\ UNCHANGED <<log, ui>>
  BY DEF LInv, Refresh, QuietInv
<1>1. bg'.pc = "idle" /\ ui.pc = "idle"
  BY <1>0 DEF Refresh, IdleBg, LockInv
<1>2. LogInv' /\ OccurrencesCount'
  BY <1>0, <1>1, SameLogOutside DEF Quiet, LogInv
<1>3. CopiesCurrent' /\ RecordsOnce'
  BY <1>0, <1>1 DEF Quiet, CopiesCurrent, RecordsOnce, log
<1> QED BY <1>0, <1>1, <1>2, <1>3 DEF Quiet, Adding

\* A step of the interface thread that does not write the log.
LEMMA UiQuiet ==
    ASSUME Quiet, UNCHANGED <<log, bg>>, Adding => ui'.pc = "idle",
           ui'.pc = "mark" => ui'.copy = alarms[ui'.position]
    PROVE  Quiet'
<1>1. UNCHANGED <<alarms, open, index, bg>>
  BY DEF log
<1>2. LogInv' /\ RecordsOnce' /\ OccurrencesCount' /\ Adding' = Adding
  BY SameLog DEF Quiet
<1>3. CopiesCurrent'
  BY <1>1 DEF Quiet, CopiesCurrent, NextKey, QuietFor
<1> QED BY <1>2, <1>3 DEF Quiet

LEMMA ClickQuiet ==
    ASSUME LInv, QuietInv, Click
    PROVE  QuietInv'
<1> SUFFICES ASSUME ~ overlap'
             PROVE  Quiet'
  BY DEF QuietInv
<1>1. Quiet /\ ~ Adding /\ UNCHANGED <<log, bg>>
  BY DEF Click, QuietInv
<1>2. ui'.pc = "scan"
  BY DEF Click, IdleUi
<1> QED BY <1>1, <1>2, UiQuiet

LEMMA ScanQuiet ==
    ASSUME LInv, QuietInv, Scan
    PROVE  QuietInv'
<1> SUFFICES ASSUME ~ overlap'
             PROVE  Quiet'
  BY DEF QuietInv
<1>1. UiType /\ Quiet /\ UNCHANGED <<log, bg>> /\ ui.pc = "scan"
  BY TypeParts DEF LInv, Scan, QuietInv
<1>2. ~ Adding
  BY <1>1 DEF Quiet
<1>3. ui'.pc = "mark" => ui'.copy = alarms[ui'.position]
  BY <1>1 DEF Scan, UiType
<1> QED BY <1>1, <1>2, <1>3, UiQuiet

LEMMA PassQuiet ==
    ASSUME LInv, QuietInv, ReadActive \/ ReadHistory \/ Publish
    PROVE  QuietInv'
<1> SUFFICES ASSUME ~ overlap'
             PROVE  Quiet'
  BY DEF QuietInv
<1>1. UiType /\ Quiet /\ UNCHANGED <<log, bg>> /\ ui.pc # "idle"
  BY TypeParts DEF LInv, ReadActive, ReadHistory, Publish, QuietInv
<1>2. ~ Adding
  BY <1>1 DEF Quiet
<1>3. ui'.pc # "mark"
  <2>1. CASE ReadActive
    BY <2>1, <1>1 DEF ReadActive, UiType
  <2>2. CASE ReadHistory
    BY <2>2, <1>1 DEF ReadHistory, UiType
  <2>3. CASE Publish
    BY <2>3 DEF Publish, IdleUi
  <2> QED BY <2>1, <2>2, <2>3
<1> QED BY <1>1, <1>2, <1>3, UiQuiet

\* No add is under way, so the copy is what stands in the list and the write
\* changes nothing of the alarm but its acknowledgement.
LEMMA MarkQuiet ==
    ASSUME LInv, QuietInv, Mark
    PROVE  QuietInv'
<1> SUFFICES ASSUME ~ overlap'
             PROVE  Quiet'
  BY DEF QuietInv
<1> DEFINE p == ui.position
           a == [ui.copy EXCEPT !.acknowledged = TRUE]
<1>0. /\ BgType /\ UiType /\ CopiesFit /\ Quiet /\ ui.pc = "mark"
      /\ UNCHANGED <<open, index, reported, fired, bg>>
  BY TypeParts DEF LInv, Mark, QuietInv
<1>1. ~ Adding /\ bg.pc \in {"idle", "publish"} /\ OccurrencesCount /\ ui.copy = alarms[p]
  BY <1>0 DEF Quiet, Adding, CopiesCurrent
<1>2. IInv /\ alarms \in Seq(Alarm) /\ p \in DOMAIN alarms /\ ui.copy \in Alarm
  BY <1>0, <1>1 DEF Quiet, LogInv, IInv, TypeOK, CopiesFit, Fits, UiType
<1>3. /\ a \in Alarm /\ a.key = alarms[p].key /\ a.first_index = alarms[p].first_index
      /\ a.last_index = alarms[p].last_index /\ a.occurrences = alarms[p].occurrences
      /\ a.active = alarms[p].active
  BY <1>1, <1>2 DEF Alarm
<1>4. alarms' = [alarms EXCEPT ![p] = a]
  BY DEF Mark
<1>5. ui'.pc = "scan"
  BY <1>0 DEF Mark, UiType
<1> HIDE DEF p, a
<1>6. /\ alarms' \in Seq(Alarm) /\ DOMAIN alarms' = DOMAIN alarms
      /\ alarms'[p] = a
      /\ \A j \in DOMAIN alarms : j # p => alarms'[j] = alarms[j]
  BY <1>2, <1>3, <1>4, PutAlarm
<1>7. \A j \in DOMAIN alarms :
         /\ alarms'[j].key = alarms[j].key
         /\ alarms'[j].first_index = alarms[j].first_index
         /\ alarms'[j].last_index = alarms[j].last_index
         /\ alarms'[j].occurrences = alarms[j].occurrences
         /\ alarms'[j].active = alarms[j].active
  <2> SUFFICES ASSUME NEW j \in DOMAIN alarms
               PROVE  /\ alarms'[j].key = alarms[j].key
                      /\ alarms'[j].first_index = alarms[j].first_index
                      /\ alarms'[j].last_index = alarms[j].last_index
                      /\ alarms'[j].occurrences = alarms[j].occurrences
                      /\ alarms'[j].active = alarms[j].active
    OBVIOUS
  <2>1. CASE j = p
    BY <2>1, <1>3, <1>6, Zenon
  <2>2. CASE j # p
    BY <2>2, <1>6, Zenon
  <2> QED BY <2>1, <2>2
<1>8. IInv'
  BY <1>0, <1>2, <1>6, <1>7, SameSpans
<1>9. OccurrencesCount'
  BY <1>0, <1>1, <1>6, <1>7, SameCounts
<1>10. CopiesCurrent' /\ RecordsOnce' /\ Adding' = Adding
  BY <1>0, <1>1, <1>5 DEF Quiet, CopiesCurrent, RecordsOnce, Adding
<1> QED BY <1>0, <1>1, <1>8, <1>9, <1>10 DEF Quiet, LogInv

LEMMA QuietInit == LiveInit => QuietInv
<1> SUFFICES ASSUME LiveInit PROVE Quiet
  BY DEF QuietInv
<1>1. bg.pc = "idle" /\ ui.pc = "idle" /\ reported = {} /\ alarms = <<>>
  BY DEF LiveInit, Init, IdleBg, IdleUi
<1>2. IInv
  BY InitIInv DEF LiveInit
<1> QED BY <1>1, <1>2 DEF Quiet, Adding, CopiesCurrent, RecordsOnce, OccurrencesCount, LogInv

LEMMA QuietNext == LInv /\ QuietInv /\ [LiveNext]_liveVars => QuietInv'
<1> SUFFICES ASSUME LInv, QuietInv, [LiveNext]_liveVars PROVE QuietInv'
  OBVIOUS
<1>1. CASE \E V \in SUBSET Key : BeginAdd(V)
  BY <1>1, BeginAddQuiet
<1>2. CASE Working
  BY <1>2, RecordNewQuiet, ReadStandingQuiet, WriteStandingQuiet, BeginExpireQuiet,
     KeepStandingQuiet, ReadQuietQuiet, WriteClearedQuiet, EndAddQuiet, RefreshQuiet
     DEF Working
<1>3. CASE Click
  BY <1>3, ClickQuiet
<1>4. CASE Acknowledging
  BY <1>4, ScanQuiet, MarkQuiet, PassQuiet DEF Acknowledging
<1>5. CASE UNCHANGED liveVars
  <2>1. UNCHANGED <<log, bg>> /\ ui' = ui /\ overlap' = overlap /\ UNCHANGED alarms
    BY <1>5 DEF liveVars, log
  <2>2. Quiet => Quiet'
    BY <2>1, UiQuiet DEF Quiet, CopiesCurrent
  <2> QED BY <2>1, <2>2 DEF QuietInv
<1> QED BY <1>1, <1>2, <1>3, <1>4, <1>5 DEF LiveNext

\* Until an acknowledgement overlaps an add, the log is exact after every add:
\* the steps of the two threads are then whole calls of AlarmLog.
THEOREM ExactCorrect == LiveSpec => []ExactWithoutOverlap
<1>1. QuietInv => ExactWithoutOverlap
  BY StandsByIInv DEF QuietInv, Quiet, LogInv, IInv, Adding, ExactWithoutOverlap
<1> QED BY <1>1, QuietInit, QuietNext, LiveInvariance, PTL DEF LiveSpec

-----------------------------------------------------------------------------
(* The two threads implement AlarmLog until an acknowledgement overlaps an *)
(* add.  A step of expire or acknowledge_all after the first one does what *)
(* the call was going to do anyway, and is a stutter of the whole calls.   *)

Marking == ui.pc \in {"scan", "mark"}

\* An add is within the bound, and what acknowledge_all has passed is marked.
SeenBefore ==
    Marking => /\ ui.position # 0
               /\ \A i \in DOMAIN alarms :
                    i < ui.position /\ alarms[i].active => alarms[i].acknowledged
WholeInv == (Adding => index < MaxIndex) /\ (~ overlap => SeenBefore)

LEMMA WholeInvInit == LiveInit => WholeInv
BY DEF LiveInit, WholeInv, SeenBefore, Marking, Adding, IdleBg, IdleUi

\* An overlap stays on record.
LEMMA OverlapStays ==
    ASSUME LInv, [LiveNext]_liveVars, ~ overlap'
    PROVE  ~ overlap
<1>1. overlap \in BOOLEAN
  BY TypeParts DEF LInv, RestType
<1> QED BY <1>1 DEF LiveNext, BeginAdd, Working, RecordNew, ReadStanding, WriteStanding,
      BeginExpire, KeepStanding, ReadQuiet, WriteCleared, EndAdd, Refresh, Click,
      Acknowledging, Scan, Mark, ReadActive, ReadHistory, Publish, liveVars

LEMMA BoundKept ==
    ASSUME LInv, Adding => index < MaxIndex, [LiveNext]_liveVars
    PROVE  (Adding => index < MaxIndex)'
<1>1. BgType
  BY TypeParts DEF LInv
<1>2. CASE \E V \in SUBSET Key : BeginAdd(V)
  BY <1>2 DEF BeginAdd, log
<1>3. CASE RecordNew \/ WriteStanding \/ WriteCleared
  BY <1>1, <1>3 DEF RecordNew, WriteStanding, WriteCleared, Adding, BgType
<1>4. CASE ReadStanding \/ BeginExpire \/ KeepStanding \/ ReadQuiet
  BY <1>1, <1>4 DEF ReadStanding, BeginExpire, KeepStanding, ReadQuiet, Adding, BgType, log
<1>5. CASE EndAdd \/ Refresh
  BY <1>1, <1>5 DEF EndAdd, Refresh, Adding, BgType, IdleBg
<1>6. CASE Click \/ Acknowledging \/ UNCHANGED liveVars
  BY <1>6 DEF Click, Acknowledging, Scan, Mark, ReadActive, ReadHistory, Publish, Adding, log,
              liveVars
<1> QED BY <1>2, <1>3, <1>4, <1>5, <1>6 DEF LiveNext, Working

\* Without an overlap nothing but the marking itself happens meanwhile.
LEMMA SeenKept ==
    ASSUME LInv, QuietInv, WholeInv, [LiveNext]_liveVars, ~ overlap'
    PROVE  SeenBefore'
<1>1. UiType /\ BgType /\ CopiesFit /\ LockInv /\ TypeOK
  BY TypeParts DEF LInv
<1>2. ~ overlap /\ SeenBefore /\ Quiet
  BY OverlapStays DEF WholeInv, QuietInv
<1>3. CASE \E V \in SUBSET Key : BeginAdd(V)
  <2>1. ui.pc = "idle" /\ ui' = ui
    BY <1>3 DEF BeginAdd
  <2> QED BY <2>1 DEF SeenBefore, Marking
<1>4. CASE Working
  <2>1. ui' = ui /\ (Adding \/ Refresh)
    BY <1>4 DEF Working, RecordNew, ReadStanding, WriteStanding, BeginExpire, KeepStanding,
                ReadQuiet, WriteCleared, EndAdd, Refresh, Adding
  <2>2. ui.pc = "idle"
    BY <2>1, <1>1, <1>2 DEF Quiet, Refresh, LockInv
  <2> QED BY <2>1, <2>2 DEF SeenBefore, Marking
<1>5. CASE Click
  <2>1. ui'.position = 1 /\ UNCHANGED alarms
    BY <1>5 DEF Click, IdleUi, log
  <2>2. \A i \in DOMAIN alarms : ~ i < 1
    BY <1>1 DEF TypeOK
  <2> QED BY <2>1, <2>2 DEF SeenBefore, Marking
<1>6. CASE Scan
  <2>1. ui.pc = "scan" /\ UNCHANGED alarms /\ ui.position \in Nat
    BY <1>1, <1>6 DEF Scan, log, UiType
  <2>2. CASE ~ Unseen(ui.position) /\ ui' = [ui EXCEPT !.position = @ + 1]
    <3>1. ui'.position = ui.position + 1
      BY <1>1, <2>2 DEF UiType
    <3>2. \A i \in DOMAIN alarms : i < ui.position + 1 => i < ui.position \/ i = ui.position
      BY <1>1, <2>1 DEF TypeOK
    <3> QED BY <1>2, <2>1, <2>2, <3>1, <3>2 DEF SeenBefore, Marking, Unseen
  <2>3. CASE Unseen(ui.position) /\ ui' = [ui EXCEPT !.pc = "mark", !.copy = alarms[ui.position]]
    <3>1. ui'.position = ui.position
      BY <1>1, <2>3 DEF UiType
    <3> QED BY <1>2, <2>1, <3>1 DEF SeenBefore, Marking
  <2> QED BY <1>6, <2>2, <2>3 DEF Scan
<1>7. CASE Mark
  <2> DEFINE p == ui.position
             a == [ui.copy EXCEPT !.acknowledged = TRUE]
  <2>1. /\ ui.pc = "mark" /\ ui'.position = p + 1 /\ p \in Nat /\ ui.copy \in Alarm
        /\ p \in DOMAIN alarms /\ alarms' = [alarms EXCEPT ![p] = a]
    BY <1>1, <1>7 DEF Mark, UiType, CopiesFit, Fits
  <2>2. a.acknowledged = TRUE
    BY <2>1 DEF Alarm
  <2> HIDE DEF a
  <2>3. /\ DOMAIN alarms' = DOMAIN alarms /\ alarms'[p] = a
        /\ \A i \in DOMAIN alarms : i # p => alarms'[i] = alarms[i]
        /\ \A i \in DOMAIN alarms : i < p + 1 => i < p \/ i = p
    BY <1>1, <2>1 DEF TypeOK
  <2>4. \A i \in DOMAIN alarms : i < p /\ alarms[i].active => alarms[i].acknowledged
    BY <1>2, <2>1 DEF SeenBefore, Marking
  <2> HIDE DEF p
  <2>5. \A i \in DOMAIN alarms' : i < p + 1 /\ alarms'[i].active => alarms'[i].acknowledged
    BY <2>2, <2>3, <2>4
  <2>6. p + 1 # 0
    BY <2>1
  <2> QED BY <2>1, <2>5, <2>6 DEF SeenBefore
<1>8. CASE ReadActive \/ ReadHistory \/ Publish
  <2>1. ~ Marking'
    <3>1. CASE ReadActive
      BY <1>1, <3>1 DEF ReadActive, Marking, UiType
    <3>2. CASE ReadHistory
      BY <1>1, <3>2 DEF ReadHistory, Marking, UiType
    <3>3. CASE Publish
      BY <3>3 DEF Publish, Marking, IdleUi
    <3> QED BY <1>8, <3>1, <3>2, <3>3
  <2> QED BY <2>1 DEF SeenBefore
<1>9. CASE UNCHANGED liveVars
  BY <1>2, <1>9 DEF liveVars, log, SeenBefore, Marking
<1> QED BY <1>3, <1>4, <1>5, <1>6, <1>7, <1>8, <1>9 DEF LiveNext, Acknowledging

LEMMA WholeInvStep == LInv /\ QuietInv /\ WholeInv /\ [LiveNext]_liveVars => WholeInv'
BY BoundKept, SeenKept DEF WholeInv

-----------------------------------------------------------------------------
(* One step of the threads is one call or a stutter *)

LEMMA RestingLog ==
    bg.pc \notin {"expire", "clear"}
      => ToClear = {} /\ WholeIndex = index /\ WholeReported = reported
BY DEF ToClear, Expired, WholeIndex, WholeReported

LEMMA PlainLog ==
    TypeOK /\ ToClear = {} /\ ~ Marking => WholeAlarms = alarms /\ WholeOpen = open
<1> SUFFICES ASSUME TypeOK, ToClear = {}, ~ Marking
             PROVE  WholeAlarms = alarms /\ WholeOpen = open
  OBVIOUS
<1>1. \A i \in DOMAIN alarms : WholeAlarms[i] = alarms[i]
  BY DEF WholeAlarms, Marked, Marking
<1>2. alarms = [i \in DOMAIN alarms |-> alarms[i]] /\ open = [k \in Key |-> open[k]]
  BY DEF TypeOK
<1> QED BY <1>1, <1>2 DEF WholeAlarms, WholeOpen

\* Nothing of the log is written and the calls under way stay under way.
LEMMA SameWhole ==
    ASSUME UNCHANGED <<log, ToClear, Expired, Marking>>
    PROVE  UNCHANGED Whole!vars
<1>1. UNCHANGED <<alarms, open, index, reported, fired>>
  BY DEF log
<1> QED BY <1>1 DEF Whole!vars, WholeAlarms, WholeOpen, WholeIndex, WholeReported, Marked, Marking

\* record: the copy written back is what the log holds.
LEMMA RecordWhole ==
    ASSUME LInv, LInv', Quiet, RecordNew \/ WriteStanding
    PROVE  Whole!Record(NextKey)
<1> DEFINE k == NextKey
<1>0. TypeOK'
  BY DEF LInv, LiveTypeOK
<1>1. BgType /\ CopiesFit /\ TypeOK /\ ui.pc = "idle" /\ ui' = ui
  BY TypeParts DEF LInv, Quiet, Adding, RecordNew, WriteStanding
<1>2. bg.pc \in {"record", "update"} /\ bg'.pc = "record" /\ bg.todo # {}
  BY <1>1 DEF RecordNew, WriteStanding, CopiesFit, BgType
<1>3. /\ WholeAlarms = alarms /\ WholeOpen = open
      /\ WholeIndex = index /\ WholeReported = reported
  BY <1>1, <1>2, RestingLog, PlainLog DEF Marking
<1>4. /\ WholeAlarms' = alarms' /\ WholeOpen' = open'
      /\ WholeIndex' = index' /\ WholeReported' = reported'
  <2>1. (bg.pc \notin {"expire", "clear"}
           => ToClear = {} /\ WholeIndex = index /\ WholeReported = reported)'
    BY RestingLog, PTL
  <2>2. ~ Marking'
    BY <1>1 DEF Marking
  <2>3. (TypeOK /\ ToClear = {} /\ ~ Marking => WholeAlarms = alarms /\ WholeOpen = open)'
    BY PlainLog, PTL
  <2> QED BY <1>0, <1>2, <2>1, <2>2, <2>3
<1>5. k \notin reported
  BY <1>1, <1>2, NextKeyInTodo DEF Quiet, RecordsOnce
<1>6. CASE RecordNew
  BY <1>3, <1>4, <1>5, <1>6 DEF RecordNew, Raise, Fired, Whole!Record, Whole!Raise,
                                NewAlarm, Whole!NewAlarm
<1>7. CASE WriteStanding
  <2>1. bg.copy = alarms[open[k]] /\ open[k] # 0
    BY <1>1, <1>7 DEF WriteStanding, Quiet, CopiesCurrent, CopiesFit
  <2>2. Refired(bg.copy) = Whole!Refired(WholeAlarms[WholeOpen[k]])
    BY <1>3, <2>1 DEF Refired, Whole!Refired
  <2>3. /\ alarms' = [alarms EXCEPT ![open[k]] = Refired(bg.copy)]
        /\ UNCHANGED <<open, index>>
        /\ reported' = reported \cup {k} /\ fired' = [fired EXCEPT ![k] = @ \cup {index}]
    BY <1>7 DEF WriteStanding, Fired
  <2>4. Whole!Update(k)
    BY <1>3, <1>4, <2>1, <2>2, <2>3 DEF Whole!Update
  <2> QED BY <1>3, <1>4, <1>5, <2>3, <2>4 DEF Whole!Record
<1> QED BY <1>6, <1>7

\* expire takes effect when it starts: what is quiet then is what it clears.
LEMMA BeginExpireWhole ==
    ASSUME LInv, Quiet, WholeInv, BeginExpire
    PROVE  Whole!Expire
<1>1. BgType /\ TypeOK /\ ui.pc = "idle" /\ ui' = ui /\ bg.pc = "record"
  BY TypeParts DEF LInv, Quiet, Adding, BeginExpire
<1>2. bg'.pc = "expire" /\ bg'.todo = OpenKeys /\ UNCHANGED <<alarms, open, index, reported, fired>>
  BY <1>1 DEF BeginExpire, BgType, log
<1>3. /\ WholeAlarms = alarms /\ WholeOpen = open
      /\ WholeIndex = index /\ WholeReported = reported
  BY <1>1, RestingLog, PlainLog DEF Marking
<1>4. Whole!Expiring = Expiring
  BY <1>3 DEF Whole!Expiring, Expiring, Whole!QuietFor, QuietFor
<1>5. ToClear' = Expiring
  BY <1>2 DEF ToClear, Expired, Expiring, OpenKeys, QuietFor
<1>6. WholeIndex' = index + 1 /\ WholeReported' = {}
  BY <1>2 DEF WholeIndex, WholeReported, Expired
<1>7. WholeOpen' = [k \in Key |-> IF k \in Expiring THEN 0 ELSE open[k]]
  BY <1>2, <1>5 DEF WholeOpen
<1>8. WholeAlarms' = Cleared(Expiring)
  BY <1>1, <1>2, <1>5 DEF WholeAlarms, Cleared, Marked
<1>9. Whole!Cleared(Expiring) = Cleared(Expiring)
  BY <1>3 DEF Whole!Cleared, Cleared
<1>10. index < MaxIndex
  BY <1>1 DEF WholeInv, Adding
<1> QED BY <1>2, <1>3, <1>4, <1>6, <1>7, <1>8, <1>9, <1>10 DEF Whole!Expire

\* Inside expire: what is cleared now was to be cleared from the beginning.
LEMMA WriteClearedWhole ==
    ASSUME LInv, Quiet, WriteCleared
    PROVE  UNCHANGED Whole!vars
<1> DEFINE k == NextKey
           p == open[k]
           a == [bg.copy EXCEPT !.active = FALSE]
<1>1. BgType /\ CopiesFit /\ TypeOK /\ EntriesStand /\ ui.pc = "idle" /\ ui' = ui
      /\ bg.pc = "clear"
  BY TypeParts DEF LInv, Quiet, Adding, WriteCleared
<1>2. bg.copy = alarms[p] /\ QuietFor(k) >= ClearAfter /\ bg.todo # {} /\ p # 0
      /\ bg.todo \subseteq OpenKeys
  BY <1>1 DEF Quiet, CopiesCurrent, CopiesFit
<1>3. k \in bg.todo /\ k \in Key /\ k \in OpenKeys /\ p \in DOMAIN alarms
  BY <1>1, <1>2, NextKeyInTodo DEF EntriesStand
<1>4. bg'.pc = "expire" /\ bg'.todo = bg.todo \ {k}
  BY <1>1 DEF WriteCleared, BgType
<1>5. /\ alarms' = [alarms EXCEPT ![p] = a]
      /\ open' = [open EXCEPT ![k] = 0]
      /\ UNCHANGED <<index, reported, fired>>
  BY DEF WriteCleared
<1>6. \A j \in OpenKeys : j # k => open[j] # p
  BY <1>1, <1>3, EntriesDiffer
<1>7. /\ a = [alarms[p] EXCEPT !.active = FALSE]
      /\ QuietFor(k) >= ClearAfter
  BY <1>2
<1> HIDE DEF k, p, a
<1>8. /\ DOMAIN alarms' = DOMAIN alarms /\ alarms'[p] = a
      /\ \A i \in DOMAIN alarms : i # p => alarms'[i] = alarms[i]
      /\ open'[k] = 0 /\ \A j \in Key : j # k => open'[j] = open[j]
  BY <1>1, <1>3, <1>5 DEF TypeOK
<1>9. ToClear' = ToClear \ {k} /\ k \in ToClear /\ ToClear \subseteq OpenKeys
  <2>1. \A j \in bg.todo \ {k} : QuietFor(j)' = QuietFor(j)
    <3> SUFFICES ASSUME NEW j \in bg.todo \ {k}
                 PROVE  QuietFor(j)' = QuietFor(j)
      OBVIOUS
    <3>1. open'[j] = open[j] /\ open[j] \in DOMAIN alarms /\ open[j] # p
      BY <1>1, <1>2, <1>6, <1>8 DEF EntriesStand, OpenKeys
    <3>2. alarms'[open'[j]] = alarms[open[j]]
      BY <3>1, <1>8
    <3> QED BY <3>2, <1>5 DEF QuietFor
  <2>2. Expired /\ Expired'
    BY <1>1, <1>4 DEF Expired
  <2>3. ToClear = {j \in bg.todo : QuietFor(j) >= ClearAfter}
    BY <2>2 DEF ToClear
  <2>4. ToClear' = {j \in bg.todo \ {k} : QuietFor(j) >= ClearAfter}
    BY <1>4, <2>1, <2>2 DEF ToClear
  <2> QED BY <1>2, <1>3, <1>7, <2>3, <2>4
<1>10. WholeOpen' = WholeOpen
  <2>1. \A j \in Key : (IF j \in ToClear' THEN 0 ELSE open'[j])
                       = (IF j \in ToClear THEN 0 ELSE open[j])
    BY <1>8, <1>9
  <2> QED BY <2>1 DEF WholeOpen
<1>11. WholeAlarms' = WholeAlarms
  <2>1. ASSUME NEW i \in DOMAIN alarms
        PROVE  WholeAlarms'[i] = WholeAlarms[i]
    <3>1. /\ WholeAlarms[i] = IF \E j \in ToClear : open[j] = i
                              THEN [alarms[i] EXCEPT !.active = FALSE] ELSE alarms[i]
          /\ WholeAlarms'[i] = IF \E j \in ToClear' : open'[j] = i
                               THEN [alarms'[i] EXCEPT !.active = FALSE] ELSE alarms'[i]
      BY <1>1, <1>8, <2>1 DEF WholeAlarms, Marked
    <3>2. \A j \in ToClear' : j \in OpenKeys /\ j # k /\ open'[j] = open[j]
      BY <1>8, <1>9 DEF OpenKeys
    <3>3. CASE i = p
      <4>1. ~ \E j \in ToClear' : open'[j] = i
        BY <1>6, <3>2, <3>3
      <4>2. open[k] = i
        BY <3>3 DEF p
      <4> QED BY <1>7, <1>8, <1>9, <3>1, <3>3, <4>1, <4>2
    <3>4. CASE i # p
      <4>1. (\E j \in ToClear' : open'[j] = i) <=> (\E j \in ToClear : open[j] = i)
        BY <1>9, <3>2, <3>4 DEF p
      <4> QED BY <1>8, <3>1, <3>4, <4>1
    <3> QED BY <3>3, <3>4
  <2>2. DOMAIN WholeAlarms = DOMAIN alarms /\ DOMAIN WholeAlarms' = DOMAIN alarms
    BY <1>8 DEF WholeAlarms
  <2>3. WholeAlarms = [i \in DOMAIN alarms |-> WholeAlarms[i]]
        /\ WholeAlarms' = [i \in DOMAIN alarms |-> WholeAlarms'[i]]
    BY <1>8 DEF WholeAlarms
  <2> QED BY <2>1, <2>3
<1>12. UNCHANGED <<WholeIndex, WholeReported, fired>>
  BY <1>1, <1>4, <1>5 DEF WholeIndex, WholeReported, Expired
<1> QED BY <1>10, <1>11, <1>12 DEF Whole!vars

\* The rest of expire decides nothing.
LEMMA ExpireLoopWhole ==
    ASSUME LInv, Quiet, KeepStanding \/ ReadQuiet \/ EndAdd
    PROVE  UNCHANGED Whole!vars
<1>1. BgType /\ TypeOK /\ ui.pc = "idle" /\ ui' = ui /\ bg.pc = "expire"
  BY TypeParts DEF LInv, Quiet, Adding, KeepStanding, ReadQuiet, EndAdd
<1>2. CASE KeepStanding
  <2>1. bg'.pc = "expire" /\ bg'.todo = bg.todo \ {NextKey} /\ UNCHANGED log
        /\ ~ QuietFor(NextKey) >= ClearAfter /\ UNCHANGED <<alarms, open, index>>
    <3>1. NextKey \in OpenKeys /\ QuietFor(NextKey) \in Int
      <4>1. NextKey \in bg.todo /\ bg.todo \subseteq OpenKeys
        BY <1>1, <1>2, NextKeyInTodo DEF KeepStanding, LInv, CopiesFit
      <4>2. alarms[open[NextKey]] \in Alarm
        BY <1>1, <4>1 DEF LInv, EntriesStand, TypeOK
      <4> QED BY <1>1, <4>1, <4>2, SMTT(30) DEF QuietFor, TypeOK, Alarm
    <3> QED BY <1>1, <1>2, <3>1, ClearAfterAssumption DEF KeepStanding, BgType, log
  <2>2. ToClear' = ToClear
    BY <1>1, <2>1 DEF ToClear, Expired, QuietFor
  <2> QED BY <1>1, <2>1, <2>2, SameWhole DEF Expired, Marking
<1>3. CASE ReadQuiet
  <2>1. bg'.pc = "clear" /\ bg'.todo = bg.todo /\ UNCHANGED log
        /\ UNCHANGED <<alarms, open, index>>
    BY <1>1, <1>3 DEF ReadQuiet, BgType, log
  <2>2. ToClear' = ToClear
    BY <1>1, <2>1 DEF ToClear, Expired, QuietFor
  <2> QED BY <1>1, <2>1, <2>2, SameWhole DEF Expired, Marking
<1>4. CASE EndAdd
  <2>1. bg'.pc = "publish" /\ UNCHANGED <<alarms, open, fired>>
        /\ index' = index + 1 /\ reported' = {} /\ bg.todo = {}
    BY <1>1, <1>4 DEF EndAdd, BgType
  <2>2. ToClear = {} /\ ToClear' = {}
    BY <2>1 DEF ToClear, Expired
  <2> QED BY <1>1, <2>1, <2>2 DEF Whole!vars, WholeAlarms, WholeOpen, WholeIndex, WholeReported,
             Expired, Marked
<1> QED BY <1>2, <1>3, <1>4

\* Steps of the background thread that write nothing.
LEMMA RestWhole ==
    ASSUME LInv, Quiet, ReadStanding \/ Refresh \/ \E V \in SUBSET Key : BeginAdd(V)
    PROVE  UNCHANGED Whole!vars
<1>1. BgType /\ ui' = ui /\ UNCHANGED log
  BY TypeParts DEF LInv, ReadStanding, Refresh, BeginAdd
<1>2. bg.pc \notin {"expire", "clear"} /\ bg'.pc \notin {"expire", "clear"}
  <2>1. CASE ReadStanding
    BY <1>1, <2>1 DEF ReadStanding, BgType
  <2>2. CASE Refresh
    BY <2>2 DEF Refresh, IdleBg
  <2>3. CASE \E V \in SUBSET Key : BeginAdd(V)
    BY <1>1, <2>3 DEF BeginAdd, BgType
  <2> QED BY <2>1, <2>2, <2>3
<1>3. ToClear = {} /\ ToClear' = {} /\ Expired' = Expired
  BY <1>2 DEF ToClear, Expired
<1> QED BY <1>1, <1>3, SameWhole DEF Marking

\* acknowledge_all takes effect with the click: no add is under way, so what is
\* active then is what it marks.
LEMMA ClickWhole ==
    ASSUME LInv, LInv', Quiet, ~ overlap', Click
    PROVE  Whole!AcknowledgeAll
<1>1. /\ TypeOK /\ ui.pc = "idle" /\ ui'.pc = "scan" /\ bg' = bg /\ ~ Adding
      /\ UNCHANGED <<alarms, open, index, reported, fired>>
  BY TypeParts DEF LInv, Click, IdleUi, log
<1>2. bg.pc \notin {"expire", "clear"} /\ ~ Marking /\ Marking'
  BY <1>1 DEF Adding, Marking
<1>3. ToClear = {} /\ ToClear' = {} /\ ~ Expired /\ ~ Expired'
  BY <1>1, <1>2 DEF ToClear, Expired
<1>4. WholeAlarms = alarms
  BY <1>1, <1>2, <1>3, PlainLog
<1>5. WholeAlarms' = [i \in DOMAIN alarms |->
                        IF alarms[i].active
                        THEN [alarms[i] EXCEPT !.acknowledged = TRUE] ELSE alarms[i]]
  BY <1>1, <1>2, <1>3 DEF WholeAlarms, Marked, Marking
<1>6. UNCHANGED <<WholeOpen, WholeIndex, WholeReported, fired>>
  BY <1>1, <1>3 DEF WholeOpen, WholeIndex, WholeReported
<1> QED BY <1>4, <1>5, <1>6 DEF Whole!AcknowledgeAll

\* The marking itself was decided by the click.
LEMMA ScanWhole ==
    ASSUME LInv, Scan
    PROVE  UNCHANGED Whole!vars
<1>1. UiType /\ UNCHANGED <<log, bg>> /\ ui.pc = "scan"
  BY TypeParts DEF LInv, Scan
<1>2. ui'.pc \in {"scan", "mark"}
  BY <1>1 DEF Scan, UiType
<1>3. UNCHANGED <<alarms, open, index>>
  BY <1>1 DEF log
<1>4. ToClear' = ToClear /\ Expired' = Expired /\ Marking' = Marking
  BY <1>1, <1>2, <1>3 DEF ToClear, Expired, Marking, QuietFor
<1> QED BY <1>1, <1>4, SameWhole

LEMMA MarkWhole ==
    ASSUME LInv, Quiet, Mark
    PROVE  UNCHANGED Whole!vars
<1> DEFINE p == ui.position
           a == [ui.copy EXCEPT !.acknowledged = TRUE]
<1>1. /\ BgType /\ UiType /\ CopiesFit /\ TypeOK /\ ui.pc = "mark" /\ ~ Adding
      /\ UNCHANGED <<open, index, reported, fired, bg>>
  BY TypeParts DEF LInv, Quiet, Mark
<1>2. /\ ui.copy = alarms[p] /\ p \in DOMAIN alarms /\ ui.copy.active
      /\ alarms' = [alarms EXCEPT ![p] = a] /\ ui.copy \in Alarm /\ ui'.pc = "scan"
  BY <1>1 DEF Quiet, CopiesCurrent, CopiesFit, Fits, Mark, UiType
<1>3. bg.pc \notin {"expire", "clear"} /\ bg'.pc \notin {"expire", "clear"}
  BY <1>1 DEF Adding
<1>4. ToClear = {} /\ ToClear' = {} /\ Expired' = Expired
  BY <1>3 DEF ToClear, Expired
<1>5. a = [alarms[p] EXCEPT !.acknowledged = TRUE] /\ a.active /\ alarms[p].active
  BY <1>2 DEF Alarm
<1>6. [a EXCEPT !.acknowledged = TRUE] = a
  BY <1>2 DEF Alarm
<1> HIDE DEF p, a
<1>7. /\ DOMAIN alarms' = DOMAIN alarms /\ alarms'[p] = a
      /\ \A i \in DOMAIN alarms : i # p => alarms'[i] = alarms[i]
  BY <1>1, <1>2 DEF TypeOK
<1>8. \A i \in DOMAIN alarms : Marked(alarms[i])' = Marked(alarms[i])
  <2> SUFFICES ASSUME NEW i \in DOMAIN alarms
               PROVE  Marked(alarms[i])' = Marked(alarms[i])
    OBVIOUS
  <2>1. CASE i = p
    BY <1>1, <1>2, <1>5, <1>6, <1>7, <2>1 DEF Marked
  <2>2. CASE i # p
    BY <1>1, <1>2, <1>7, <2>2 DEF Marked
  <2> QED BY <2>1, <2>2
<1>9. WholeAlarms = [i \in DOMAIN alarms |-> Marked(alarms[i])]
      /\ WholeAlarms' = [i \in DOMAIN alarms |-> Marked(alarms[i])']
  BY <1>4, <1>7 DEF WholeAlarms
<1>10. WholeAlarms' = WholeAlarms
  BY <1>8, <1>9
<1>11. UNCHANGED <<WholeOpen, WholeIndex, WholeReported, fired>>
  BY <1>1, <1>4 DEF WholeOpen, WholeIndex, WholeReported
<1> QED BY <1>10, <1>11 DEF Whole!vars

\* The scan has reached the end of the list: everything active is marked.
LEMMA ReadActiveWhole ==
    ASSUME LInv, Quiet, SeenBefore, ReadActive
    PROVE  UNCHANGED Whole!vars
<1>1. /\ UiType /\ TypeOK /\ ui.pc = "scan" /\ ui.position \notin DOMAIN alarms
      /\ ui'.pc = "history" /\ bg' = bg /\ UNCHANGED <<alarms, open, index, reported, fired>>
  <2>1. UiType /\ TypeOK
    BY TypeParts DEF LInv
  <2> QED BY <2>1 DEF ReadActive, UiType, log
<1>2. bg.pc \notin {"expire", "clear"}
  BY <1>1 DEF Quiet, Adding
<1>3. ToClear = {} /\ ToClear' = {} /\ Expired' = Expired
  BY <1>1, <1>2 DEF ToClear, Expired
<1>4. \A i \in DOMAIN alarms : i < ui.position
  BY <1>1 DEF SeenBefore, Marking, TypeOK, UiType
<1>5. \A i \in DOMAIN alarms : alarms[i].active => alarms[i].acknowledged
  BY <1>1, <1>4 DEF SeenBefore, Marking
<1>6. \A i \in DOMAIN alarms : Marked(alarms[i]) = alarms[i]
  <2> SUFFICES ASSUME NEW i \in DOMAIN alarms, alarms[i].active
               PROVE  [alarms[i] EXCEPT !.acknowledged = TRUE] = alarms[i]
    BY DEF Marked
  <2>1. alarms[i] \in Alarm
    BY <1>1 DEF TypeOK
  <2>2. alarms[i].acknowledged = TRUE
    BY <1>5, <2>1 DEF Alarm
  <2> QED BY <2>1, <2>2 DEF Alarm
<1>7. \A i \in DOMAIN alarms : Marked(alarms[i])' = alarms[i]
  BY <1>1 DEF Marked
<1>8. WholeAlarms = [i \in DOMAIN alarms |-> Marked(alarms[i])]
      /\ WholeAlarms' = [i \in DOMAIN alarms |-> Marked(alarms[i])']
  BY <1>1, <1>3 DEF WholeAlarms
<1>9. WholeAlarms' = WholeAlarms
  BY <1>6, <1>7, <1>8
<1>10. UNCHANGED <<WholeOpen, WholeIndex, WholeReported, fired>>
  BY <1>1, <1>3 DEF WholeOpen, WholeIndex, WholeReported
<1> QED BY <1>9, <1>10 DEF Whole!vars

LEMMA PassWhole ==
    ASSUME LInv, ReadHistory \/ Publish
    PROVE  UNCHANGED Whole!vars
<1>1. UiType /\ UNCHANGED <<log, bg>> /\ ui.pc \notin {"scan", "mark"}
  BY TypeParts DEF LInv, ReadHistory, Publish
<1>2. ui'.pc \notin {"scan", "mark"}
  <2>1. CASE ReadHistory
    BY <1>1, <2>1 DEF ReadHistory, UiType
  <2>2. CASE Publish
    BY <2>2 DEF Publish, IdleUi
  <2> QED BY <2>1, <2>2
<1>3. UNCHANGED <<alarms, open, index>>
  BY <1>1 DEF log
<1>4. ToClear' = ToClear /\ Expired' = Expired /\ Marking' = Marking
  BY <1>1, <1>2, <1>3 DEF ToClear, Expired, Marking, QuietFor
<1> QED BY <1>1, <1>4, SameWhole

LEMMA WholeInit == LiveInit => Whole!Init
<1> SUFFICES ASSUME LiveInit PROVE Whole!Init
  OBVIOUS
<1>1. /\ alarms = <<>> /\ open = [k \in Key |-> 0] /\ index = 0 /\ reported = {}
      /\ fired = [k \in Key |-> {}] /\ bg.pc = "idle" /\ ui.pc = "idle"
  BY DEF LiveInit, Init, IdleBg, IdleUi
<1>2. /\ WholeAlarms = alarms /\ WholeOpen = open
      /\ WholeIndex = index /\ WholeReported = reported
  <2>1. TypeOK
    BY InitIInv DEF LiveInit, IInv
  <2> QED BY <1>1, <2>1, RestingLog, PlainLog DEF Marking
<1> QED BY <1>1, <1>2 DEF Whole!Init

LEMMA WholeNext ==
    ASSUME LInv, LInv', QuietInv, WholeInv, [LiveNext]_liveVars, ~ overlap'
    PROVE  [Whole!Next]_(Whole!vars)
<1>1. Quiet /\ SeenBefore /\ BgType
  BY OverlapStays, TypeParts DEF QuietInv, WholeInv, LInv
<1>2. CASE RecordNew \/ WriteStanding
  <2>1. NextKey \in Key
    BY <1>1, <1>2, NextKeyInTodo DEF RecordNew, WriteStanding, LInv, CopiesFit
  <2> QED BY <1>1, <1>2, <2>1, RecordWhole DEF Whole!Next
<1>3. CASE BeginExpire
  BY <1>1, <1>3, BeginExpireWhole DEF Whole!Next
<1>4. CASE Click
  BY <1>1, <1>4, ClickWhole DEF Whole!Next
<1>5. CASE WriteCleared
  BY <1>1, <1>5, WriteClearedWhole
<1>6. CASE KeepStanding \/ ReadQuiet \/ EndAdd
  BY <1>1, <1>6, ExpireLoopWhole
<1>7. CASE ReadStanding \/ Refresh \/ \E V \in SUBSET Key : BeginAdd(V)
  BY <1>1, <1>7, RestWhole
<1>8. CASE Scan
  BY <1>8, ScanWhole
<1>9. CASE Mark
  BY <1>1, <1>9, MarkWhole
<1>10. CASE ReadActive
  BY <1>1, <1>10, ReadActiveWhole
<1>11. CASE ReadHistory \/ Publish
  BY <1>11, PassWhole
<1>12. CASE UNCHANGED liveVars
  <2>1. UNCHANGED <<alarms, open, index, log, bg, ui>>
    BY <1>12 DEF liveVars, log
  <2>2. ToClear' = ToClear /\ Expired' = Expired /\ Marking' = Marking
    BY <2>1 DEF ToClear, Expired, Marking, QuietFor
  <2> QED BY <2>1, <2>2, SameWhole
<1> QED BY <1>2, <1>3, <1>4, <1>5, <1>6, <1>7, <1>8, <1>9, <1>10, <1>11, <1>12
        DEF LiveNext, Working, Acknowledging

\* Until an acknowledgement overlaps an add, the threads with their split reads
\* and writes of the alarm list (record, expire, acknowledge_all) implement the
\* log in which each of these calls is one step.
THEOREM WholeCallsCorrect == LiveSpec => WholeCalls
<1>1. LInv /\ LInv' /\ QuietInv /\ WholeInv /\ [LiveNext]_liveVars
        => [~ overlap' => [Whole!Next]_(Whole!vars)]_liveVars
  BY WholeNext
<1> QED BY <1>1, WholeInit, WholeInvInit, WholeInvStep, QuietInit, QuietNext, LiveInvariance, PTL
        DEF LiveSpec, WholeCalls
=============================================================================
