----------------------------- MODULE LiveAlarms -----------------------------
(***************************************************************************)
(* The alarm log shared by two threads of the dashboard                    *)
(* (dashboard/live_source.py).  The background thread runs SPCEngine.add   *)
(* on every subgroup without the lock and then publishes a snapshot under  *)
(* it; the interface thread runs acknowledge_alarms, which marks the       *)
(* alarms of the same log and publishes, all under the lock.  The log is   *)
(* the one of AlarmLog, with record, expire and acknowledge_all split at   *)
(* the reads and writes of _alarms[position]: an Alarm is frozen, so each  *)
(* of them replaces the alarm it read a moment before.                     *)
(***************************************************************************)
EXTENDS AlarmLog

CONSTANT MaxClicks      \* bound: acknowledgements by the operator

ASSUME KeyAssumption    == Key # {}
ASSUME ClicksAssumption == MaxClicks \in Nat

VARIABLES bg,           \* the background thread: where it is in add
          ui,           \* the interface thread: where it is in acknowledge_alarms
          lock,         \* _lock: its holder, or "free"
          snapshot,     \* _snapshot: its active alarms and its alarm history
          clicks,       \* acknowledgements so far
          overlap       \* history: an add and an acknowledgement have overlapped

log == <<alarms, open, index, reported, fired>>
liveVars == <<log, bg, ui, lock, snapshot, clicks, overlap>>

NoCopy == [key |-> CHOOSE k \in Key : TRUE, first_index |-> 0, last_index |-> 0,
           occurrences |-> 0, active |-> FALSE, acknowledged |-> FALSE]

Entry == Nat \X Alarm

LiveTypeOK ==
    /\ TypeOK
    /\ bg \in [pc   : {"idle", "record", "update", "expire", "clear", "publish"},
               todo : SUBSET Key,
               copy : Alarm]
    /\ ui \in [pc       : {"idle", "scan", "mark", "history", "publish"},
               position : Nat,
               copy     : Alarm,
               active   : SUBSET Entry,
               history  : SUBSET Entry]
    /\ lock \in {"free", "ui"}
    /\ snapshot \in [active : SUBSET Entry, history : SUBSET Entry]
    /\ clicks \in 0 .. MaxClicks
    /\ overlap \in BOOLEAN

IdleBg == [pc |-> "idle", todo |-> {}, copy |-> NoCopy]
IdleUi == [pc |-> "idle", position |-> 1, copy |-> NoCopy, active |-> {}, history |-> {}]

\* The properties active and history of the log, each one pass over the list.
ActiveAlarms  == {<<i, alarms[i]>> : i \in {j \in DOMAIN alarms : alarms[j].active}}
ClearedAlarms == {<<i, alarms[i]>> : i \in {j \in DOMAIN alarms : ~ alarms[j].active}}

LiveInit == /\ Init
            /\ bg = IdleBg
            /\ ui = IdleUi
            /\ lock = "free"
            /\ snapshot = [active |-> {}, history |-> {}]
            /\ clicks = 0
            /\ overlap = FALSE

Adding == bg.pc \notin {"idle", "publish"}

-----------------------------------------------------------------------------
(* The background thread: add, then _refresh *)

\* A subgroup on which the rules of the keys in V fire.
BeginAdd(V) ==
    /\ bg.pc = "idle" /\ index < MaxIndex
    /\ bg' = [bg EXCEPT !.pc = "record", !.todo = V]
    /\ overlap' = (overlap \/ ui.pc # "idle")
    /\ UNCHANGED <<log, ui, lock, snapshot, clicks>>

NextKey == CHOOSE k \in bg.todo : TRUE

\* Bookkeeping of a violation of k, whichever way record handles it.
Fired(k) == /\ reported' = reported \cup {k}
            /\ fired' = [fired EXCEPT ![k] = @ \cup {index}]

\* record finds no open alarm: append, then enter the key in _open.
RecordNew ==
    /\ bg.pc = "record" /\ bg.todo # {}
    /\ Raise(NextKey)
    /\ Fired(NextKey)
    /\ bg' = [bg EXCEPT !.todo = @ \ {NextKey}]
    /\ UNCHANGED <<index, ui, lock, snapshot, clicks, overlap>>

\* standing = self._alarms[position]
ReadStanding ==
    /\ bg.pc = "record" /\ bg.todo # {} /\ open[NextKey] # 0
    /\ bg' = [bg EXCEPT !.pc = "update", !.copy = alarms[open[NextKey]]]
    /\ UNCHANGED <<log, ui, lock, snapshot, clicks, overlap>>

\* Mutant: the update is written over the next entry of the list.
WriteStandingElsewhere ==
    /\ bg.pc = "update"
    /\ alarms' = [alarms EXCEPT ![1] = Refired(bg.copy)]
    /\ Fired(NextKey)
    /\ bg' = [bg EXCEPT !.pc = "record", !.todo = @ \ {NextKey}, !.copy = NoCopy]
    /\ UNCHANGED <<open, index, ui, lock, snapshot, clicks, overlap>>

\* self._alarms[position] = updated
WriteStanding ==
    /\ bg.pc = "update"
    /\ alarms' = [alarms EXCEPT ![open[NextKey]] = Refired(bg.copy)]
    /\ Fired(NextKey)
    /\ bg' = [bg EXCEPT !.pc = "record", !.todo = @ \ {NextKey}, !.copy = NoCopy]
    /\ UNCHANGED <<open, index, ui, lock, snapshot, clicks, overlap>>

\* All violations are recorded; expire goes over the keys open now.
BeginExpire ==
    /\ bg.pc = "record" /\ bg.todo = {}
    /\ bg' = [bg EXCEPT !.pc = "expire", !.todo = OpenKeys]
    /\ UNCHANGED <<log, ui, lock, snapshot, clicks, overlap>>

\* An alarm that fired recently enough is skipped.
KeepStanding ==
    /\ bg.pc = "expire" /\ bg.todo # {} /\ QuietFor(NextKey) < ClearAfter
    /\ bg' = [bg EXCEPT !.todo = @ \ {NextKey}]
    /\ UNCHANGED <<log, ui, lock, snapshot, clicks, overlap>>

\* An alarm that has been quiet is read ...
ReadQuiet ==
    /\ bg.pc = "expire" /\ bg.todo # {} /\ QuietFor(NextKey) >= ClearAfter
    /\ bg' = [bg EXCEPT !.pc = "clear", !.copy = alarms[open[NextKey]]]
    /\ UNCHANGED <<log, ui, lock, snapshot, clicks, overlap>>

\* Mutant: the key is taken out of the dictionary before the alarm is written.
ClearEntryOnly ==
    /\ bg.pc = "clear"
    /\ open' = [open EXCEPT ![NextKey] = 0]
    /\ bg' = [bg EXCEPT !.pc = "expire", !.todo = @ \ {NextKey}, !.copy = NoCopy]
    /\ UNCHANGED <<alarms, index, reported, fired, ui, lock, snapshot, clicks, overlap>>

\* Mutant: the alarm is marked cleared and its key stays open.
ClearFlagOnly ==
    /\ bg.pc = "clear"
    /\ alarms' = [alarms EXCEPT ![open[NextKey]] = [bg.copy EXCEPT !.active = FALSE]]
    /\ bg' = [bg EXCEPT !.pc = "expire", !.todo = @ \ {NextKey}, !.copy = NoCopy]
    /\ UNCHANGED <<open, index, reported, fired, ui, lock, snapshot, clicks, overlap>>

\* ... and written back cleared; its key leaves the dictionary.
WriteCleared ==
    /\ bg.pc = "clear"
    /\ alarms' = [alarms EXCEPT ![open[NextKey]] = [bg.copy EXCEPT !.active = FALSE]]
    /\ open' = [open EXCEPT ![NextKey] = 0]
    /\ bg' = [bg EXCEPT !.pc = "expire", !.todo = @ \ {NextKey}, !.copy = NoCopy]
    /\ UNCHANGED <<index, reported, fired, ui, lock, snapshot, clicks, overlap>>

EndAdd ==
    /\ bg.pc = "expire" /\ bg.todo = {}
    /\ index' = index + 1
    /\ reported' = {}
    /\ bg' = [bg EXCEPT !.pc = "publish"]
    /\ UNCHANGED <<alarms, open, fired, ui, lock, snapshot, clicks, overlap>>

\* Mutant: the snapshot is replaced without waiting for the lock.
RefreshUnlocked ==
    /\ bg.pc = "publish"
    /\ snapshot' = [active |-> ActiveAlarms, history |-> ClearedAlarms]
    /\ bg' = IdleBg
    /\ UNCHANGED <<log, ui, lock, clicks, overlap>>

\* _refresh(full=True): nothing else writes the log or the snapshot while the
\* background thread holds the lock, so its whole body is one step.
Refresh ==
    /\ bg.pc = "publish" /\ lock = "free"
    /\ snapshot' = [active |-> ActiveAlarms, history |-> ClearedAlarms]
    /\ bg' = IdleBg
    /\ UNCHANGED <<log, ui, lock, clicks, overlap>>

-----------------------------------------------------------------------------
(* The interface thread: acknowledge_alarms *)

\* The operator presses the button: take the lock, start acknowledge_all.
Click ==
    /\ ui.pc = "idle" /\ lock = "free" /\ clicks < MaxClicks
    /\ lock' = "ui"
    /\ ui' = [IdleUi EXCEPT !.pc = "scan"]
    /\ clicks' = clicks + 1
    /\ overlap' = (overlap \/ Adding)
    /\ UNCHANGED <<log, bg, snapshot>>

\* Mutant: cleared alarms are marked as well.
UnseenEver(i) == ~ alarms[i].acknowledged

Unseen(i) == alarms[i].active /\ ~ alarms[i].acknowledged

\* enumerate yields the next alarm; it is skipped or about to be marked.
Scan ==
    /\ ui.pc = "scan" /\ ui.position \in DOMAIN alarms
    /\ \/ /\ ~ Unseen(ui.position)
          /\ ui' = [ui EXCEPT !.position = @ + 1]
       \/ /\ Unseen(ui.position)
          /\ ui' = [ui EXCEPT !.pc = "mark", !.copy = alarms[ui.position]]
    /\ UNCHANGED <<log, bg, lock, snapshot, clicks, overlap>>

\* self._alarms[position] = replace(alarm, acknowledged=True)
Mark ==
    /\ ui.pc = "mark"
    /\ alarms' = [alarms EXCEPT ![ui.position] = [ui.copy EXCEPT !.acknowledged = TRUE]]
    /\ ui' = [ui EXCEPT !.pc = "scan", !.position = @ + 1, !.copy = NoCopy]
    /\ UNCHANGED <<open, index, reported, fired, bg, lock, snapshot, clicks, overlap>>

\* _with_alarms reads the active alarms ...
ReadActive ==
    /\ ui.pc = "scan" /\ ui.position \notin DOMAIN alarms
    /\ ui' = [ui EXCEPT !.pc = "history", !.active = ActiveAlarms]
    /\ UNCHANGED <<log, bg, lock, snapshot, clicks, overlap>>

\* ... then the history ...
ReadHistory ==
    /\ ui.pc = "history"
    /\ ui' = [ui EXCEPT !.pc = "publish", !.history = ClearedAlarms]
    /\ UNCHANGED <<log, bg, lock, snapshot, clicks, overlap>>

\* Mutant: the interface thread returns with the lock.
PublishKeepingLock ==
    /\ ui.pc = "publish"
    /\ snapshot' = [active |-> ui.active, history |-> ui.history]
    /\ ui' = IdleUi
    /\ UNCHANGED <<log, bg, lock, clicks, overlap>>

\* ... and acknowledge_alarms stores the snapshot and gives up the lock.
Publish ==
    /\ ui.pc = "publish"
    /\ snapshot' = [active |-> ui.active, history |-> ui.history]
    /\ lock' = "free"
    /\ ui' = IdleUi
    /\ UNCHANGED <<log, bg, clicks, overlap>>

-----------------------------------------------------------------------------

\* The rest of an add and its refresh.
Working == \/ RecordNew
           \/ ReadStanding
           \/ WriteStanding
           \/ BeginExpire
           \/ KeepStanding
           \/ ReadQuiet
           \/ WriteCleared
           \/ EndAdd
           \/ Refresh

Acknowledging == Scan \/ Mark \/ ReadActive \/ ReadHistory \/ Publish

LiveNext == \/ \E V \in SUBSET Key : BeginAdd(V)
            \/ Working
            \/ Click
            \/ Acknowledging

\* The scheduler runs both threads: each finishes what it has begun.  Nobody
\* has to press the button and no subgroup has to arrive.
LiveSpec == /\ LiveInit /\ [][LiveNext]_liveVars
            /\ WF_liveVars(Working) /\ WF_liveVars(Acknowledging)

-----------------------------------------------------------------------------
(* What holds, overlap or not *)

\* The entries of the dictionary are active alarms of their keys, so record
\* never updates a cleared alarm, whatever the interface thread writes back.
EntriesStand ==
    \A k \in OpenKeys : /\ open[k] \in DOMAIN alarms
                        /\ alarms[open[k]].key = k
                        /\ alarms[open[k]].active

\* No write of either thread lands on another alarm: a position keeps its
\* key and its first subgroup, and the list never shrinks.
PositionsKept ==
    [][\A i \in DOMAIN alarms :
         /\ i \in DOMAIN alarms'
         /\ alarms'[i].key = alarms[i].key
         /\ alarms'[i].first_index = alarms[i].first_index]_liveVars

\* When both threads are at rest the operator sees the log as it is: an
\* acknowledgement that read the log in the middle of an add cannot be the
\* last to publish.
SnapshotCatchesUp ==
    bg.pc = "idle" /\ ui.pc = "idle"
    => snapshot = [active |-> ActiveAlarms, history |-> ClearedAlarms]

\* Until an acknowledgement overlaps an add, the log is exact after every
\* add: alarms stand and count as AlarmLog says.
ExactWithoutOverlap ==
    ~ overlap /\ ~ Adding =>
        OpenIsActive /\ StandsWhileFiring /\ OccurrencesCount

-----------------------------------------------------------------------------
(* The log as it is when expire and acknowledge_all are single calls: each *)
(* takes effect in its first step, in which it decides what it will do.    *)

Expired == bg.pc \in {"expire", "clear"}

\* The keys whose alarms expire has still to clear.
ToClear == {k \in bg.todo : Expired /\ QuietFor(k) >= ClearAfter}

\* What acknowledge_all makes of an alarm.
Marked(a) == IF ui.pc \in {"scan", "mark"} /\ a.active
             THEN [a EXCEPT !.acknowledged = TRUE] ELSE a

WholeAlarms   == [i \in DOMAIN alarms |->
                    IF \E k \in ToClear : open[k] = i
                    THEN [alarms[i] EXCEPT !.active = FALSE] ELSE Marked(alarms[i])]
WholeOpen     == [k \in Key |-> IF k \in ToClear THEN 0 ELSE open[k]]
WholeIndex    == IF Expired THEN index + 1 ELSE index
WholeReported == IF Expired THEN {} ELSE reported

Whole == INSTANCE AlarmLog WITH
    alarms <- WholeAlarms, open <- WholeOpen, index <- WholeIndex,
    reported <- WholeReported

\* Until an acknowledgement overlaps an add, the two threads implement
\* AlarmLog: however their reads and writes interleave with the rest of the
\* dashboard, they amount to whole calls of record, expire and acknowledge_all.
WholeCalls ==
    Whole!Init /\ [][~ overlap' => [Whole!Next]_(Whole!vars)]_liveVars

-----------------------------------------------------------------------------
\* Every add is published and every acknowledgement returns: no thread waits
\* for ever, even when one of them holds the lock while the other needs it.
ThreadsFinish ==
    /\ bg.pc # "idle" ~> bg.pc = "idle"
    /\ ui.pc # "idle" ~> ui.pc = "idle"

-----------------------------------------------------------------------------
(* What the documentation says and an overlap breaks *)

\* "it CLEARS after the rule has been quiet for a while" (alarms.py:14): after
\* every add, an alarm that is still active has fired recently.
QuietAlarmsClear ==
    bg.pc \in {"idle", "publish"} =>
        \A i \in DOMAIN alarms : alarms[i].active =>
            \E n \in fired[alarms[i].key] : index - n <= ClearAfter
=============================================================================
