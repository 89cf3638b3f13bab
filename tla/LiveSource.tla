----------------------------- MODULE LiveSource -----------------------------
(***************************************************************************)
(* The life of the dashboard's data sources (dashboard/live_source.py,     *)
(* dashboard/app.py).  Each LiveSource owns a background thread that runs  *)
(* a server of its own or follows an external one, a client and an engine; *)
(* the interface thread starts, stops, acknowledges and, when the settings *)
(* change, replaces the source it shows.  Every await of the background    *)
(* thread may raise, stop gives up waiting after a timeout, and a stopped  *)
(* source may be started again.  What the engine computes is left out: a   *)
(* part of the snapshot is known by the run it was made in.                *)
(***************************************************************************)
EXTENDS Naturals

CONSTANTS Source,       \* the LiveSource objects the page may build
          Served,       \* those without an endpoint: they run a server themselves
          NoSource,     \* session_state before the first one
          MaxRuns,      \* bound: starts of one source
          MaxCalls      \* bound: calls of the interface

ASSUME SourceAssumption == Served \subseteq Source /\ NoSource \notin Source
ASSUME BoundAssumption == MaxRuns \in Nat \ {0} /\ MaxCalls \in Nat \ {0}

VARIABLES pc,           \* where the background thread is in _thread_main
          stop,         \* _stop, the event
          run,          \* how often the thread was started
          engine,       \* _engine: the run that built it, 0 for None
          server,       \* the run's own server: "none" or "up"
          publisher,    \* the task that runs it: "none", "running", "failed", "ended"
          raised,       \* history: what the last exception of this run said
          snapshot,     \* _snapshot
          current,      \* st.session_state["source"]
          ui,           \* the interface thread: the call it is in
          wanted,       \* history: the last call was "start" or "stop"
          gaveUp,       \* history: a join timed out since the thread was started
          calls         \* calls of the interface so far

thread  == <<pc, run, server, publisher, raised>>
screen  == <<current, ui, wanted, gaveUp, calls>>
vars    == <<pc, stop, run, engine, server, publisher, raised, snapshot,
             current, ui, wanted, gaveUp, calls>>

\* Where the thread is inside the async with of the client, and in _run.
Connected == {"subscribe", "pump", "pass", "leave"}
Alive     == {"serve", "engine", "connect", "release", "close"} \cup Connected

\* The snapshot's error is None or the str of an exception, which is empty for
\* one without arguments, such as the TimeoutError of a call that took too long.
Text == {"empty", "text"}
Told == Text \cup {"none"}

\* charts, alarms and counters name the run whose collector and engine they
\* were taken from: chart_rows and capability_rows, the two alarm tuples, and
\* the fields every refresh replaces.
Snapshot == [connected : BOOLEAN, error : Told,
             charts : 0 .. MaxRuns, alarms : 0 .. MaxRuns, counters : 0 .. MaxRuns]

LiveSourceTypeOK ==
    /\ pc \in [Source -> Alive \cup {"none", "done"}]
    /\ stop \in [Source -> BOOLEAN]
    /\ run \in [Source -> 0 .. MaxRuns]
    /\ engine \in [Source -> 0 .. MaxRuns]
    /\ server \in [Source -> {"none", "up"}]
    /\ publisher \in [Source -> {"none", "running", "failed", "ended"}]
    /\ raised \in [Source -> Told]
    /\ snapshot \in [Source -> Snapshot]
    /\ current \in Source \cup {NoSource}
    /\ ui \in [call : {"idle", "stop", "replace"}, source : Source \cup {NoSource}]
    /\ wanted \in [Source -> {"none", "start", "stop"}]
    /\ gaveUp \in [Source -> BOOLEAN]
    /\ calls \in 0 .. MaxCalls

Running(s) == pc[s] \in Alive
IdleUi == [call |-> "idle", source |-> NoSource]

Init == /\ pc = [s \in Source |-> "none"]
        /\ stop = [s \in Source |-> FALSE]
        /\ run = [s \in Source |-> 0]
        /\ engine = [s \in Source |-> 0]
        /\ server = [s \in Source |-> "none"]
        /\ publisher = [s \in Source |-> "none"]
        /\ raised = [s \in Source |-> "none"]
        /\ snapshot = [s \in Source |-> [connected |-> FALSE, error |-> "none",
                                         charts |-> 0, alarms |-> 0, counters |-> 0]]
        /\ current = NoSource
        /\ ui = IdleUi
        /\ wanted = [s \in Source |-> "none"]
        /\ gaveUp = [s \in Source |-> FALSE]
        /\ calls = 0

-----------------------------------------------------------------------------
(* The background thread *)

Move(s, from, to)   == pc[s] = from /\ pc' = [pc EXCEPT ![s] = to]
Show(s, connected, error) ==
    snapshot' = [snapshot EXCEPT ![s] = [connected |-> connected, error |-> error,
                                         charts |-> @.charts, alarms |-> @.alarms,
                                         counters |-> @.counters]]
Raise(s, said) == raised' = [raised EXCEPT ![s] = said]

\* An exception leaves _run: asyncio.run cancels the publisher and
\* _thread_main tells of it.  A server that is up stays up.
Crash(s, said) ==
    /\ pc' = [pc EXCEPT ![s] = "done"]
    /\ Raise(s, said)
    /\ publisher' = [publisher EXCEPT ![s] = IF @ = "running" THEN "ended" ELSE @]
    /\ Show(s, FALSE, said)
    /\ UNCHANGED <<stop, run, engine, server, screen>>

\* Without an endpoint, a server of its own is started and a publisher for it.
Serve(s) ==
    /\ Move(s, "serve", "engine")
    /\ IF s \in Served
       THEN /\ server' = [server EXCEPT ![s] = "up"]
            /\ publisher' = [publisher EXCEPT ![s] = "running"]
       ELSE UNCHANGED <<server, publisher>>
    /\ UNCHANGED <<stop, run, engine, raised, snapshot, screen>>

ServeFails(s) == s \in Served /\ pc[s] = "serve" /\ \E said \in Text : Crash(s, said)

\* The collector and the engine are built; acknowledge_alarms finds the engine.
BuildEngine(s) ==
    /\ Move(s, "engine", "connect")
    /\ engine' = [engine EXCEPT ![s] = run[s]]
    /\ UNCHANGED <<stop, run, server, publisher, raised, snapshot, screen>>

\* A baseline or a window the engine refuses, and says so: raised before the try.
BuildEngineFails(s) == pc[s] = "engine" /\ Crash(s, "text")

Connect(s) ==
    /\ Move(s, "connect", "subscribe")
    /\ UNCHANGED <<stop, run, engine, server, publisher, raised, snapshot, screen>>

\* MachineClient.connect raises: nothing to disconnect, the except clause.
ConnectFails(s) ==
    /\ Move(s, "connect", "release")
    /\ \E said \in Text : Raise(s, said) /\ Show(s, FALSE, said)
    /\ UNCHANGED <<stop, run, engine, server, publisher, screen>>

\* Mutant: the error of the run before is left on the page.
SubscribeKeepingError(s) ==
    /\ Move(s, "subscribe", "pump")
    /\ Show(s, TRUE, snapshot[s].error)
    /\ UNCHANGED <<stop, run, engine, server, publisher, raised, screen>>

Subscribe(s) ==
    /\ Move(s, "subscribe", "pump")
    /\ Show(s, TRUE, "none")
    /\ UNCHANGED <<stop, run, engine, server, publisher, raised, screen>>

\* subscribe, handle or add raises: out of the async with, exception in hand.
ClientFails(s) ==
    /\ pc[s] \in {"subscribe", "pass"}
    /\ pc' = [pc EXCEPT ![s] = "leave"]
    /\ \E said \in Text : Raise(s, said)
    /\ UNCHANGED <<stop, run, engine, server, publisher, snapshot, screen>>

\* while not self._stop.is_set()
PumpOn(s) ==
    /\ ~ stop[s]
    /\ Move(s, "pump", "pass")
    /\ UNCHANGED <<stop, run, engine, server, publisher, raised, snapshot, screen>>

PumpEnds(s) ==
    /\ stop[s]
    /\ Move(s, "pump", "leave")
    /\ UNCHANGED <<stop, run, engine, server, publisher, raised, snapshot, screen>>

\* Mutant: the run is counted once more by every refresh.
RefreshedAhead(old, r, full) ==
    [connected |-> TRUE, error |-> old.error, counters |-> r + 1,
     charts |-> IF full THEN r ELSE old.charts,
     alarms |-> IF full THEN r ELSE old.alarms]

\* Mutant: the alarms are left to acknowledge_alarms.
RefreshedCharts(old, r, full) ==
    [connected |-> TRUE, error |-> old.error, counters |-> r,
     charts |-> IF full THEN r ELSE old.charts, alarms |-> old.alarms]

\* One pass of the loop: no refresh yet, one of the counters, or, when a
\* subgroup was completed, one of everything.
NoRefresh(s) ==
    /\ Move(s, "pass", "pump")
    /\ UNCHANGED <<stop, run, engine, server, publisher, raised, snapshot, screen>>

Refreshed(old, r, full) ==
    [connected |-> TRUE, error |-> old.error, counters |-> r,
     charts |-> IF full THEN r ELSE old.charts,
     alarms |-> IF full THEN r ELSE old.alarms]

Refresh(s) ==
    /\ Move(s, "pass", "pump")
    /\ \E full \in BOOLEAN :
         snapshot' = [snapshot EXCEPT ![s] = Refreshed(snapshot[s], run[s], full)]
    /\ UNCHANGED <<stop, run, engine, server, publisher, raised, screen>>

\* The client is disconnected, and an exception brought along reaches the
\* except clause, or in its place the one that disconnect raises.
Leave(s) ==
    /\ Move(s, "leave", "release")
    /\ IF raised[s] # "none" THEN Show(s, FALSE, raised[s]) ELSE UNCHANGED snapshot
    /\ UNCHANGED <<stop, run, engine, server, publisher, raised, screen>>

LeaveFails(s) ==
    /\ Move(s, "leave", "release")
    /\ \E said \in Text : Raise(s, said) /\ Show(s, FALSE, said)
    /\ UNCHANGED <<stop, run, engine, server, publisher, screen>>

\* finally: the publisher is cancelled and awaited.
Release(s) ==
    /\ publisher[s] # "failed"
    /\ Move(s, "release", "close")
    /\ publisher' = [publisher EXCEPT ![s] = IF @ = "running" THEN "ended" ELSE @]
    /\ UNCHANGED <<stop, run, engine, server, raised, snapshot, screen>>

\* Awaiting a publisher that has failed raises what it failed with: the rest
\* of the finally clause is skipped.
ReleaseFails(s) ==
    publisher[s] = "failed" /\ pc[s] = "release" /\ \E said \in Text : Crash(s, said)

\* Mutant: the finally clause ends with the server.
CloseOnly(s) ==
    /\ Move(s, "close", "done")
    /\ server' = [server EXCEPT ![s] = "none"]
    /\ UNCHANGED <<stop, run, engine, publisher, raised, snapshot, screen>>

\* server.stop, where there is a server, and the last word of the run.
Close(s) ==
    /\ Move(s, "close", "done")
    /\ server' = [server EXCEPT ![s] = "none"]
    /\ Show(s, FALSE, snapshot[s].error)
    /\ UNCHANGED <<stop, run, engine, publisher, raised, screen>>

CloseFails(s) == pc[s] = "close" /\ server[s] = "up" /\ \E said \in Text : Crash(s, said)

\* A step of the task of its own that publishes: nobody looks at it until the
\* finally clause.
PublisherFails(s) ==
    /\ publisher[s] = "running" /\ Running(s)
    /\ publisher' = [publisher EXCEPT ![s] = "failed"]
    /\ UNCHANGED <<pc, stop, run, engine, server, raised, snapshot, screen>>

ThreadStep(s) == \/ Serve(s)
                 \/ ServeFails(s)
                 \/ BuildEngine(s)
                 \/ BuildEngineFails(s)
                 \/ Connect(s)
                 \/ ConnectFails(s)
                 \/ Subscribe(s)
                 \/ ClientFails(s)
                 \/ PumpOn(s)
                 \/ PumpEnds(s)
                 \/ NoRefresh(s)
                 \/ Refresh(s)
                 \/ Leave(s)
                 \/ LeaveFails(s)
                 \/ Release(s)
                 \/ ReleaseFails(s)
                 \/ Close(s)
                 \/ CloseFails(s)

-----------------------------------------------------------------------------
(* The interface thread *)

Called == ui.call = "idle" /\ calls < MaxCalls /\ calls' = calls + 1

\* Mutant: the event stays set from the stop before.
LaunchStopped(s) ==
    /\ wanted' = [wanted EXCEPT ![s] = "start"]
    /\ IF Running(s)
       THEN UNCHANGED <<pc, run, server, publisher, raised, gaveUp>>
       ELSE /\ run[s] < MaxRuns
            /\ run' = [run EXCEPT ![s] = @ + 1]
            /\ pc' = [pc EXCEPT ![s] = "serve"]
            /\ server' = [server EXCEPT ![s] = "none"]
            /\ publisher' = [publisher EXCEPT ![s] = "none"]
            /\ raised' = [raised EXCEPT ![s] = "none"]
            /\ gaveUp' = [gaveUp EXCEPT ![s] = FALSE]
    /\ UNCHANGED <<stop, engine, snapshot>>

\* start: nothing if the thread is alive, whatever it was asked before.  The
\* new thread's _run has a server, a publisher and an exception of its own.
Launch(s) ==
    /\ wanted' = [wanted EXCEPT ![s] = "start"]
    /\ IF Running(s)
       THEN UNCHANGED <<pc, stop, run, server, publisher, raised, gaveUp>>
       ELSE /\ run[s] < MaxRuns
            /\ stop' = [stop EXCEPT ![s] = FALSE]
            /\ run' = [run EXCEPT ![s] = @ + 1]
            /\ pc' = [pc EXCEPT ![s] = "serve"]
            /\ server' = [server EXCEPT ![s] = "none"]
            /\ publisher' = [publisher EXCEPT ![s] = "none"]
            /\ raised' = [raised EXCEPT ![s] = "none"]
            /\ gaveUp' = [gaveUp EXCEPT ![s] = FALSE]
    /\ UNCHANGED <<engine, snapshot>>

Start ==
    /\ Called
    /\ current # NoSource
    /\ Launch(current)
    /\ UNCHANGED <<current, ui>>

\* stop sets the event and joins the thread.
Stop ==
    /\ Called
    /\ current # NoSource
    /\ stop' = [stop EXCEPT ![current] = TRUE]
    /\ wanted' = [wanted EXCEPT ![current] = "stop"]
    /\ ui' = [call |-> "stop", source |-> current]
    /\ UNCHANGED <<thread, engine, snapshot, current, gaveUp>>

\* acknowledge_alarms, under the lock, on whichever engine is in _engine.
Acknowledge ==
    /\ Called
    /\ current # NoSource
    /\ engine[current] # 0
    /\ snapshot' = [snapshot EXCEPT ![current] =
                      [connected |-> @.connected, error |-> @.error, charts |-> @.charts,
                       counters |-> @.counters, alarms |-> engine[current]]]
    /\ UNCHANGED <<thread, stop, engine, current, ui, wanted, gaveUp>>

Unused == {s \in Source : run[s] = 0}

\* Mutant: the page forgets the old source without stopping it.
GetSourceUnstopped ==
    /\ Called
    /\ current # NoSource /\ Unused # {}
    /\ ui' = [call |-> "replace", source |-> current]
    /\ wanted' = [wanted EXCEPT ![current] = "stop"]
    /\ UNCHANGED <<thread, stop, engine, snapshot, current, gaveUp>>

\* get_source with changed settings: the old source is stopped first ...
GetSource ==
    /\ Called
    /\ current # NoSource /\ Unused # {}
    /\ stop' = [stop EXCEPT ![current] = TRUE]
    /\ wanted' = [wanted EXCEPT ![current] = "stop"]
    /\ ui' = [call |-> "replace", source |-> current]
    /\ UNCHANGED <<thread, engine, snapshot, current, gaveUp>>

\* ... and on the first run of the page there is none.
FirstSource ==
    /\ Called
    /\ current = NoSource
    /\ ui' = [call |-> "replace", source |-> NoSource]
    /\ UNCHANGED <<thread, stop, engine, snapshot, current, wanted, gaveUp>>

\* join returns because the thread has ended or the timeout is over.
Join ==
    /\ ui.call = "stop"
    /\ gaveUp' = [gaveUp EXCEPT ![ui.source] = @ \/ Running(ui.source)]
    /\ ui' = IdleUi
    /\ UNCHANGED <<thread, stop, engine, snapshot, current, wanted, calls>>

JoinOld ==
    /\ ui.call = "replace" /\ ui.source # NoSource
    /\ gaveUp' = [gaveUp EXCEPT ![ui.source] = @ \/ Running(ui.source)]
    /\ ui' = [call |-> "replace", source |-> NoSource]
    /\ UNCHANGED <<thread, stop, engine, snapshot, current, wanted, calls>>

\* The new source is built, started and put into the session.
Replace ==
    /\ ui.call = "replace" /\ ui.source = NoSource
    /\ \E s \in Unused : Launch(s) /\ current' = s
    /\ ui' = IdleUi
    /\ UNCHANGED calls

InterfaceStep == Join \/ JoinOld \/ Replace

Next == \/ \E s \in Source : ThreadStep(s) \/ PublisherFails(s)
        \/ Start
        \/ Stop
        \/ Acknowledge
        \/ GetSource
        \/ FirstSource
        \/ InterfaceStep

\* Each thread runs: an await of the background thread ends or raises, the
\* client and the connection have timeouts, and a join has one.  A publisher
\* need not fail, and nobody has to press a button.
Fairness == /\ \A s \in Source : WF_vars(ThreadStep(s))
            /\ WF_vars(InterfaceStep)

Spec == Init /\ [][Next]_vars /\ Fairness

-----------------------------------------------------------------------------
(* Properties *)

\* "Connected" is on the page only while the thread is there to keep it true:
\* whatever raised and wherever, the last word of a run is "not connected"
\* (_run's except and finally, _thread_main's except).
EndsDisconnected ==
    \A s \in Source :
        snapshot[s].connected => pc[s] \in {"pump", "pass", "leave", "release", "close"}

\* The error on the page, where there is one to read: otherwise it says "no
\* OPC UA connection", as after a run that was stopped.
ErrorShown(s) == snapshot[s].error \notin {"none", "empty"}

\* When a run has ended, the snapshot holds what its last exception said, and
\* an error only if something raised in that run: none is swallowed by the
\* finally clause and none outlives a restart that went well.  A publisher that
\* failed and a port that was not given back are among what raised.  On the
\* page that is an error only if the exception says anything: one without text
\* ends a run like a stop, although "if snapshot.error" is there to tell them
\* apart.
FailuresAreRecorded ==
    \A s \in Source :
        pc[s] = "done" =>
            /\ snapshot[s].error = raised[s]
            /\ publisher[s] = "failed" \/ server[s] = "up" => raised[s] # "none"
            /\ ErrorShown(s) <=> raised[s] = "text"

\* What ends a thread without being asked to.
Failed(s) == raised[s] # "none" \/ publisher[s] = "failed"

\* A source whose last call was start has a thread that runs, or its run has
\* failed, or a stop gave up on the thread.  start does nothing for a thread that
\* is alive, so it is lost on one that an exception is about to end, and on one
\* that will still obey the stop that gave up; on no other.
StartedRunsOn ==
    \A s \in Source : wanted[s] = "start" => Running(s) \/ Failed(s) \/ gaveUp[s]

\* The alarms on the page are never older than the charts, the counters
\* never either, and in the first run there is nothing to mix: what is shown
\* together comes from one run until the source has been restarted.
OneRunOnScreen ==
    \A s \in Source :
        /\ snapshot[s].charts <= snapshot[s].alarms
        /\ snapshot[s].charts <= snapshot[s].counters
        /\ snapshot[s].alarms <= engine[s] /\ engine[s] <= run[s]
        /\ snapshot[s].counters <= engine[s]

\* A source the page has let go of: it has run and is not the current one.
Replaced(s) == s # current /\ run[s] > 0

\* A thread that was asked to stop ends, even if nobody waited for it and
\* whatever raises on the way, and so does that of every source the page has
\* replaced: none goes on publishing to nobody.
StoppedSourcesEnd ==
    \A s \in Source : Running(s) /\ (stop[s] \/ Replaced(s)) ~> ~ Running(s)
=============================================================================
