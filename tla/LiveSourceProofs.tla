-------------------------- MODULE LiveSourceProofs --------------------------
(***************************************************************************)
(* Proofs about LiveSource, for any set of sources, served or not, and any *)
(* bounds.  What is known of a source while its thread is on its way is    *)
(* SourceInv; the properties follow from it.  Every action changes    *)
(* the entries of one source.                                              *)
(***************************************************************************)
EXTENDS LiveSource, TLAPS

\* What has happened to the exception of a run, by the place of its thread:
\* before the client is left there is none, then the except clause tells of it.
FailureInv(s) ==
    /\ pc[s] \in {"serve", "engine", "connect", "subscribe", "pump", "pass"} => raised[s] = "none"
    /\ pc[s] \in {"pump", "pass"} => snapshot[s].error = "none"
    /\ pc[s] = "leave" => raised[s] # "none" \/ snapshot[s].error = "none"
    /\ pc[s] \in {"release", "close", "done"} => snapshot[s].error = raised[s]
    /\ pc[s] = "close" => publisher[s] \in {"none", "ended"}
    /\ pc[s] = "done" => (publisher[s] = "failed" \/ server[s] = "up" => raised[s] # "none")

ConnectedInv(s) ==
    snapshot[s].connected => pc[s] \in {"pump", "pass", "leave", "release", "close"}

\* A thread that was asked to stop is being waited for, or was given up, and
\* one that nobody asked has no other way out of the loop than an exception.
StopInv(s) ==
    /\ pc[s] \in {"leave", "release", "close", "done"} => stop[s] \/ raised[s] # "none"
    /\ wanted[s] = "start" => pc[s] # "none"
    /\ stop[s] /\ Running(s) => gaveUp[s] \/ ui.source = s
    /\ wanted[s] = "start" /\ stop[s] => gaveUp[s]
    /\ run[s] = 0 => pc[s] = "none"

\* From its first await on, the client is connected for the engine of the run.
RunsInv(s) ==
    /\ snapshot[s].charts <= snapshot[s].alarms
    /\ snapshot[s].charts <= snapshot[s].counters
    /\ snapshot[s].alarms <= engine[s]
    /\ snapshot[s].counters <= engine[s]
    /\ engine[s] <= run[s]
    /\ pc[s] \in {"connect", "subscribe", "pump", "pass"} => engine[s] = run[s]

UiInv == ui.call = "idle" => ui.source = NoSource

SourceInv(s) == FailureInv(s) /\ ConnectedInv(s) /\ StopInv(s) /\ RunsInv(s)

IInv == LiveSourceTypeOK /\ UiInv /\ \A s \in Source : SourceInv(s)

-----------------------------------------------------------------------------
(* The background thread *)

\* A step of a background thread changes no variable of the interface.
LEMMA ThreadKeepsType ==
    ASSUME NEW s \in Source, LiveSourceTypeOK, ThreadStep(s) \/ PublisherFails(s)
    PROVE  LiveSourceTypeOK'
  <1> USE SourceAssumption, BoundAssumption
  <1> USE DEF LiveSourceTypeOK, Snapshot, Alive, Connected, Show, Text, Told, Raise, Move, Crash, thread,
              screen
  <1>1. CASE Serve(s)            BY <1>1 DEF Serve
  <1>2. CASE ServeFails(s)       BY <1>2 DEF ServeFails
  <1>3. CASE BuildEngine(s)      BY <1>3 DEF BuildEngine
  <1>4. CASE BuildEngineFails(s) BY <1>4 DEF BuildEngineFails
  <1>5. CASE Connect(s)          BY <1>5 DEF Connect
  <1>6. CASE ConnectFails(s)     BY <1>6 DEF ConnectFails
  <1>7. CASE Subscribe(s)        BY <1>7 DEF Subscribe
  <1>8. CASE ClientFails(s)      BY <1>8 DEF ClientFails
  <1>9. CASE PumpOn(s)           BY <1>9 DEF PumpOn
  <1>10. CASE PumpEnds(s)        BY <1>10 DEF PumpEnds
  <1>11. CASE NoRefresh(s)       BY <1>11 DEF NoRefresh
  <1>12. CASE Refresh(s)         BY <1>12 DEF Refresh, Refreshed
  <1>13. CASE Leave(s)
    <2>1. CASE raised[s] # "none"
      <3>1. /\ Move(s, "leave", "release") /\ Show(s, FALSE, raised[s])
            /\ UNCHANGED <<stop, run, engine, server, publisher, raised, screen>>
                                 BY ONLY <1>13, <2>1, Zenon DEF Leave
      <3> QED                    BY <3>1
    <2>2. CASE raised[s] = "none" BY <1>13, <2>2 DEF Leave
    <2> QED                      BY <2>1, <2>2
  <1>14. CASE LeaveFails(s)      BY <1>14 DEF LeaveFails
  <1>15. CASE Release(s)         BY <1>15 DEF Release
  <1>16. CASE ReleaseFails(s)    BY <1>16 DEF ReleaseFails
  <1>17. CASE Close(s)           BY <1>17 DEF Close
  <1>18. CASE CloseFails(s)      BY <1>18 DEF CloseFails
  <1>19. CASE PublisherFails(s)  BY <1>19 DEF PublisherFails
  <1> QED
    BY <1>1, <1>2, <1>3, <1>4, <1>5, <1>6, <1>7, <1>8, <1>9, <1>10, <1>11, <1>12, <1>13,
       <1>14, <1>15, <1>16, <1>17, <1>18, <1>19 DEF ThreadStep

\* Where the thread stands, what it knows and what it shows, for every source:
\* the others are left alone.
LEMMA ThreadKeepsSources ==
    ASSUME NEW s \in Source, IInv, ThreadStep(s) \/ PublisherFails(s), NEW t \in Source
    PROVE  SourceInv(t)'
  <1> USE SourceAssumption, BoundAssumption
  <1> USE DEF IInv, LiveSourceTypeOK, Snapshot, Alive, Connected, Running, Show, Text, Told, Raise, Move,
              Crash, thread, screen, SourceInv, FailureInv, ConnectedInv, StopInv, RunsInv
  <1>1. CASE Serve(s)            BY <1>1 DEF Serve
  <1>2. CASE ServeFails(s)       BY <1>2 DEF ServeFails
  <1>3. CASE BuildEngine(s)      BY <1>3 DEF BuildEngine
  <1>4. CASE BuildEngineFails(s) BY <1>4 DEF BuildEngineFails
  <1>5. CASE Connect(s)          BY <1>5 DEF Connect
  <1>6. CASE ConnectFails(s)     BY <1>6 DEF ConnectFails
  <1>7. CASE Subscribe(s)        BY <1>7 DEF Subscribe
  <1>8. CASE ClientFails(s)      BY <1>8 DEF ClientFails
  <1>9. CASE PumpOn(s)           BY <1>9 DEF PumpOn
  <1>10. CASE PumpEnds(s)        BY <1>10 DEF PumpEnds
  <1>11. CASE NoRefresh(s)       BY <1>11 DEF NoRefresh
  <1>12. CASE Refresh(s)         BY <1>12 DEF Refresh, Refreshed
  <1>13. CASE Leave(s)           BY <1>13 DEF Leave
  <1>14. CASE LeaveFails(s)      BY <1>14 DEF LeaveFails
  <1>15. CASE Release(s)         BY <1>15 DEF Release
  <1>16. CASE ReleaseFails(s)    BY <1>16 DEF ReleaseFails
  <1>17. CASE Close(s)           BY <1>17 DEF Close
  <1>18. CASE CloseFails(s)      BY <1>18 DEF CloseFails
  <1>19. CASE PublisherFails(s)  BY <1>19 DEF PublisherFails
  <1> QED
    BY <1>1, <1>2, <1>3, <1>4, <1>5, <1>6, <1>7, <1>8, <1>9, <1>10, <1>11, <1>12, <1>13,
       <1>14, <1>15, <1>16, <1>17, <1>18, <1>19 DEF ThreadStep

LEMMA ThreadKeepsInv ==
    ASSUME NEW s \in Source, IInv, ThreadStep(s) \/ PublisherFails(s)
    PROVE  IInv'
  <1>1. LiveSourceTypeOK'
    BY ThreadKeepsType DEF IInv
  <1>2. UNCHANGED ui
    BY DEF ThreadStep, screen, Crash, Serve, ServeFails, BuildEngine, BuildEngineFails, Connect,
       ConnectFails, Subscribe, ClientFails, PumpOn, PumpEnds, NoRefresh, Refresh, Leave,
       LeaveFails, Release, ReleaseFails, Close, CloseFails, PublisherFails
  <1>3. \A t \in Source : SourceInv(t)'
    BY ThreadKeepsSources
  <1> QED
    BY <1>1, <1>2, <1>3 DEF IInv, UiInv

-----------------------------------------------------------------------------
(* The interface thread *)

\* start when the thread is not alive: a new run.
LEMMA LaunchKeepsType ==
    ASSUME NEW s \in Source, LiveSourceTypeOK, Launch(s), pc[s] \notin Alive,
           current' \in Source, ui' = IdleUi, calls' \in 0 .. MaxCalls
    PROVE  LiveSourceTypeOK'
  <1>1. /\ run[s] < MaxRuns
        /\ stop' = [stop EXCEPT ![s] = FALSE]
        /\ run' = [run EXCEPT ![s] = run[s] + 1]
        /\ pc' = [pc EXCEPT ![s] = "serve"]
        /\ server' = [server EXCEPT ![s] = "none"]
        /\ publisher' = [publisher EXCEPT ![s] = "none"]
        /\ raised' = [raised EXCEPT ![s] = "none"]
        /\ gaveUp' = [gaveUp EXCEPT ![s] = FALSE]
        /\ wanted' = [wanted EXCEPT ![s] = "start"]
        /\ UNCHANGED <<engine, snapshot>>
    BY DEF Launch, Running
  <1>2. run[s] + 1 \in 0 .. MaxRuns
    BY <1>1, BoundAssumption DEF LiveSourceTypeOK
  <1>3. run' \in [Source -> 0 .. MaxRuns]
    BY <1>1, <1>2 DEF LiveSourceTypeOK
  <1>4. /\ pc' \in [Source -> Alive \cup {"none", "done"}]
        /\ stop' \in [Source -> BOOLEAN]
        /\ server' \in [Source -> {"none", "up"}]
        /\ publisher' \in [Source -> {"none", "running", "failed", "ended"}]
        /\ raised' \in [Source -> Told]
        /\ wanted' \in [Source -> {"none", "start", "stop"}]
        /\ gaveUp' \in [Source -> BOOLEAN]
    BY <1>1 DEF LiveSourceTypeOK, Alive, Told
  <1> QED
    BY <1>1, <1>3, <1>4 DEF LiveSourceTypeOK, IdleUi

LEMMA InterfaceKeepsInv ==
    ASSUME IInv, \/ Start \/ Stop \/ Acknowledge \/ GetSource \/ FirstSource \/ InterfaceStep
    PROVE  IInv'
  <1> USE SourceAssumption, BoundAssumption
  <1> USE DEF IInv, LiveSourceTypeOK, Snapshot, Told, Text, Alive, Connected, Running, Called, IdleUi, UiInv,
              SourceInv, FailureInv, ConnectedInv, StopInv, RunsInv, thread
  <1>1. CASE Start
    <2>1. Launch(current) /\ ui.source = NoSource /\ ui.call = "idle" /\ UNCHANGED <<current, ui>>
          /\ current \in Source /\ calls < MaxCalls /\ calls' = calls + 1
      BY <1>1 DEF Start
    <2>2. CASE pc[current] \in Alive
      BY <2>1, <2>2 DEF Launch
    <2>3. CASE pc[current] \notin Alive
      <3>1. LiveSourceTypeOK' /\ UiInv'
        BY <2>1, <2>3, LaunchKeepsType, SMTT(30)
      <3>2. ASSUME NEW t \in Source PROVE SourceInv(t)'
        <4>1. CASE t = current   BY <2>1, <2>3, <4>1 DEF Launch
        <4>2. CASE t # current   BY <2>1, <2>3, <4>2 DEF Launch
        <4> QED BY <4>1, <4>2
      <3> QED BY <3>1, <3>2
    <2> QED BY <2>2, <2>3
  <1>2. CASE Stop            BY <1>2 DEF Stop
  <1>3. CASE Acknowledge     BY <1>3 DEF Acknowledge
  <1>4. CASE GetSource       BY <1>4 DEF GetSource
  <1>5. CASE FirstSource     BY <1>5 DEF FirstSource
  <1>6. CASE Join
    <2>1. LiveSourceTypeOK' /\ UiInv'
      BY <1>6 DEF Join
    <2>2. ASSUME NEW t \in Source PROVE SourceInv(t)'
      <3>1. CASE t = ui.source   BY <1>6, <3>1 DEF Join
      <3>2. CASE t # ui.source   BY <1>6, <3>2 DEF Join
      <3> QED BY <3>1, <3>2
    <2> QED BY <2>1, <2>2
  <1>7. CASE JoinOld         BY <1>7 DEF JoinOld
  <1>8. CASE Replace
    <2>1. PICK s \in Unused : Launch(s) /\ current' = s
      BY <1>8 DEF Replace
    <2>2. run[s] = 0 /\ s \in Source /\ pc[s] \notin Alive
      BY <2>1 DEF Unused
    <2>3. ui.source = NoSource /\ ui' = IdleUi /\ UNCHANGED calls
      BY <1>8 DEF Replace
    <2>4. LiveSourceTypeOK' /\ UiInv'
      BY <2>1, <2>2, <2>3, LaunchKeepsType
    <2>5. ASSUME NEW t \in Source PROVE SourceInv(t)'
      <3>1. CASE t = s           BY <2>1, <2>2, <2>3, <3>1 DEF Launch
      <3>2. CASE t # s           BY <2>1, <2>2, <2>3, <3>2 DEF Launch
      <3> QED BY <3>1, <3>2
    <2> QED BY <2>4, <2>5
  <1> QED
    BY <1>1, <1>2, <1>3, <1>4, <1>5, <1>6, <1>7, <1>8 DEF InterfaceStep

-----------------------------------------------------------------------------
(* The theorems *)

LEMMA InitInv == Init => IInv
  BY SourceAssumption, BoundAssumption
     DEF Init, IInv, LiveSourceTypeOK, Snapshot, Told, Text, IdleUi, UiInv, SourceInv, FailureInv,
         ConnectedInv, StopInv, RunsInv, Running, Alive, Connected

LEMMA NextInv == IInv /\ [Next]_vars => IInv'
  <1> SUFFICES ASSUME IInv, [Next]_vars PROVE IInv'
    OBVIOUS
  <1>1. CASE \E s \in Source : ThreadStep(s) \/ PublisherFails(s)
    BY <1>1, ThreadKeepsInv
  <1>2. CASE \/ Start \/ Stop \/ Acknowledge \/ GetSource \/ FirstSource \/ InterfaceStep
    BY <1>2, InterfaceKeepsInv
  <1>3. CASE UNCHANGED vars
    BY <1>3 DEF vars, IInv, LiveSourceTypeOK, UiInv, SourceInv, FailureInv, ConnectedInv,
                StopInv, RunsInv, Running
  <1> QED
    BY <1>1, <1>2, <1>3 DEF Next

\* The strengthening holds in every reachable state.
THEOREM Invariance == Spec => []IInv
  <1> QED BY InitInv, NextInv, PTL DEF Spec

\* Every variable keeps its type, whatever is called in whatever order.
THEOREM LiveSourceTypeCorrect == Spec => []LiveSourceTypeOK
  <1>1. IInv => LiveSourceTypeOK
    BY DEF IInv
  <1> QED BY <1>1, Invariance, PTL

\* The page says "connected" only while the thread is there to keep it true:
\* _refresh, the two except clauses and finally, in whatever order they write.
THEOREM ConnectedCorrect == Spec => []EndsDisconnected
  <1>1. IInv => EndsDisconnected
    BY DEF IInv, SourceInv, ConnectedInv, EndsDisconnected
  <1> QED BY <1>1, Invariance, PTL

\* A run that has ended leaves in the snapshot what its last exception said, and
\* nothing if none was raised; the page shows it unless it is empty.
THEOREM FailuresCorrect == Spec => []FailuresAreRecorded
  <1>1. IInv => FailuresAreRecorded
    BY DEF IInv, LiveSourceTypeOK, Told, Text, SourceInv, FailureInv, FailuresAreRecorded,
           ErrorShown
  <1> QED BY <1>1, Invariance, PTL

\* A source whose last call was start has a thread that runs, unless its run
\* has failed or a stop gave up on the thread: a start is lost in no other way.
THEOREM StartCorrect == Spec => []StartedRunsOn
  <1>1. IInv => StartedRunsOn
    BY DEF IInv, LiveSourceTypeOK, SourceInv, StopInv, StartedRunsOn, Running, Failed
  <1> QED BY <1>1, Invariance, PTL

\* What is shown together comes from runs in the order in which they were
\* started, also while an acknowledgement works on the engine before.
THEOREM OneRunCorrect == Spec => []OneRunOnScreen
  <1>1. IInv => OneRunOnScreen
    BY DEF IInv, SourceInv, RunsInv, OneRunOnScreen
  <1> QED BY <1>1, Invariance, PTL
=============================================================================
