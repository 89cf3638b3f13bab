------------------------------ MODULE Pipeline ------------------------------
(***************************************************************************)
(* A part on its way from the machine to a subgroup.  The simulator        *)
(* finishes parts and publishes readings (simulator/machine.py), the       *)
(* server writes them into its nodes one by one (opcua_server.py, publish),*)
(* asyncua turns a change into a notification, the client buffers it       *)
(* (opcua_client.py, _enqueue) and the collector of module Collector takes *)
(* it (pipeline.py, collect_from_client; dashboard/live_source.py, _pump). *)
(*                                                                         *)
(* asyncua is not part of the source.  It notifies only what changed, keeps*)
(* for each tag its QueueSize newest values, and sends at each publishing  *)
(* interval the tags in the order in which they changed first, all values  *)
(* of one tag together.  A subscription opens with every current value.    *)
(*                                                                         *)
(* Three tags stand for all: BoreDiameter and PartCount change with a part,*)
(* Torque with every sample.                                               *)
(***************************************************************************)
EXTENDS Collector

CONSTANTS QueueSize,       \* the server's queue for one tag (queue_size)
          MaxQueue,        \* the client's buffer (max_queue)
          Effects,         \* what may be wrong with the bore sensor
          EarlySubscribe,  \* may a client subscribe before the first sample?
          MaxSamples       \* bound: samples the machine produces

ASSUME QueueSizeAssumption == QueueSize \in Nat \ {0}
ASSUME MaxQueueAssumption  == MaxQueue \in Nat \ {0}
ASSUME EffectsAssumption   == Effects \subseteq {"none", "varying", "stuck"}
ASSUME EarlyAssumption     == EarlySubscribe \in BOOLEAN
ASSUME SamplesAssumption   == MaxSamples \in Nat
ASSUME ReadingAssumption   ==
    [part : -1 .. MaxSamples, error : 0 .. MaxSamples] \subseteq Reading

VARIABLES made,        \* the simulator's _parts_completed
          samples,     \* its _sample_index: samples produced
          sample,      \* the sample being published; its bore is _last_published
          writing,     \* the tags that publish has yet to write
          node,        \* the server's nodes
          subscribed,  \* a client has subscribed
          batch,       \* asyncua: the tags that changed, by first change
          items,       \* asyncua: the values queued for each tag
          wire,        \* notifications sent and not yet received
          client,      \* the client's _queue and _latest, and what it dropped
          opened,      \* history: the bore reading the subscription opened with
          dropped,     \* history: the bore readings dropped in the server's queue
          skipped      \* history: the bore readings handled and not recorded

serverVars == <<made, samples, sample, writing, node>>
subscriptionVars == <<subscribed, batch, items, opened, dropped>>
vars == <<collectorVars, serverVars, subscriptionVars, wire, client, skipped>>

Tags == <<"BoreDiameter", "Torque", "PartCount">>
Tag == {Tags[i] : i \in DOMAIN Tags}

\* Readings are told apart by the part they measure and by the error that the
\* sensor adds to it: none (0), or that of one sample.  Part 0 is the reading
\* the simulator starts with, part -1 the nominal value that the node holds
\* before the first sample.
BoreReading(n, error) == [part |-> n, error |-> error]
Nominal == BoreReading(-1, 0)

Update(t, v) == [tag |-> t, value |-> v]

PipelineTypeOK ==
    /\ CollectorTypeOK
    /\ made \in 0 .. MaxSamples /\ samples \in 0 .. MaxSamples
    /\ \A s \in {sample, node} : s.BoreDiameter \in Reading /\ s.PartCount \in 0 .. made
    /\ \A i \in DOMAIN writing : writing[i] \in Tag
    /\ \A t \in Tag : Len(items[t]) <= QueueSize
    /\ {batch[i] : i \in DOMAIN batch} = {t \in Tag : items[t] # <<>>}
    /\ Len(batch) <= Cardinality(Tag)
    /\ Len(client.queue) <= MaxQueue

PipelineInit ==
    /\ CollectorInit
    /\ made = 0 /\ samples = 0
    /\ node = [BoreDiameter |-> Nominal, Torque |-> 0, PartCount |-> 0]
    /\ sample = node
    /\ writing = <<>>
    /\ subscribed = FALSE
    /\ batch = <<>>
    /\ items = [t \in Tag |-> <<>>]
    /\ wire = <<>>
    /\ client = [queue |-> <<>>, latest |-> [t \in {} |-> 0], dropped |-> {}]
    /\ opened = Nominal
    /\ dropped = {} /\ skipped = {}

-----------------------------------------------------------------------------
(* The machine *)

\* _publish: the reading of a bore under a sensor fault.  SensorNoise and
\* SensorDrift add to each sample an error of its own: the noise is drawn anew
\* and the drift grows with the time.  SensorStuck repeats what was published.
Published(effect, n) ==
    CASE effect = "none"    -> BoreReading(n, 0)
      [] effect = "varying" -> BoreReading(n, samples + 1)
      [] effect = "stuck"   -> IF samples = 0 THEN BoreReading(n, 0) ELSE sample.BoreDiameter

\* step: the first sample comes too early for a part.
Step(effect, completed) ==
    /\ writing = <<>>
    /\ samples < MaxSamples
    /\ completed => samples > 0
    /\ made' = IF completed THEN made + 1 ELSE made
    /\ samples' = samples + 1
    /\ sample' = [BoreDiameter |-> Published(effect, made'), Torque |-> samples + 1,
                  PartCount |-> made']
    /\ writing' = Tags
    /\ UNCHANGED <<collectorVars, node, subscriptionVars, wire, client, skipped>>

-----------------------------------------------------------------------------
(* The server and its subscription *)

\* A notification for a tag: a full queue loses its oldest value.
Trigger(t, v) ==
    LET full == Len(items[t]) >= QueueSize
        kept == IF full THEN Tail(items[t]) ELSE items[t]
    IN  /\ items' = [items EXCEPT ![t] = Append(kept, v)]
        /\ batch' = IF items[t] = <<>> THEN Append(batch, t) ELSE batch
        /\ dropped' = IF full /\ t = "BoreDiameter" THEN dropped \cup {Head(items[t])}
                      ELSE dropped

\* publish writes the next tag; a value that is not new notifies nobody.
WriteTag ==
    /\ writing # <<>>
    /\ LET t == Head(writing)
       IN  /\ node' = [node EXCEPT ![t] = sample[t]]
           /\ IF subscribed /\ node[t] # sample[t] THEN Trigger(t, sample[t])
              ELSE UNCHANGED <<items, batch, dropped>>
    /\ writing' = Tail(writing)
    /\ UNCHANGED <<collectorVars, made, samples, sample, subscribed, wire, client,
                   opened, skipped>>

\* subscribe: the subscription opens with the current value of every tag.
Subscribe ==
    /\ ~ subscribed
    /\ EarlySubscribe \/ node.BoreDiameter # Nominal
    /\ subscribed' = TRUE
    /\ batch' = Tags
    /\ items' = [t \in Tag |-> <<node[t]>>]
    /\ opened' = node.BoreDiameter
    /\ UNCHANGED <<collectorVars, serverVars, wire, client, dropped, skipped>>

\* A publishing interval is over: what is queued is sent, tag by tag.  There are
\* three tags.
Queued(k) ==
    IF k > Len(batch) THEN <<>>
    ELSE [i \in DOMAIN items[batch[k]] |-> Update(batch[k], items[batch[k]][i])]

Notifications == Queued(1) \o Queued(2) \o Queued(3)

PublishInterval ==
    /\ batch # <<>>
    /\ wire' = wire \o Notifications
    /\ batch' = <<>>
    /\ items' = [t \in Tag |-> <<>>]
    /\ UNCHANGED <<collectorVars, serverVars, subscribed, opened, dropped, client, skipped>>

-----------------------------------------------------------------------------
(* The client *)

Latest(c, u) == [t \in DOMAIN c.latest \cup {u.tag} |->
                   IF t = u.tag THEN u.value ELSE c.latest[t]]

\* Mutant: a full buffer turns the arriving update away, and nobody counts it.
EnqueueTurningAway(c, u) ==
    IF Len(c.queue) >= MaxQueue THEN [c EXCEPT !.latest = Latest(c, u)]
    ELSE [queue |-> Append(c.queue, u), latest |-> Latest(c, u), dropped |-> c.dropped]

\* Mutant: the latest value is kept only for updates that find room.
EnqueueLatestIfRoom(c, u) ==
    IF Len(c.queue) >= MaxQueue
    THEN [queue |-> Append(Tail(c.queue), u), latest |-> c.latest,
          dropped |-> c.dropped \cup {Head(c.queue)}]
    ELSE [queue |-> Append(c.queue, u), latest |-> Latest(c, u), dropped |-> c.dropped]

\* Mutant: the buffer is one longer than it may be.
EnqueueOneMore(c, u) ==
    IF Len(c.queue) > MaxQueue
    THEN [queue |-> Append(Tail(c.queue), u), latest |-> Latest(c, u),
          dropped |-> c.dropped \cup {Head(c.queue)}]
    ELSE [queue |-> Append(c.queue, u), latest |-> Latest(c, u), dropped |-> c.dropped]

\* _enqueue: the latest value is kept in any case, a full buffer drops its
\* oldest update.
Enqueue(c, u) ==
    IF Len(c.queue) >= MaxQueue
    THEN [queue |-> Append(Tail(c.queue), u), latest |-> Latest(c, u),
          dropped |-> c.dropped \cup {Head(c.queue)}]
    ELSE [queue |-> Append(c.queue, u), latest |-> Latest(c, u), dropped |-> c.dropped]

\* datachange_notification.
Receive ==
    /\ wire # <<>>
    /\ client' = Enqueue(client, Head(wire))
    /\ wire' = Tail(wire)
    /\ UNCHANGED <<collectorVars, serverVars, subscriptionVars, skipped>>

\* Mutant: the update is looked at and stays in the buffer.
TakeNothing == UNCHANGED client

\* Mutant: nothing is taken before the buffer is full.
TakeWhenFull == /\ Len(client.queue) >= MaxQueue
                /\ client' = [client EXCEPT !.queue = Tail(client.queue)]

\* The update that updates() yields leaves the buffer.
Take == client' = [client EXCEPT !.queue = Tail(client.queue)]

\* One turn of the loop in collect_from_client or _pump: the next update is
\* handed to the collector.
Handle ==
    /\ client.queue # <<>>
    /\ Take
    /\ LET u == Head(client.queue)
       IN  CASE u.tag = "BoreDiameter" ->
                  /\ HandleChart(u.value)
                  /\ skipped' = IF parts' = parts THEN skipped \cup {u.value} ELSE skipped
             [] u.tag = "PartCount" -> HandlePartCount(u.value) /\ UNCHANGED skipped
             [] u.tag = "Torque"    -> HandleOther /\ UNCHANGED skipped
    /\ UNCHANGED <<serverVars, subscriptionVars, wire>>

PipelineNext ==
    \/ \E effect \in Effects : \E completed \in BOOLEAN : Step(effect, completed)
    \/ WriteTag
    \/ Subscribe
    \/ PublishInterval
    \/ Receive
    \/ Handle

\* The publisher task, the subscription, the client's receive loop and the
\* draining loop are tasks of event loops that keep running.  Nothing makes a
\* part come or a client subscribe.
PipelineFairness ==
    /\ WF_vars(WriteTag)
    /\ WF_vars(PublishInterval)
    /\ WF_vars(Receive)
    /\ WF_vars(Handle)

PipelineSpec == PipelineInit /\ [][PipelineNext]_vars /\ PipelineFairness

-----------------------------------------------------------------------------
(* Properties *)

Recorded == {parts[i].value : i \in DOMAIN parts}

BoreIn(updates) == {updates[i].value : i \in {j \in DOMAIN updates :
                                                updates[j].tag = "BoreDiameter"}}
Dropped == dropped \cup {u.value : u \in {d \in client.dropped : d.tag = "BoreDiameter"}}
InFlight == {items.BoreDiameter[i] : i \in DOMAIN items.BoreDiameter}
            \cup BoreIn(wire) \cup BoreIn(client.queue)

\* Nothing of what the machine has published is under way.
AtRest == subscribed /\ writing = <<>> /\ batch = <<>> /\ wire = <<>> /\ client.queue = <<>>

\* The parts are recorded in the order in which the machine made them, none twice.
RecordedInOrder ==
    \A i, j \in DOMAIN parts : i < j => parts[i].value.part < parts[j].value.part

\* A part published since the subscription is in exactly one place: on its way,
\* recorded, skipped as the opening reading or in the warm-up, or dropped from
\* one of the two queues.
EveryPartAccountedFor ==
    subscribed =>
      \A n \in opened.part .. node.BoreDiameter.part :
          Cardinality({place \in {<<"on its way", InFlight>>, <<"recorded", Recorded>>,
                                  <<"skipped", skipped>>, <<"dropped", Dropped>>} :
                         BoreReading(n, 0) \in place[2]}) = 1

NeverReceived == (1 .. made) \ {v.part : v \in Recorded \cup skipped}

\* The readings skipped are the opening one and then those of the warm-up: the
\* opening one is a part's unless it shows the part 0 of a machine just started.
OpeningWasAPart == skipped # {} /\ \A v \in skipped : v.part > 0

\* When all is handled and the machine's count has come through, missed_parts
\* is the number of parts whose reading never came to the collector, and one
\* more whenever the opening reading was a part's: it was received, and neither
\* recorded nor counted as warm-up.  "Parts the machine says it made that we
\* never received a value for" holds only of a client that was there before the
\* first part; the page of any other tells of one part more than "never arrived".
MissedPartsCountTheOpening ==
    AtRest /\ partCount = made =>
      MissedParts = Cardinality(NeverReceived) + (IF OpeningWasAPart THEN 1 ELSE 0)

\* The dashboard shows the collector's value of a tag with the age of the
\* client's (live_source.py, _refresh).  The client's is the server's once
\* nothing is under way, however many updates were dropped.  The collector's is
\* older than its age says only while the newer one waits in the buffer, or
\* for good once the buffer has dropped it.
ShownIsCurrent ==
    /\ AtRest => client.latest = node
    /\ \A n \in {client.latest[t] : t \in DOMAIN client.latest \cap {"PartCount"}} :
         \/ partCount = n
         \/ Update("PartCount", n) \in {client.queue[i] : i \in DOMAIN client.queue}
         \/ Update("PartCount", n) \in client.dropped

\* Whatever is published is handled: the pipeline comes to rest again and again.
ComesToRest == []<>(subscribed => AtRest)

-----------------------------------------------------------------------------
(* What the documentation says, and the code does not keep *)

\* "one BoreDiameter notification is exactly one finished part"
OneRecordPerPart ==
    \A i, j \in DOMAIN parts : parts[i].value.part = parts[j].value.part => i = j
=============================================================================
