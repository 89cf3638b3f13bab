------------------------------ MODULE Collector ------------------------------
(***************************************************************************)
(* pipeline.py, class DataCollector, with the SubgroupBuilder it feeds     *)
(* (spc/subgroups.py): tag updates in, parts and subgroups out.  handle is *)
(* one action per kind of update; Pipeline feeds it from the client's      *)
(* queue, and Spec below from any sequence of updates at all.              *)
(*                                                                         *)
(* The builder keeps values, part indices and timestamps in three lists    *)
(* that grow and shrink together; here it keeps the part records.  The     *)
(* context of a part is reduced to the PartCount that handle reads.        *)
(***************************************************************************)
EXTENDS Integers, Sequences, FiniteSets

CONSTANTS Size,         \* subgroup_size: parts per subgroup
          Warmup,       \* warmup_parts: parts skipped at the start
          SkipInitial,  \* skip_initial_snapshot
          Reading,      \* the values the charted tag can have
          MaxUpdates    \* bound: updates handled

\* The builder refuses sizes outside MIN_SUBGROUP_SIZE .. MAX_SUBGROUP_SIZE,
\* and the collector makes a negative warmup zero.
ASSUME SizeAssumption    == Size \in 2 .. 25
ASSUME WarmupAssumption  == Warmup \in Nat
ASSUME SkipAssumption    == SkipInitial \in BOOLEAN
ASSUME UpdatesAssumption == MaxUpdates \in Nat

VARIABLES received,         \* _received: updates handled
          partCount,        \* _last_part_count and _latest["PartCount"]
          snapshotSkipped,  \* _skipped_snapshot
          skippedWarmup,    \* _skipped_warmup
          parts,            \* _parts: every part recorded
          pending,          \* the builder's partial subgroup
          emitted,          \* the builder's _emitted
          subgroups,        \* _subgroups: every complete subgroup
          charted,          \* history: updates of the charted tag
          breaks,           \* history: the part counts at which production stopped
          discarded         \* history: the sequence numbers thrown away with them

collectorVars == <<received, partCount, snapshotSkipped, skippedWarmup, parts,
                   pending, emitted, subgroups, charted, breaks, discarded>>

\* _last_part_count is None until the first PartCount; part_index is then -1.
NoCount == -1

Part == [sequence : Nat, part_index : Int, value : Reading]
Subgroup == [index : Nat, parts : Seq(Part)]

CollectorTypeOK ==
    /\ received \in Nat
    /\ partCount \in Int
    /\ snapshotSkipped \in BOOLEAN
    /\ skippedWarmup \in 0 .. Warmup
    /\ parts \in Seq(Part)
    /\ pending \in Seq(Part)
    /\ emitted \in Nat
    /\ subgroups \in Seq(Subgroup)
    /\ charted \in Nat
    /\ breaks \subseteq Nat
    /\ discarded \subseteq Nat

CollectorInit ==
    /\ received = 0
    /\ partCount = NoCount
    /\ snapshotSkipped = FALSE
    /\ skippedWarmup = 0
    /\ parts = <<>>
    /\ pending = <<>>
    /\ emitted = 0
    /\ subgroups = <<>>
    /\ charted = 0
    /\ breaks = {}
    /\ discarded = {}

AtLeastZero(n) == IF n > 0 THEN n ELSE 0

\* Mutant: the parts of the warm-up count as missed.
MissedWithWarmup ==
    IF partCount = NoCount THEN 0 ELSE AtLeastZero(partCount - Len(parts))

\* missed_parts
MissedParts ==
    IF partCount = NoCount THEN 0
    ELSE AtLeastZero(partCount - skippedWarmup - Len(parts))

-----------------------------------------------------------------------------
(* handle *)

\* An update of a tag that is neither charted nor PartCount.
HandleOther ==
    /\ received < MaxUpdates
    /\ received' = received + 1
    /\ UNCHANGED <<partCount, snapshotSkipped, skippedWarmup, parts, pending,
                   emitted, subgroups, charted, breaks, discarded>>

HandlePartCount(n) ==
    /\ received < MaxUpdates
    /\ received' = received + 1
    /\ partCount' = n
    /\ UNCHANGED <<snapshotSkipped, skippedWarmup, parts, pending, emitted,
                   subgroups, charted, breaks, discarded>>

Opening == SkipInitial /\ ~ snapshotSkipped

WarmingUp == ~ Opening /\ skippedWarmup < Warmup
Collecting == ~ Opening /\ ~ WarmingUp

\* The opening notification of a subscription is not a part.
SkipOpening ==
    /\ Opening
    /\ snapshotSkipped' = TRUE
    /\ UNCHANGED <<skippedWarmup, parts, pending, emitted, subgroups>>

SkipWarmup ==
    /\ WarmingUp
    /\ skippedWarmup' = skippedWarmup + 1
    /\ UNCHANGED <<snapshotSkipped, parts, pending, emitted, subgroups>>

\* Mutant: the builder waits for one part more than a subgroup holds.
BuilderAddOneLate(part) ==
    LET filled == Append(pending, part)
    IN  \/ /\ Len(filled) <= Size
           /\ pending' = filled
           /\ UNCHANGED <<emitted, subgroups>>
        \/ /\ Len(filled) > Size
           /\ subgroups' = Append(subgroups, [index |-> emitted, parts |-> filled])
           /\ emitted' = emitted + 1
           /\ pending' = <<>>

\* Mutant: the builder emits and drops only the oldest part of its lists.
BuilderSlides(part) ==
    LET filled == Append(pending, part)
    IN  \/ /\ Len(filled) < Size
           /\ pending' = filled
           /\ UNCHANGED <<emitted, subgroups>>
        \/ /\ Len(filled) >= Size
           /\ subgroups' = Append(subgroups, [index |-> emitted, parts |-> filled])
           /\ emitted' = emitted + 1
           /\ pending' = Tail(filled)

\* SubgroupBuilder.add: the part joins the partial subgroup; a full one is
\* emitted and the builder starts over.
BuilderAdd(part) ==
    LET filled == Append(pending, part)
    IN  \/ /\ Len(filled) < Size
           /\ pending' = filled
           /\ UNCHANGED <<emitted, subgroups>>
        \/ /\ Len(filled) >= Size
           /\ subgroups' = Append(subgroups, [index |-> emitted, parts |-> filled])
           /\ emitted' = emitted + 1
           /\ pending' = <<>>

RecordPart(v) ==
    /\ Collecting
    /\ LET part == [sequence |-> Len(parts), part_index |-> partCount, value |-> v]
       IN  /\ parts' = Append(parts, part)
           /\ BuilderAdd(part)
    /\ UNCHANGED <<snapshotSkipped, skippedWarmup>>

\* An update of the charted tag.
HandleChart(v) ==
    /\ received < MaxUpdates
    /\ received' = received + 1
    /\ charted' = charted + 1
    /\ SkipOpening \/ SkipWarmup \/ RecordPart(v)
    /\ UNCHANGED <<partCount, breaks, discarded>>

-----------------------------------------------------------------------------
(* mark_stoppage *)

\* Mutant: the partial subgroup survives the stoppage.
StopKeepingPartial ==
    /\ breaks' = breaks \cup {Len(parts)}
    /\ UNCHANGED <<received, partCount, snapshotSkipped, skippedWarmup, parts,
                   pending, emitted, subgroups, charted, discarded>>

\* Production was interrupted: discard_partial, which keeps the emitted count.
MarkStoppage ==
    /\ pending' = <<>>
    /\ breaks' = breaks \cup {Len(parts)}
    /\ discarded' = discarded \cup {pending[i].sequence : i \in DOMAIN pending}
    /\ UNCHANGED <<received, partCount, snapshotSkipped, skippedWarmup, parts,
                   emitted, subgroups, charted>>

CollectorNext ==
    \/ HandleOther
    \/ \E n \in 0 .. MaxUpdates : HandlePartCount(n)
    \/ \E v \in Reading : HandleChart(v)
    \/ MarkStoppage

CollectorSpec == CollectorInit /\ [][CollectorNext]_collectorVars

-----------------------------------------------------------------------------
(* Properties *)

\* A subgroup is Size parts in a row of those recorded, and the builder's
\* partial subgroup is the parts recorded last.
SubgroupsAreRuns ==
    /\ \A g \in DOMAIN subgroups :
         /\ subgroups[g].index = g - 1
         /\ Len(subgroups[g].parts) = Size
         /\ \A i \in 1 .. Size :
              /\ subgroups[g].parts[i] \in {parts[j] : j \in DOMAIN parts}
              /\ subgroups[g].parts[i].sequence = subgroups[g].parts[1].sequence + i - 1
    /\ \A i \in DOMAIN pending :
         pending[i].sequence = Len(parts) - Len(pending) + i - 1

InSubgroup(g, n) == \E i \in DOMAIN subgroups[g].parts : subgroups[g].parts[i].sequence = n
InPending(n) == \E i \in DOMAIN pending : pending[i].sequence = n

\* Every part recorded ends up in exactly one place: one subgroup, the partial
\* subgroup, or thrown away at a stoppage.  None counts twice, none vanishes.
EveryPartPlacedOnce ==
    \A n \in 0 .. Len(parts) - 1 :
        /\ (\E g \in DOMAIN subgroups : InSubgroup(g, n)) \/ InPending(n) \/ n \in discarded
        /\ \A g, h \in DOMAIN subgroups : InSubgroup(g, n) /\ InSubgroup(h, n) => g = h
        /\ InPending(n) => n \notin discarded
        /\ \A g \in DOMAIN subgroups : InSubgroup(g, n) => ~ InPending(n) /\ n \notin discarded

\* No subgroup has parts from both sides of a stoppage.
NoSubgroupBridgesAStop ==
    \A g \in DOMAIN subgroups : \A b \in breaks :
        ~ (subgroups[g].parts[1].sequence < b /\ b <= subgroups[g].parts[Size].sequence)

OpeningsSkipped == IF snapshotSkipped THEN 1 ELSE 0

\* The charted updates are the opening one, then the warm-up, then the parts:
\* none is counted in two of them, and no part is recorded before both are over.
ChartedUpdatesAddUp ==
    /\ charted = OpeningsSkipped + skippedWarmup + Len(parts)
    /\ Len(parts) > 0 => (SkipInitial => snapshotSkipped) /\ skippedWarmup = Warmup
=============================================================================
