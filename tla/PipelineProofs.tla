--------------------------- MODULE PipelineProofs ---------------------------
(***************************************************************************)
(* Theorems about Collector and about Pipeline, for every queue length,    *)
(* buffer, subgroup size, warm-up and set of readings.                     *)
(*                                                                         *)
(* The inductive invariant of Collector says where the subgroups lie in    *)
(* the list of parts: one after the other, none beyond Base, where the     *)
(* partial subgroup begins, with the parts thrown away in the gaps.        *)
(*                                                                         *)
(* That of Pipeline follows the values of one tag along the chain of       *)
(* queues: what is handled comes before what is buffered, that before what *)
(* is sent, that before what waits in the server, and the newest value of  *)
(* a tag is the last of its tag in the queue nearest to the server that    *)
(* has one.                                                                *)
(***************************************************************************)
EXTENDS Pipeline, FiniteSetTheorems, TLAPS

-----------------------------------------------------------------------------
(* Collector: the invariant *)

\* Where the partial subgroup begins.
Base == Len(parts) - Len(pending)

\* The sequence number of the first part of a subgroup.
Start(g) == subgroups[g].parts[1].sequence

PartsNumbered == \A i \in DOMAIN parts : parts[i].sequence = i - 1

PendingIsSuffix ==
    /\ Len(pending) < Size
    /\ Base >= 0
    /\ \A i \in 1 .. Len(pending) : pending[i] = parts[Base + i]

SubgroupsInOrder ==
    /\ emitted = Len(subgroups)
    /\ \A g \in 1 .. Len(subgroups) :
         /\ subgroups[g].index = g - 1
         /\ Len(subgroups[g].parts) = Size
         /\ Start(g) \in Nat
         /\ Start(g) + Size <= Base
         /\ \A i \in 1 .. Size : subgroups[g].parts[i] = parts[Start(g) + i]
    /\ \A g, h \in 1 .. Len(subgroups) : g < h => Start(g) + Size <= Start(h)

Within(g, n) == Start(g) <= n /\ n < Start(g) + Size

PartsPlaced ==
    /\ \A n \in 0 .. Base - 1 :
         (\E g \in 1 .. Len(subgroups) : Within(g, n)) \/ n \in discarded
    /\ \A n \in discarded : n < Base /\ \A g \in 1 .. Len(subgroups) : ~ Within(g, n)

BreaksBetween ==
    \A b \in breaks :
        /\ b <= Base
        /\ \A g \in 1 .. Len(subgroups) : b <= Start(g) \/ Start(g) + Size <= b

CollectorIInv ==
    /\ CollectorTypeOK
    /\ PartsNumbered
    /\ PendingIsSuffix
    /\ SubgroupsInOrder
    /\ PartsPlaced
    /\ BreaksBetween
    /\ ChartedUpdatesAddUp

-----------------------------------------------------------------------------
(* One part more *)

\* What Append does to a sequence.
LEMMA AppendFacts ==
    ASSUME NEW S, NEW s \in Seq(S), NEW x \in S
    PROVE  /\ Append(s, x) \in Seq(S)
           /\ Len(s) \in Nat
           /\ Len(Append(s, x)) = Len(s) + 1
           /\ \A i \in 1 .. Len(s) : Append(s, x)[i] = s[i]
           /\ Append(s, x)[Len(s) + 1] = x
OBVIOUS

\* A new part joins the list of parts and, with those pending, makes filled.
Joins(p, filled) ==
    /\ p \in Part
    /\ p.sequence = Len(parts)
    /\ parts' = Append(parts, p)
    /\ filled = Append(pending, p)
    /\ UNCHANGED <<breaks, discarded>>

\* The two outcomes of BuilderAdd.
Fills(filled) ==
    /\ Len(filled) < Size
    /\ pending' = filled
    /\ UNCHANGED <<emitted, subgroups>>

Emits(filled) ==
    /\ Len(filled) >= Size
    /\ subgroups' = Append(subgroups, [index |-> emitted, parts |-> filled])
    /\ emitted' = emitted + 1
    /\ pending' = <<>>

\* The list of parts after a part has been recorded.
LEMMA RecordedPart ==
    ASSUME CollectorIInv, NEW p, NEW filled, Joins(p, filled)
    PROVE  /\ PartsNumbered'
           /\ parts' \in Seq(Part)
           /\ Len(parts) \in Nat
           /\ Len(parts') = Len(parts) + 1
           /\ \A i \in 1 .. Len(parts) : parts'[i] = parts[i]
           /\ parts'[Len(parts) + 1] = p
<1>1. parts \in Seq(Part)
  BY DEF CollectorIInv, CollectorTypeOK
<1>0. p \in Part /\ p.sequence = Len(parts) /\ parts' = Append(parts, p)
  BY DEF Joins
<1>2. PICK L \in Nat : L = Len(parts) /\ DOMAIN parts = 1 .. L
  BY <1>1
<1>3. /\ parts' \in Seq(Part) /\ Len(parts') = L + 1
      /\ \A i \in 1 .. L : parts'[i] = parts[i]
      /\ parts'[L + 1] = p
  BY <1>0, <1>1, <1>2, AppendFacts
<1>4. DOMAIN parts' = 1 .. L + 1
  BY <1>3
<1>5. ASSUME NEW i \in 1 .. L + 1
      PROVE  parts'[i].sequence = i - 1
  <2>1. CASE i \in 1 .. L
    BY <2>1, <1>2, <1>3 DEF CollectorIInv, PartsNumbered
  <2>2. CASE i = L + 1
    BY <2>2, <1>0, <1>2, <1>3
  <2> QED BY <2>1, <2>2, <1>2
<1>6. PartsNumbered'
  BY <1>4, <1>5 DEF PartsNumbered
<1> QED BY <1>1, <1>2, <1>3, <1>6

\* The builder's list after the part has joined it is the last of the parts.
LEMMA FilledSuffix ==
    ASSUME CollectorIInv, NEW p, NEW filled, Joins(p, filled)
    PROVE  /\ filled \in Seq(Part)
           /\ Len(pending) \in Nat
           /\ Len(filled) = Len(pending) + 1
           /\ Base \in Nat
           /\ Base + Len(filled) = Len(parts) + 1
           /\ \A i \in 1 .. Len(filled) : filled[i] = parts'[Base + i]
<1>1. parts \in Seq(Part) /\ pending \in Seq(Part)
  BY DEF CollectorIInv, CollectorTypeOK
<1>2. /\ filled \in Seq(Part) /\ Len(pending) \in Nat /\ Len(filled) = Len(pending) + 1
      /\ \A i \in 1 .. Len(pending) : filled[i] = pending[i]
      /\ filled[Len(pending) + 1] = p
  BY <1>1, AppendFacts DEF Joins
<1>3. /\ Len(parts) \in Nat /\ Len(parts') = Len(parts) + 1
      /\ \A i \in 1 .. Len(parts) : parts'[i] = parts[i]
      /\ parts'[Len(parts) + 1] = p
  BY RecordedPart
<1>4. /\ Base \in Nat /\ Base + Len(pending) = Len(parts)
      /\ \A i \in 1 .. Len(pending) : pending[i] = parts[Base + i]
  BY <1>2, <1>3 DEF CollectorIInv, PendingIsSuffix, Base
<1>5. ASSUME NEW i \in 1 .. Len(filled)
      PROVE  filled[i] = parts'[Base + i]
  <2>1. CASE i \in 1 .. Len(pending)
    <3>1. Base + i \in 1 .. Len(parts)
      BY <2>1, <1>2, <1>3, <1>4
    <3> QED BY <3>1, <2>1, <1>2, <1>3, <1>4
  <2>2. CASE i = Len(pending) + 1
    BY <2>2, <1>2, <1>3, <1>4
  <2> QED BY <2>1, <2>2, <1>2
<1>6. Base + Len(filled) = Len(parts) + 1
  <2>1. Len(pending) \in Nat /\ Len(parts) \in Nat /\ Base \in Nat
    BY <1>2, <1>3, <1>4
  <2>2. Len(filled) = Len(pending) + 1
    BY <1>2
  <2>3. Base + Len(pending) = Len(parts)
    BY <1>4
  <2> QED BY <2>1, <2>2, <2>3
<1> QED BY <1>2, <1>4, <1>5, <1>6

\* The subgroups and what the invariant says of each.
LEMMA SubgroupFacts ==
    ASSUME CollectorIInv
    PROVE  /\ Len(subgroups) \in Nat
           /\ emitted = Len(subgroups)
           /\ Base \in Int
           /\ Base <= Len(parts)
           /\ \A g \in 1 .. Len(subgroups) :
                /\ subgroups[g].index = g - 1
                /\ Len(subgroups[g].parts) = Size
                /\ Start(g) \in Nat
                /\ Start(g) + Size <= Base
                /\ \A i \in 1 .. Size : /\ Start(g) + i \in 1 .. Len(parts)
                                        /\ subgroups[g].parts[i] = parts[Start(g) + i]
           /\ \A g, h \in 1 .. Len(subgroups) : g < h => Start(g) + Size <= Start(h)
<1>1. /\ Len(subgroups) \in Nat /\ Len(parts) \in Nat /\ Len(pending) \in Nat
  BY DEF CollectorIInv, CollectorTypeOK
<1>2. Base \in Int /\ Base <= Len(parts)
  BY <1>1 DEF Base
<1>3. SubgroupsInOrder
  BY DEF CollectorIInv
<1>4. ASSUME NEW g \in 1 .. Len(subgroups), NEW i \in 1 .. Size
      PROVE  Start(g) + i \in 1 .. Len(parts)
  <2>1. Start(g) \in Nat /\ Start(g) + Size <= Base
    BY <1>3 DEF SubgroupsInOrder
  <2> QED BY <2>1, <1>1, <1>2, SizeAssumption
<1> QED BY <1>1, <1>2, <1>3, <1>4 DEF SubgroupsInOrder

\* A part that leaves the subgroup unfinished.
LEMMA FillStructure ==
    ASSUME CollectorIInv, NEW p, NEW filled, Joins(p, filled), Fills(filled)
    PROVE  PendingIsSuffix' /\ SubgroupsInOrder' /\ PartsPlaced' /\ BreaksBetween'
<1>2. /\ pending' = filled /\ Len(filled) < Size
      /\ emitted' = emitted /\ subgroups' = subgroups
      /\ breaks' = breaks /\ discarded' = discarded
  BY DEF Joins, Fills
<1>3. /\ Base \in Nat /\ Len(filled) \in Nat
      /\ Base + Len(filled) = Len(parts) + 1
      /\ \A i \in 1 .. Len(filled) : filled[i] = parts'[Base + i]
  BY FilledSuffix
<1>4. /\ Len(parts) \in Nat /\ Len(parts') = Len(parts) + 1
      /\ \A i \in 1 .. Len(parts) : parts'[i] = parts[i]
  BY RecordedPart
<1>5. Base' = Base
  BY <1>2, <1>3, <1>4 DEF Base
<1>6. PendingIsSuffix'
  BY <1>2, <1>3, <1>5 DEF PendingIsSuffix
<1>7. \A g : Start(g)' = Start(g)
  BY <1>2 DEF Start
<1>8. SubgroupsInOrder'
  <2>1. \A g \in 1 .. Len(subgroups) : \A i \in 1 .. Size :
          subgroups[g].parts[i] = parts'[Start(g) + i]
    BY SubgroupFacts, <1>4
  <2> QED BY <2>1, <1>2, <1>5, <1>7, SubgroupFacts DEF SubgroupsInOrder
<1>9. PartsPlaced' /\ BreaksBetween'
  BY <1>2, <1>5, <1>7 DEF CollectorIInv, PartsPlaced, BreaksBetween, Within
<1> QED BY <1>6, <1>8, <1>9

\* A part that completes a subgroup.
LEMMA EmitStructure ==
    ASSUME CollectorIInv, NEW p, NEW filled, Joins(p, filled), Emits(filled)
    PROVE  /\ subgroups' \in Seq(Subgroup)
           /\ PendingIsSuffix' /\ SubgroupsInOrder' /\ PartsPlaced' /\ BreaksBetween'
<1>0. /\ Len(filled) >= Size /\ pending' = <<>> /\ emitted' = emitted + 1
      /\ subgroups' = Append(subgroups, [index |-> emitted, parts |-> filled])
      /\ breaks' = breaks /\ discarded' = discarded
  BY DEF Joins, Emits
<1>1. /\ filled \in Seq(Part) /\ Len(pending) \in Nat /\ Len(filled) = Len(pending) + 1
      /\ Base \in Nat /\ Base + Len(filled) = Len(parts) + 1
      /\ \A i \in 1 .. Len(filled) : filled[i] = parts'[Base + i]
  BY FilledSuffix
<1>2. Size \in Nat /\ Size >= 1 /\ Len(filled) = Size
  <2>1. Size \in Nat /\ Size >= 1
    BY SizeAssumption
  <2>2. Len(pending) < Size
    BY DEF CollectorIInv, PendingIsSuffix
  <2>3. Len(filled) >= Size
    BY <1>0
  <2>4. Len(pending) \in Nat /\ Len(filled) = Len(pending) + 1
    BY <1>1
  <2> QED BY <2>1, <2>2, <2>3, <2>4
<1>3. /\ Len(parts) \in Nat /\ Len(parts') = Len(parts) + 1
      /\ \A i \in 1 .. Len(parts) : parts'[i] = parts[i]
      /\ parts'[Len(parts) + 1] = p
  BY RecordedPart
<1>4. PICK B \in Nat, G \in Nat : B = Base /\ G = Len(subgroups)
  BY <1>1, SubgroupFacts
<1>5. Base' = B + Size /\ B + Size = Len(parts) + 1 /\ Len(pending') = 0
  <2>1. Len(pending') = 0
    BY <1>0
  <2>2. B + Size = Len(parts) + 1
    BY <1>1, <1>2, <1>4
  <2> QED BY <2>1, <2>2, <1>1, <1>3 DEF Base
<1>6. /\ subgroups' \in Seq(Subgroup) /\ Len(subgroups') = G + 1
      /\ \A g \in 1 .. G : subgroups'[g] = subgroups[g]
      /\ subgroups'[G + 1] = [index |-> emitted, parts |-> filled]
  <2>1. [index |-> emitted, parts |-> filled] \in Subgroup
    BY <1>1 DEF CollectorIInv, CollectorTypeOK, Subgroup
  <2>2. subgroups \in Seq(Subgroup)
    BY DEF CollectorIInv, CollectorTypeOK
  <2> QED BY <2>1, <2>2, <1>0, <1>4, AppendFacts
<1>7. PendingIsSuffix'
  BY <1>2, <1>4, <1>5 DEF PendingIsSuffix
<1>8. \A g \in 1 .. G : Start(g)' = Start(g)
  BY <1>6 DEF Start
<1>9. Start(G + 1)' = B
  <2>1. subgroups'[G + 1].parts[1] = parts'[B + 1]
    BY <1>1, <1>2, <1>4, <1>6
  <2>2. B + 1 \in DOMAIN parts'
    BY <1>2, <1>3, <1>4, <1>5, RecordedPart
  <2>3. parts'[B + 1].sequence = B
    BY <2>2, <1>4, RecordedPart DEF PartsNumbered
  <2> QED BY <2>1, <2>3 DEF Start
<1>10. \A g \in 1 .. G + 1 : g \in 1 .. G \/ g = G + 1
  BY <1>4
<1>11. SubgroupsInOrder'
  <2>1. emitted' = Len(subgroups')
    BY <1>0, <1>4, <1>6, SubgroupFacts
  <2>2. ASSUME NEW g \in 1 .. G
        PROVE  /\ subgroups'[g].index = g - 1
               /\ Len(subgroups'[g].parts) = Size
               /\ Start(g)' \in Nat
               /\ Start(g)' + Size <= Base'
               /\ \A i \in 1 .. Size : subgroups'[g].parts[i] = parts'[Start(g)' + i]
    <3>1. /\ subgroups[g].index = g - 1
          /\ Len(subgroups[g].parts) = Size
          /\ Start(g) \in Nat
          /\ Start(g) + Size <= B
          /\ \A i \in 1 .. Size : /\ Start(g) + i \in 1 .. Len(parts)
                                  /\ subgroups[g].parts[i] = parts[Start(g) + i]
      BY <1>4, SubgroupFacts
    <3>2. \A i \in 1 .. Size : subgroups[g].parts[i] = parts'[Start(g) + i]
      BY <3>1, <1>3
    <3>3. Start(g) + Size <= B + Size
      BY <3>1, <1>2, <1>4
    <3> QED BY <3>1, <3>2, <3>3, <1>5, <1>6, <1>8
  <2>3. /\ subgroups'[G + 1].index = G
        /\ Len(subgroups'[G + 1].parts) = Size
        /\ Start(G + 1)' \in Nat
        /\ Start(G + 1)' + Size <= Base'
        /\ \A i \in 1 .. Size : subgroups'[G + 1].parts[i] = parts'[Start(G + 1)' + i]
    <3>1. subgroups'[G + 1].index = G /\ subgroups'[G + 1].parts = filled
      BY <1>4, <1>6, SubgroupFacts
    <3>2. \A i \in 1 .. Size : filled[i] = parts'[B + i]
      BY <1>1, <1>2, <1>4
    <3>3. B + Size <= Base'
      BY <1>2, <1>4, <1>5
    <3> QED BY <3>1, <3>2, <3>3, <1>2, <1>4, <1>9
  <2>4. ASSUME NEW g \in 1 .. G + 1, NEW h \in 1 .. G + 1, g < h
        PROVE  Start(g)' + Size <= Start(h)'
    <3>1. g \in 1 .. G
      BY <1>4, <2>4
    <3>2. Start(g)' = Start(g) /\ Start(g) + Size <= B
      BY <3>1, <1>4, <1>8, SubgroupFacts
    <3>3. CASE h = G + 1
      BY <3>2, <3>3, <1>9
    <3>4. CASE h \in 1 .. G
      <4>1. Start(h)' = Start(h) /\ Start(g) + Size <= Start(h)
        BY <3>1, <3>4, <2>4, <1>4, <1>8, SubgroupFacts
      <4> QED BY <4>1, <3>2
    <3> QED BY <3>3, <3>4, <1>10
  <2>5. \A g \in 1 .. G + 1 :
            /\ subgroups'[g].index = g - 1
            /\ Len(subgroups'[g].parts) = Size
            /\ Start(g)' \in Nat
            /\ Start(g)' + Size <= Base'
            /\ \A i \in 1 .. Size : subgroups'[g].parts[i] = parts'[Start(g)' + i]
    <3>1. G + 1 - 1 = G
      BY <1>4
    <3>2. TAKE g \in 1 .. G + 1
    <3>3. CASE g \in 1 .. G
      BY <3>3, <2>2
    <3>4. CASE g = G + 1
      BY <3>4, <3>1, <2>3
    <3> QED BY <3>3, <3>4, <1>10
  <2> QED BY <2>1, <2>4, <2>5, <1>6 DEF SubgroupsInOrder
<1>12. /\ \A n \in Int : Within(G + 1, n)' <=> (B <= n /\ n < B + Size)
       /\ \A n \in Int : \A g \in 1 .. G : Within(g, n)' <=> Within(g, n)
  BY <1>8, <1>9 DEF Within
<1>13. PartsPlaced'
  <2>1. ASSUME NEW n \in 0 .. Base' - 1
        PROVE  (\E g \in 1 .. G + 1 : Within(g, n)') \/ n \in discarded
    <3>1. CASE n < B
      <4>1. (\E g \in 1 .. G : Within(g, n)) \/ n \in discarded
        BY <3>1, <1>4 DEF CollectorIInv, PartsPlaced
      <4>2. \A g \in 1 .. G : g \in 1 .. G + 1
        BY <1>4
      <4> QED BY <4>1, <4>2, <1>12
    <3>2. CASE ~ (n < B)
      <4>1. B <= n /\ n < B + Size /\ G + 1 \in 1 .. G + 1
        BY <3>2, <1>2, <1>4, <1>5
      <4> QED BY <4>1, <1>12
    <3> QED BY <3>1, <3>2
  <2>2. ASSUME NEW n \in discarded
        PROVE  n < Base' /\ \A g \in 1 .. G + 1 : ~ Within(g, n)'
    <3>1. n \in Nat /\ n < B /\ \A g \in 1 .. G : ~ Within(g, n)
      BY <1>4 DEF CollectorIInv, PartsPlaced, CollectorTypeOK
    <3>2. n < Base' /\ ~ (B <= n) /\ n \in Int
      BY <3>1, <1>2, <1>4, <1>5
    <3>3. ~ Within(G + 1, n)' /\ \A g \in 1 .. G : ~ Within(g, n)'
      BY <3>1, <3>2, <1>12
    <3> QED BY <3>2, <3>3, <1>10
  <2> QED BY <2>1, <2>2, <1>0, <1>6 DEF PartsPlaced
<1>14. BreaksBetween'
  <2> SUFFICES ASSUME NEW b \in breaks
               PROVE  /\ b <= Base'
                      /\ \A g \in 1 .. G + 1 : b <= Start(g)' \/ Start(g)' + Size <= b
    BY <1>0, <1>6 DEF BreaksBetween
  <2>1. b \in Nat /\ b <= B /\ \A g \in 1 .. G : b <= Start(g) \/ Start(g) + Size <= b
    BY <1>4 DEF CollectorIInv, BreaksBetween, CollectorTypeOK
  <2>2. b <= B + Size
    BY <2>1, <1>2, <1>4
  <2> QED BY <2>1, <2>2, <1>5, <1>8, <1>9, <1>10
<1> QED BY <1>6, <1>7, <1>11, <1>13, <1>14

-----------------------------------------------------------------------------
(* The steps *)

\* What the invariant says of where parts are, apart from types and counts.
Structure ==
    PartsNumbered /\ PendingIsSuffix /\ SubgroupsInOrder /\ PartsPlaced /\ BreaksBetween

LEMMA InitCollectorIInv == CollectorInit => CollectorIInv
<1> SUFFICES ASSUME CollectorInit
             PROVE  CollectorIInv
  OBVIOUS
<1>1. /\ received = 0 /\ partCount = -1 /\ snapshotSkipped = FALSE /\ skippedWarmup = 0
      /\ parts = <<>> /\ pending = <<>> /\ emitted = 0 /\ subgroups = <<>>
      /\ charted = 0 /\ breaks = {} /\ discarded = {}
  BY DEF CollectorInit, NoCount
<1>2. CollectorTypeOK
  <2>1. -1 \in Int /\ 0 \in Nat /\ 0 \in 0 .. Warmup
    BY WarmupAssumption
  <2>2. <<>> \in Seq(Part) /\ <<>> \in Seq(Subgroup)
    OBVIOUS
  <2> QED BY <2>1, <2>2, <1>1 DEF CollectorTypeOK
<1>3. Len(parts) = 0 /\ Len(pending) = 0 /\ Len(subgroups) = 0 /\ Base = 0
  BY <1>1 DEF Base
<1>4. PartsNumbered
  BY <1>1 DEF PartsNumbered
<1>5. PendingIsSuffix
  BY <1>3, SizeAssumption DEF PendingIsSuffix
<1>6. SubgroupsInOrder
  BY <1>1, <1>3 DEF SubgroupsInOrder
<1>7. PartsPlaced /\ BreaksBetween
  BY <1>1, <1>3 DEF PartsPlaced, BreaksBetween
<1>8. OpeningsSkipped = 0
  BY <1>1 DEF OpeningsSkipped
<1>9. ChartedUpdatesAddUp
  BY <1>1, <1>3, <1>8 DEF ChartedUpdatesAddUp
<1> QED BY <1>2, <1>4, <1>5, <1>6, <1>7, <1>9 DEF CollectorIInv

\* A step that leaves the parts and the subgroups alone.
LEMMA QuietStructure ==
    ASSUME CollectorIInv,
           UNCHANGED <<parts, pending, emitted, subgroups, breaks, discarded>>
    PROVE  Structure'
<1>1. Base' = Base /\ \A g : Start(g)' = Start(g)
  BY DEF Base, Start
<1> QED BY <1>1 DEF Structure, CollectorIInv, PartsNumbered, PendingIsSuffix,
        SubgroupsInOrder, PartsPlaced, BreaksBetween, Within

\* A charted update before the collecting starts.
LEMMA SkippedIInv ==
    ASSUME CollectorIInv, NEW v \in Reading, HandleChart(v), SkipOpening \/ SkipWarmup
    PROVE  CollectorIInv'
<1>1. /\ received' = received + 1 /\ charted' = charted + 1
      /\ partCount' = partCount /\ breaks' = breaks /\ discarded' = discarded
      /\ parts' = parts /\ pending' = pending /\ emitted' = emitted /\ subgroups' = subgroups
  BY DEF HandleChart, SkipOpening, SkipWarmup
<1>2. /\ CollectorTypeOK /\ received \in Nat /\ charted \in Nat
      /\ skippedWarmup \in 0 .. Warmup /\ snapshotSkipped \in BOOLEAN
      /\ Len(parts) \in Nat
  BY DEF CollectorIInv, CollectorTypeOK
<1>3. Structure'
  BY <1>1, QuietStructure
<1>4. /\ charted = OpeningsSkipped + skippedWarmup + Len(parts)
      /\ Len(parts) > 0 => (SkipInitial => snapshotSkipped) /\ skippedWarmup = Warmup
  BY DEF CollectorIInv, ChartedUpdatesAddUp
<1>5. CASE SkipOpening
  <2>1. snapshotSkipped' = TRUE /\ skippedWarmup' = skippedWarmup /\ ~ snapshotSkipped /\ SkipInitial
    BY <1>5 DEF SkipOpening, Opening
  <2>2. CollectorTypeOK'
    BY <2>1, <1>1, <1>2 DEF CollectorTypeOK
  <2>3. OpeningsSkipped = 0 /\ OpeningsSkipped' = 1
    BY <2>1 DEF OpeningsSkipped
  <2>4. charted' = OpeningsSkipped' + skippedWarmup' + Len(parts')
    BY <2>1, <2>3, <1>1, <1>2, <1>4
  <2>5. ~ (Len(parts) > 0)
    BY <2>1, <1>4
  <2>6. ChartedUpdatesAddUp'
    BY <2>4, <2>5, <1>1 DEF ChartedUpdatesAddUp
  <2> QED BY <2>2, <2>6, <1>3 DEF CollectorIInv, Structure
<1>6. CASE SkipWarmup
  <2>1. /\ snapshotSkipped' = snapshotSkipped /\ skippedWarmup' = skippedWarmup + 1
        /\ skippedWarmup < Warmup
    BY <1>6 DEF SkipWarmup, WarmingUp
  <2>2. skippedWarmup' \in 0 .. Warmup
    BY <2>1, <1>2, WarmupAssumption
  <2>3. CollectorTypeOK'
    BY <2>1, <2>2, <1>1, <1>2 DEF CollectorTypeOK
  <2>4. OpeningsSkipped' = OpeningsSkipped /\ OpeningsSkipped \in Nat
    BY <2>1 DEF OpeningsSkipped
  <2>5. charted' = OpeningsSkipped' + skippedWarmup' + Len(parts')
    BY <2>1, <2>4, <1>1, <1>2, <1>4
  <2>6. ~ (Len(parts) > 0)
    BY <2>1, <1>2, <1>4, WarmupAssumption
  <2>7. ChartedUpdatesAddUp'
    BY <2>5, <2>6, <1>1 DEF ChartedUpdatesAddUp
  <2> QED BY <2>3, <2>7, <1>3 DEF CollectorIInv, Structure
<1> QED BY <1>5, <1>6

\* A charted update that is recorded as a part.
LEMMA RecordIInv ==
    ASSUME CollectorIInv, NEW v \in Reading, HandleChart(v), RecordPart(v)
    PROVE  CollectorIInv'
<1>1. /\ received' = received + 1 /\ charted' = charted + 1
      /\ partCount' = partCount /\ breaks' = breaks /\ discarded' = discarded
      /\ snapshotSkipped' = snapshotSkipped /\ skippedWarmup' = skippedWarmup
      /\ ~ Opening /\ ~ WarmingUp
  BY DEF HandleChart, RecordPart, Collecting
<1>2. /\ CollectorTypeOK /\ received \in Nat /\ charted \in Nat /\ partCount \in Int
      /\ skippedWarmup \in 0 .. Warmup /\ snapshotSkipped \in BOOLEAN
      /\ Len(parts) \in Nat /\ emitted \in Nat /\ pending \in Seq(Part)
      /\ subgroups \in Seq(Subgroup)
  BY DEF CollectorIInv, CollectorTypeOK
<1>3. PICK p : /\ p = [sequence |-> Len(parts), part_index |-> partCount, value |-> v]
               /\ parts' = Append(parts, p) /\ BuilderAdd(p)
  BY DEF RecordPart
<1>4. PICK filled : filled = Append(pending, p)
  OBVIOUS
<1>5. p \in Part /\ p.sequence = Len(parts)
  BY <1>2, <1>3 DEF Part
<1>6. Joins(p, filled)
  BY <1>1, <1>3, <1>4, <1>5 DEF Joins
<1>7. Fills(filled) \/ Emits(filled)
  BY <1>3, <1>4 DEF BuilderAdd, Fills, Emits
<1>8. PartsNumbered' /\ parts' \in Seq(Part) /\ Len(parts') = Len(parts) + 1
  BY <1>6, RecordedPart
<1>9. filled \in Seq(Part)
  BY <1>6, FilledSuffix
<1>10. Structure' /\ CollectorTypeOK'
  <2>1. CASE Fills(filled)
    <3>1. pending' = filled /\ emitted' = emitted /\ subgroups' = subgroups
      BY <2>1 DEF Fills
    <3>2. CollectorTypeOK'
      BY <3>1, <1>1, <1>2, <1>8, <1>9 DEF CollectorTypeOK
    <3> QED BY <3>2, <2>1, <1>6, <1>8, FillStructure DEF Structure
  <2>2. CASE Emits(filled)
    <3>1. pending' = <<>> /\ emitted' = emitted + 1 /\ subgroups' \in Seq(Subgroup)
      BY <2>2, <1>6, EmitStructure DEF Emits
    <3>2. CollectorTypeOK'
      BY <3>1, <1>1, <1>2, <1>8 DEF CollectorTypeOK
    <3> QED BY <3>2, <2>2, <1>6, <1>8, EmitStructure DEF Structure
  <2> QED BY <2>1, <2>2, <1>7
<1>11. ChartedUpdatesAddUp'
  <2>1. charted = OpeningsSkipped + skippedWarmup + Len(parts)
    BY DEF CollectorIInv, ChartedUpdatesAddUp
  <2>2. OpeningsSkipped' = OpeningsSkipped /\ OpeningsSkipped \in Nat
    BY <1>1 DEF OpeningsSkipped
  <2>3. charted' = OpeningsSkipped' + skippedWarmup' + Len(parts')
    BY <2>1, <2>2, <1>1, <1>2, <1>8
  <2>4. SkipInitial => snapshotSkipped'
    BY <1>1 DEF Opening
  <2>5. skippedWarmup' = Warmup
    <3>1. ~ (skippedWarmup < Warmup)
      BY <1>1, SMTT(30) DEF WarmingUp
    <3> QED BY <3>1, <1>1, <1>2, WarmupAssumption
  <2> QED BY <2>3, <2>4, <2>5 DEF ChartedUpdatesAddUp
<1> QED BY <1>10, <1>11 DEF CollectorIInv, Structure

\* Where the pending parts lie, and the numbers that a stoppage throws away.
LEMMA PendingFacts ==
    ASSUME CollectorIInv
    PROVE  /\ Len(parts) \in Nat /\ Len(pending) \in Nat /\ Base \in Nat
           /\ Base + Len(pending) = Len(parts)
           /\ DOMAIN pending = 1 .. Len(pending)
           /\ \A i \in 1 .. Len(pending) : pending[i].sequence = Base + i - 1
<1>1. /\ Len(parts) \in Nat /\ DOMAIN parts = 1 .. Len(parts)
      /\ Len(pending) \in Nat /\ DOMAIN pending = 1 .. Len(pending)
  BY DEF CollectorIInv, CollectorTypeOK
<1>2. Base \in Nat /\ Base + Len(pending) = Len(parts)
  BY <1>1 DEF CollectorIInv, PendingIsSuffix, Base
<1>3. ASSUME NEW i \in 1 .. Len(pending)
      PROVE  pending[i].sequence = Base + i - 1
  <2>1. pending[i] = parts[Base + i] /\ Base + i \in 1 .. Len(parts)
    BY <1>1, <1>2 DEF CollectorIInv, PendingIsSuffix
  <2>2. parts[Base + i].sequence = (Base + i) - 1
    BY <2>1, <1>1 DEF CollectorIInv, PartsNumbered
  <2> QED BY <2>1, <2>2, <1>1, <1>2
<1> QED BY <1>1, <1>2, <1>3

LEMMA StoppageIInv ==
    ASSUME CollectorIInv, MarkStoppage
    PROVE  CollectorIInv'
<1>1. /\ pending' = <<>> /\ breaks' = breaks \cup {Len(parts)}
      /\ discarded' = discarded \cup {pending[i].sequence : i \in DOMAIN pending}
      /\ received' = received /\ partCount' = partCount /\ snapshotSkipped' = snapshotSkipped
      /\ skippedWarmup' = skippedWarmup /\ parts' = parts /\ emitted' = emitted
      /\ subgroups' = subgroups /\ charted' = charted
  BY DEF MarkStoppage
<1>2. PICK L \in Nat, B \in Nat, G \in Nat :
        L = Len(parts) /\ B = Base /\ G = Len(subgroups)
  BY PendingFacts, SubgroupFacts
<1>3. /\ B + Len(pending) = L /\ B <= L /\ DOMAIN pending = 1 .. Len(pending)
      /\ Len(pending) \in Nat
      /\ \A i \in 1 .. Len(pending) : pending[i].sequence = B + i - 1
  BY <1>2, PendingFacts
<1>4. Len(pending') = 0 /\ Base' = L
  BY <1>1, <1>2 DEF Base
<1>5. \A g : Start(g)' = Start(g)
  BY <1>1 DEF Start
<1>6. \A n \in Int : n \in {pending[i].sequence : i \in DOMAIN pending} <=> B <= n /\ n < L
  <2> SUFFICES ASSUME NEW n \in Int
               PROVE  (\E i \in 1 .. Len(pending) : n = B + i - 1) <=> B <= n /\ n < L
    BY <1>3
  <2>1. ASSUME B <= n, n < L
        PROVE  \E i \in 1 .. Len(pending) : n = B + i - 1
    <3>1. n - B + 1 \in 1 .. Len(pending) /\ n = B + (n - B + 1) - 1
      BY <2>1, <1>2, <1>3
    <3> QED BY <3>1
  <2>2. ASSUME NEW i \in 1 .. Len(pending), n = B + i - 1
        PROVE  B <= n /\ n < L
    BY <2>2, <1>2, <1>3
  <2> QED BY <2>1, <2>2
<1>7. {pending[i].sequence : i \in DOMAIN pending} \subseteq Nat
  <2>1. \A i \in 1 .. Len(pending) : B + i - 1 \in Nat
    BY <1>2, <1>3
  <2> QED BY <2>1, <1>3
<1>8. CollectorTypeOK'
  <2>1. CollectorTypeOK
    BY DEF CollectorIInv
  <2>2. /\ received' \in Nat /\ partCount' \in Int /\ snapshotSkipped' \in BOOLEAN
        /\ skippedWarmup' \in 0 .. Warmup /\ parts' \in Seq(Part) /\ emitted' \in Nat
        /\ subgroups' \in Seq(Subgroup) /\ charted' \in Nat
    BY <2>1, <1>1 DEF CollectorTypeOK
  <2>3. pending' \in Seq(Part)
    BY <1>1
  <2>4. breaks' \subseteq Nat /\ discarded' \subseteq Nat
    BY <2>1, <1>1, <1>2, <1>7 DEF CollectorTypeOK
  <2> QED BY <2>2, <2>3, <2>4 DEF CollectorTypeOK
<1>9. PartsNumbered' /\ ChartedUpdatesAddUp'
  <2>1. OpeningsSkipped' = OpeningsSkipped
    BY <1>1 DEF OpeningsSkipped
  <2> QED BY <2>1, <1>1 DEF CollectorIInv, PartsNumbered, ChartedUpdatesAddUp
<1>10. PendingIsSuffix'
  BY <1>2, <1>4, SizeAssumption DEF PendingIsSuffix
<1>11. \A g \in 1 .. G : Start(g) \in Nat /\ Start(g) + Size <= B
  BY <1>2, SubgroupFacts
<1>12. SubgroupsInOrder'
  <2>1. \A g \in 1 .. G : Start(g) + Size <= L
    BY <1>2, <1>3, <1>11, SizeAssumption
  <2> QED BY <2>1, <1>1, <1>2, <1>4, <1>5, SubgroupFacts DEF SubgroupsInOrder
<1>13. \A g : \A n : Within(g, n)' <=> Within(g, n)
  BY <1>5 DEF Within
<1>14. PartsPlaced'
  <2>1. ASSUME NEW n \in 0 .. Base' - 1
        PROVE  (\E g \in 1 .. G : Within(g, n)) \/ n \in discarded'
    <3>1. n \in Int /\ n < L /\ 0 <= n
      BY <1>2, <1>4
    <3>2. CASE n < B
      <4>1. n \in 0 .. B - 1
        BY <3>1, <3>2, <1>2
      <4>2. (\E g \in 1 .. G : Within(g, n)) \/ n \in discarded
        BY <4>1, <1>2 DEF CollectorIInv, PartsPlaced
      <4> QED BY <4>2, <1>1
    <3>3. CASE ~ (n < B)
      <4>1. n \in {pending[i].sequence : i \in DOMAIN pending}
        BY <3>1, <3>3, <1>2, <1>6
      <4> QED BY <4>1, <1>1
    <3> QED BY <3>2, <3>3
  <2>2. ASSUME NEW n \in discarded'
        PROVE  n < L /\ \A g \in 1 .. G : ~ Within(g, n)
    <3>1. CASE n \in discarded
      <4>1. n \in Nat /\ n < B /\ \A g \in 1 .. G : ~ Within(g, n)
        BY <3>1, <1>2 DEF CollectorIInv, CollectorTypeOK, PartsPlaced
      <4> QED BY <4>1, <1>2, <1>3
    <3>2. CASE n \in {pending[i].sequence : i \in DOMAIN pending}
      <4>1. n \in Nat /\ B <= n /\ n < L
        BY <3>2, <1>6, <1>7
      <4>2. \A g \in 1 .. G : ~ (n < Start(g) + Size)
        BY <4>1, <1>2, <1>11, SizeAssumption
      <4> QED BY <4>1, <4>2 DEF Within
    <3> QED BY <3>1, <3>2, <1>1
  <2> QED BY <2>1, <2>2, <1>1, <1>2, <1>4, <1>13 DEF PartsPlaced
<1>15. BreaksBetween'
  <2> SUFFICES ASSUME NEW b \in breaks'
               PROVE  /\ b <= L
                      /\ \A g \in 1 .. G : b <= Start(g) \/ Start(g) + Size <= b
    BY <1>1, <1>2, <1>4, <1>5 DEF BreaksBetween
  <2>1. CASE b \in breaks
    <3>1. b \in Nat /\ b <= B /\ \A g \in 1 .. G : b <= Start(g) \/ Start(g) + Size <= b
      BY <2>1, <1>2 DEF CollectorIInv, CollectorTypeOK, BreaksBetween
    <3> QED BY <3>1, <1>2, <1>3
  <2>2. CASE b = L
    <3>1. \A g \in 1 .. G : Start(g) \in Nat /\ Start(g) + Size <= L
      <4>1. \A g \in 1 .. G : Start(g) \in Nat /\ Start(g) + Size <= B
        BY <1>11
      <4>2. B \in Nat /\ L \in Nat /\ B <= L /\ Size \in Nat
        BY <1>2, <1>3, SizeAssumption
      <4> QED BY <4>1, <4>2
    <3> QED BY <2>2, <3>1, <1>2
  <2> QED BY <2>1, <2>2, <1>1, <1>2
<1> QED BY <1>8, <1>9, <1>10, <1>12, <1>14, <1>15 DEF CollectorIInv

\* An update of a tag that is not charted.
LEMMA UnchartedIInv ==
    ASSUME CollectorIInv, HandleOther \/ \E n \in Int : HandlePartCount(n)
    PROVE  CollectorIInv'
<1>0. CollectorTypeOK /\ received \in Nat /\ ChartedUpdatesAddUp
  BY DEF CollectorIInv, CollectorTypeOK
<1>1. /\ received' = received + 1 /\ partCount' \in Int
      /\ snapshotSkipped' = snapshotSkipped /\ skippedWarmup' = skippedWarmup
      /\ parts' = parts /\ pending' = pending /\ emitted' = emitted
      /\ subgroups' = subgroups /\ charted' = charted /\ breaks' = breaks
      /\ discarded' = discarded
  BY <1>0 DEF HandleOther, HandlePartCount, CollectorTypeOK
<1>2. CollectorTypeOK'
  BY <1>1, <1>0 DEF CollectorTypeOK
<1>3. OpeningsSkipped' = OpeningsSkipped
  BY <1>1 DEF OpeningsSkipped
<1>4. ChartedUpdatesAddUp'
  BY <1>1, <1>3, <1>0 DEF ChartedUpdatesAddUp
<1>5. Structure'
  BY <1>1, QuietStructure
<1> QED BY <1>2, <1>4, <1>5 DEF CollectorIInv, Structure

\* No update at all.
LEMMA StutterIInv ==
    ASSUME CollectorIInv, UNCHANGED collectorVars
    PROVE  CollectorIInv'
<1>0. CollectorTypeOK /\ ChartedUpdatesAddUp
  BY DEF CollectorIInv
<1>1. /\ received' = received /\ partCount' = partCount
      /\ snapshotSkipped' = snapshotSkipped /\ skippedWarmup' = skippedWarmup
      /\ parts' = parts /\ pending' = pending /\ emitted' = emitted
      /\ subgroups' = subgroups /\ charted' = charted /\ breaks' = breaks
      /\ discarded' = discarded
  BY DEF collectorVars
<1>2. CollectorTypeOK'
  BY <1>1, <1>0 DEF CollectorTypeOK
<1>3. OpeningsSkipped' = OpeningsSkipped
  BY <1>1 DEF OpeningsSkipped
<1>4. ChartedUpdatesAddUp'
  BY <1>1, <1>3, <1>0 DEF ChartedUpdatesAddUp
<1>5. Structure'
  BY <1>1, QuietStructure
<1> QED BY <1>2, <1>4, <1>5 DEF CollectorIInv, Structure

LEMMA NextCollectorIInv ==
    CollectorIInv /\ [CollectorNext]_collectorVars => CollectorIInv'
<1> SUFFICES ASSUME CollectorIInv, [CollectorNext]_collectorVars
             PROVE  CollectorIInv'
  OBVIOUS
<1>1. ASSUME HandleOther \/ \E n \in 0 .. MaxUpdates : HandlePartCount(n)
      PROVE  CollectorIInv'
  <2>1. 0 .. MaxUpdates \subseteq Int
    BY UpdatesAssumption
  <2>2. HandleOther \/ \E n \in Int : HandlePartCount(n)
    BY <1>1, <2>1
  <2> QED BY <2>2, UnchartedIInv
<1>2. ASSUME NEW v \in Reading, HandleChart(v)
      PROVE  CollectorIInv'
  <2>1. (SkipOpening \/ SkipWarmup) \/ RecordPart(v)
    BY <1>2 DEF HandleChart
  <2> QED BY <2>1, <1>2, SkippedIInv, RecordIInv
<1>3. CASE MarkStoppage
  BY <1>3, StoppageIInv
<1>4. CASE UNCHANGED collectorVars
  BY <1>4, StutterIInv
<1> QED BY <1>1, <1>2, <1>3, <1>4 DEF CollectorNext

\* The invariant holds in every state of every behaviour of the collector.
THEOREM CollectorInvariance == CollectorSpec => []CollectorIInv
<1>1. CollectorInit => CollectorIInv
  BY InitCollectorIInv
<1>2. CollectorIInv /\ [CollectorNext]_collectorVars => CollectorIInv'
  BY NextCollectorIInv
<1> QED BY <1>1, <1>2, PTL DEF CollectorSpec

-----------------------------------------------------------------------------
(* What follows from the invariant *)

\* Every variable of the collector keeps its type; the warm-up count never
\* passes warmup_parts.
THEOREM CollectorTypeCorrect == CollectorSpec => []CollectorTypeOK
<1>1. CollectorIInv => CollectorTypeOK
  BY DEF CollectorIInv
<1> QED BY <1>1, CollectorInvariance, PTL

\* Every charted update is the opening one, a warm-up part or a recorded part.
THEOREM ChartedUpdatesCorrect == CollectorSpec => []ChartedUpdatesAddUp
<1>1. CollectorIInv => ChartedUpdatesAddUp
  BY DEF CollectorIInv
<1> QED BY <1>1, CollectorInvariance, PTL

\* The numbers of the parts of a subgroup.
LEMMA SubgroupNumbers ==
    ASSUME CollectorIInv, NEW g \in DOMAIN subgroups
    PROVE  /\ g \in 1 .. Len(subgroups)
           /\ DOMAIN subgroups[g].parts = 1 .. Size
           /\ \A i \in 1 .. Size : /\ Start(g) + i \in DOMAIN parts
                                   /\ subgroups[g].parts[i] = parts[Start(g) + i]
                                   /\ subgroups[g].parts[i].sequence = Start(g) + i - 1
<1>1. /\ subgroups \in Seq(Subgroup) /\ parts \in Seq(Part)
      /\ DOMAIN subgroups = 1 .. Len(subgroups) /\ DOMAIN parts = 1 .. Len(parts)
  BY DEF CollectorIInv, CollectorTypeOK
<1>2. g \in 1 .. Len(subgroups)
  BY <1>1
<1>3. subgroups[g].parts \in Seq(Part) /\ Len(subgroups[g].parts) = Size
  <2>1. subgroups[g] \in Subgroup
    BY <1>1, <1>2
  <2>2. subgroups[g].parts \in Seq(Part)
    BY <2>1 DEF Subgroup
  <2> QED BY <2>2, <1>2, SubgroupFacts
<1>4. DOMAIN subgroups[g].parts = 1 .. Size
  BY <1>3
<1>5. ASSUME NEW i \in 1 .. Size
      PROVE  /\ Start(g) + i \in DOMAIN parts
             /\ subgroups[g].parts[i] = parts[Start(g) + i]
             /\ subgroups[g].parts[i].sequence = Start(g) + i - 1
  <2>1. Start(g) + i \in DOMAIN parts /\ subgroups[g].parts[i] = parts[Start(g) + i]
    BY <1>1, <1>2, SubgroupFacts
  <2>2. parts[Start(g) + i].sequence = (Start(g) + i) - 1
    BY <2>1 DEF CollectorIInv, PartsNumbered
  <2>3. Start(g) \in Nat
    BY <1>2, SubgroupFacts
  <2> QED BY <2>1, <2>2, <2>3
<1> QED BY <1>2, <1>4, <1>5

\* A subgroup is Size consecutive recorded parts, numbered in the order they
\* were emitted, and the partial subgroup is the most recent parts.
THEOREM SubgroupsCorrect == CollectorSpec => []SubgroupsAreRuns
<1>1. CollectorIInv => SubgroupsAreRuns
  <2> SUFFICES ASSUME CollectorIInv
               PROVE  SubgroupsAreRuns
    OBVIOUS
  <2>1. ASSUME NEW g \in DOMAIN subgroups
        PROVE  /\ subgroups[g].index = g - 1
               /\ Len(subgroups[g].parts) = Size
    BY <2>1, SubgroupNumbers, SubgroupFacts
  <2>2. ASSUME NEW g \in DOMAIN subgroups, NEW i \in 1 .. Size
        PROVE  /\ subgroups[g].parts[i] \in {parts[j] : j \in DOMAIN parts}
               /\ subgroups[g].parts[i].sequence = subgroups[g].parts[1].sequence + i - 1
    <3>1. Start(g) \in Nat /\ subgroups[g].parts[i].sequence = Start(g) + i - 1
      BY SubgroupNumbers, SubgroupFacts
    <3>2. subgroups[g].parts[i].sequence = subgroups[g].parts[1].sequence + i - 1
      BY <3>1 DEF Start
    <3>3. subgroups[g].parts[i] \in {parts[j] : j \in DOMAIN parts}
      BY SubgroupNumbers
    <3> QED BY <3>2, <3>3
  <2>3. \A i \in DOMAIN pending :
            pending[i].sequence = Len(parts) - Len(pending) + i - 1
    BY PendingFacts DEF Base
  <2> QED BY <2>1, <2>2, <2>3 DEF SubgroupsAreRuns
<1> QED BY <1>1, CollectorInvariance, PTL

\* Every part recorded is in exactly one subgroup, or in the partial one, or
\* was thrown away at a stoppage.
THEOREM PlacedCorrect == CollectorSpec => []EveryPartPlacedOnce
<1>1. CollectorIInv => EveryPartPlacedOnce
  <2> SUFFICES ASSUME CollectorIInv
               PROVE  EveryPartPlacedOnce
    OBVIOUS
  <2>1. ASSUME NEW g \in DOMAIN subgroups, NEW n \in Int
        PROVE  InSubgroup(g, n) <=> Within(g, n)
    <3>1. Start(g) \in Nat /\ DOMAIN subgroups[g].parts = 1 .. Size /\ Size \in Nat
      BY SubgroupNumbers, SubgroupFacts, SizeAssumption
    <3>2. \A i \in 1 .. Size : subgroups[g].parts[i].sequence = Start(g) + i - 1
      BY SubgroupNumbers
    <3>3. ASSUME Within(g, n)
          PROVE  InSubgroup(g, n)
      <4>1. n - Start(g) + 1 \in 1 .. Size /\ n = Start(g) + (n - Start(g) + 1) - 1
        BY <3>1, <3>3 DEF Within
      <4> QED BY <4>1, <3>1, <3>2 DEF InSubgroup
    <3>4. ASSUME InSubgroup(g, n)
          PROVE  Within(g, n)
      <4>1. PICK i \in 1 .. Size : subgroups[g].parts[i].sequence = n
        BY <3>1, <3>4 DEF InSubgroup
      <4> QED BY <4>1, <3>1, <3>2 DEF Within
    <3> QED BY <3>3, <3>4
  <2>2. /\ DOMAIN subgroups = 1 .. Len(subgroups) /\ Len(subgroups) \in Nat
        /\ \A g \in 1 .. Len(subgroups) : Start(g) \in Nat /\ Start(g) + Size <= Base
        /\ \A g, h \in 1 .. Len(subgroups) : g < h => Start(g) + Size <= Start(h)
    BY SubgroupFacts DEF CollectorIInv, CollectorTypeOK
  <2>3. ASSUME NEW n \in Int
        PROVE  InPending(n) <=> Base <= n /\ n < Len(parts)
    <3>1. ASSUME Base <= n, n < Len(parts)
          PROVE  InPending(n)
      <4>1. n - Base + 1 \in 1 .. Len(pending) /\ n = Base + (n - Base + 1) - 1
        BY <3>1, PendingFacts
      <4> QED BY <4>1, PendingFacts DEF InPending
    <3>2. ASSUME InPending(n)
          PROVE  Base <= n /\ n < Len(parts)
      <4>1. PICK i \in 1 .. Len(pending) : pending[i].sequence = n
        BY <3>2, PendingFacts DEF InPending
      <4> QED BY <4>1, PendingFacts
    <3> QED BY <3>1, <3>2
  <2> SUFFICES ASSUME NEW n \in 0 .. Len(parts) - 1
               PROVE  /\ (\E g \in DOMAIN subgroups : InSubgroup(g, n)) \/ InPending(n) \/ n \in discarded
                      /\ \A g, h \in DOMAIN subgroups : InSubgroup(g, n) /\ InSubgroup(h, n) => g = h
                      /\ InPending(n) => n \notin discarded
                      /\ \A g \in DOMAIN subgroups :
                           InSubgroup(g, n) => ~ InPending(n) /\ n \notin discarded
    BY DEF EveryPartPlacedOnce
  <2>4. n \in Int /\ 0 <= n /\ n < Len(parts) /\ Base \in Nat
    BY PendingFacts
  <2>5. /\ n < Base => (\E g \in 1 .. Len(subgroups) : Within(g, n)) \/ n \in discarded
        /\ n \in discarded => n < Base /\ \A g \in 1 .. Len(subgroups) : ~ Within(g, n)
    <3>1. n < Base => n \in 0 .. Base - 1
      BY <2>4
    <3> QED BY <3>1 DEF CollectorIInv, PartsPlaced
  <2>6. (\E g \in DOMAIN subgroups : InSubgroup(g, n)) \/ InPending(n) \/ n \in discarded
    <3>1. n < Base \/ Base <= n
      BY <2>4
    <3> QED BY <3>1, <2>1, <2>2, <2>3, <2>4, <2>5
  <2>7. ASSUME NEW g \in DOMAIN subgroups, NEW h \in DOMAIN subgroups,
               InSubgroup(g, n), InSubgroup(h, n)
        PROVE  g = h
    <3>1. Within(g, n) /\ Within(h, n)
      BY <2>1, <2>4, <2>7
    <3> QED BY <3>1, <2>2, <2>4, SizeAssumption DEF Within
  <2>8. InPending(n) => n \notin discarded
    BY <2>3, <2>4, <2>5
  <2>9. ASSUME NEW g \in DOMAIN subgroups, InSubgroup(g, n)
        PROVE  ~ InPending(n) /\ n \notin discarded
    <3>1. Within(g, n)
      BY <2>1, <2>4, <2>9
    <3>2. n < Base
      BY <3>1, <2>2, <2>4, SizeAssumption DEF Within
    <3> QED BY <3>1, <3>2, <2>2, <2>3, <2>4, <2>5
  <2> QED BY <2>6, <2>7, <2>8, <2>9
<1> QED BY <1>1, CollectorInvariance, PTL

\* No subgroup mixes parts made before a stoppage with parts made after it.
THEOREM StopsCorrect == CollectorSpec => []NoSubgroupBridgesAStop
<1>1. CollectorIInv => NoSubgroupBridgesAStop
  <2> SUFFICES ASSUME CollectorIInv, NEW g \in DOMAIN subgroups, NEW b \in breaks
               PROVE  ~ (subgroups[g].parts[1].sequence < b
                         /\ b <= subgroups[g].parts[Size].sequence)
    BY DEF NoSubgroupBridgesAStop
  <2>1. Size \in 1 .. Size /\ Size \in Nat
    BY SizeAssumption
  <2>2. Start(g) \in Nat /\ subgroups[g].parts[Size].sequence = Start(g) + Size - 1
    BY <2>1, SubgroupNumbers, SubgroupFacts
  <2>3. b \in Nat /\ (b <= Start(g) \/ Start(g) + Size <= b)
    BY SubgroupNumbers DEF CollectorIInv, CollectorTypeOK, BreaksBetween
  <2>4. ~ (Start(g) < b /\ b <= Start(g) + Size - 1)
    BY <2>1, <2>2, <2>3
  <2> QED BY <2>2, <2>4 DEF Start
<1> QED BY <1>1, CollectorInvariance, PTL

-----------------------------------------------------------------------------
(* Pipeline: the chain of queues *)

\* A reading is exact unless the sensor's error varies.
Errors == IF "varying" \in Effects THEN 0 .. MaxSamples ELSE {0}
BoreValue == [part : -1 .. MaxSamples, error : Errors]
Value(t) == IF t = "BoreDiameter" THEN BoreValue ELSE 0 .. MaxSamples
Updates == [tag : {"BoreDiameter"}, value : BoreValue]
           \cup [tag : {"Torque", "PartCount"}, value : 0 .. MaxSamples]

\* The place of a value among those of its tag.
Rank(t, v) == IF t = "BoreDiameter" THEN v.part ELSE v

Tagged(f) == f = [t \in Tag |-> f[t]] /\ \A t \in Tag : f[t] \in Value(t)

MachineTypeOK ==
    /\ made \in Nat /\ samples \in Nat /\ samples <= MaxSamples
    /\ made <= samples
    /\ Tagged(sample) /\ Tagged(node)
    /\ sample["PartCount"] = made /\ sample["Torque"] = samples
    /\ writing \in Seq(Tag)

QueuesTypeOK ==
    /\ subscribed \in BOOLEAN
    /\ batch \in Seq(Tag)
    /\ \A i, j \in 1 .. Len(batch) : batch[i] = batch[j] => i = j
    /\ DOMAIN items = Tag
    /\ \A t \in Tag : items[t] \in Seq(Value(t)) /\ Len(items[t]) <= QueueSize
    /\ \A t \in Tag : items[t] # <<>> <=> \E i \in 1 .. Len(batch) : batch[i] = t
    /\ wire \in Seq(Updates)
    /\ client = [queue |-> client.queue, latest |-> client.latest, dropped |-> client.dropped]
    /\ client.queue \in Seq(Updates) /\ Len(client.queue) <= MaxQueue
    /\ client.latest = [t \in DOMAIN client.latest |-> client.latest[t]]
    /\ DOMAIN client.latest \subseteq Tag
    /\ \A t \in DOMAIN client.latest : client.latest[t] \in Value(t)
    /\ client.dropped \subseteq Updates
    /\ opened \in BoreValue
    /\ dropped \subseteq BoreValue /\ skipped \subseteq BoreValue
    /\ Recorded \subseteq BoreValue

Unopened ==
    ~ subscribed =>
        /\ batch = <<>> /\ \A t \in Tag : items[t] = <<>>
        /\ wire = <<>> /\ client.queue = <<>>
        /\ DOMAIN client.latest = {} /\ client.dropped = {}
        /\ opened = Nominal /\ dropped = {} /\ skipped = {}
        /\ parts = <<>> /\ charted = 0 /\ partCount = NoCount

-----------------------------------------------------------------------------
(* The order of the values of one tag *)

\* A sensor whose error varies repeats a part with another value.
Ordered == {t \in Tag : t = "BoreDiameter" => "varying" \notin Effects}

Unwritten(t) == \E i \in DOMAIN writing : writing[i] = t

\* What the machine publishes next comes after what the node holds.
SourceInOrder ==
    /\ \A t \in Tag : Unwritten(t) \/ node[t] = sample[t]
    /\ \A t \in Ordered : node[t] = sample[t] \/ Rank(t, node[t]) < Rank(t, sample[t])
    /\ sample["BoreDiameter"].part <= made

Ranks(updates, t) == {Rank(t, updates[i].value) : i \in {j \in DOMAIN updates : updates[j].tag = t}}

ValueRanks(t, values) == {Rank(t, values[i]) : i \in DOMAIN values}

Waiting(t) == ValueRanks(t, items[t])
Sent(t) == Ranks(wire, t)
Buffered(t) == Ranks(client.queue, t)

\* The readings handled, and the value of PartCount that the collector holds.
Handled == Recorded \cup skipped
Numbers(readings) == {v.part : v \in readings}
Done(t) == CASE t = "BoreDiameter" -> Numbers(Handled)
             [] t = "PartCount" -> {partCount}
             [] t = "Torque" -> {}

Precede(X, Y) == \A x \in X, y \in Y : x < y

Chain(D, B, S, W, newest) ==
    /\ Precede(D, B) /\ Precede(D, S) /\ Precede(D, W)
    /\ Precede(B, S) /\ Precede(B, W) /\ Precede(S, W)
    /\ \A x \in D \cup B \cup S \cup W : x <= newest

\* The values of a tag in a queue of updates.
InOrder(updates, t) ==
    \A i, j \in DOMAIN updates :
        i < j /\ updates[i].tag = t /\ updates[j].tag = t =>
            Rank(t, updates[i].value) < Rank(t, updates[j].value)

Climbs(t, values) ==
    \A i, j \in DOMAIN values : i < j => Rank(t, values[i]) < Rank(t, values[j])
ItemsInOrder(t) == Climbs(t, items[t])

FlowInOrder ==
    /\ \A t \in Ordered :
         /\ Chain(Done(t), Buffered(t), Sent(t), Waiting(t), Rank(t, node[t]))
         /\ ItemsInOrder(t) /\ InOrder(wire, t) /\ InOrder(client.queue, t)
    /\ "BoreDiameter" \in Ordered => RecordedInOrder

-----------------------------------------------------------------------------
(* The newest value of a tag *)

LastSent(t) ==
    \E i \in DOMAIN wire : /\ wire[i] = Update(t, node[t])
                           /\ \A j \in DOMAIN wire : j > i => wire[j].tag # t

NewestIsKept ==
    subscribed =>
      \A t \in Tag :
        \/ items[t] # <<>> /\ items[t][Len(items[t])] = node[t]
        \/ items[t] = <<>> /\ LastSent(t)
        \/ /\ items[t] = <<>> /\ \A j \in DOMAIN wire : wire[j].tag # t
           /\ t \in DOMAIN client.latest /\ client.latest[t] = node[t]

CountIsKept ==
    "PartCount" \in DOMAIN client.latest =>
      LET n == client.latest["PartCount"]
      IN  \/ partCount = n
          \/ \E i \in DOMAIN client.queue : client.queue[i] = Update("PartCount", n)
          \/ Update("PartCount", n) \in client.dropped

LatestIsLast ==
    \A i \in DOMAIN client.queue :
        LET t == client.queue[i].tag
        IN  /\ t \in DOMAIN client.latest
            /\ t \in Ordered => Rank(t, client.queue[i].value) <= Rank(t, client.latest[t])

-----------------------------------------------------------------------------
(* Parts, with a sensor that shows each as it is *)

Exact == Effects \subseteq {"none"}

NewestPart == node["BoreDiameter"].part
Places == Done("BoreDiameter") \cup Buffered("BoreDiameter") \cup Sent("BoreDiameter")
          \cup Waiting("BoreDiameter")

\* The machine publishes the parts one after the other.
PublishedInTurn ==
    Exact =>
      /\ samples > 0 => sample["BoreDiameter"].part = made
      /\ samples = 0 => sample["BoreDiameter"].part = -1
      /\ sample["BoreDiameter"].part <= NewestPart + 1

\* Each part since the subscription is somewhere, and what is dropped is
\* nowhere else, nor is what is skipped recorded.
PartsTraced ==
    Exact =>
      /\ subscribed => \A n \in opened.part .. NewestPart : n \in Places \cup Numbers(Dropped)
      /\ \A n \in Numbers(Dropped) : n \notin Places /\ n <= NewestPart
      /\ Numbers(Recorded) \cap Numbers(skipped) = {}

-----------------------------------------------------------------------------
(* How many readings are handled *)

\* The numbers of the readings leave room for as many as are handled.
HandledAreDistinct ==
    "BoreDiameter" \in Ordered =>
      /\ subscribed => opened.part <= NewestPart /\ \A m \in Places : opened.part <= m
      /\ subscribed /\ ~ EarlySubscribe => opened.part >= 0
      /\ charted > 0 => \E v \in Handled : v.part >= opened.part + charted - 1
      /\ SkipInitial => /\ snapshotSkipped <=> charted > 0
                        /\ \A v \in Recorded : v.part > opened.part

\* The part of the invariant that is not about what the machine publishes next.
QueuesInv ==
    /\ CollectorIInv /\ QueuesTypeOK /\ Unopened /\ FlowInOrder
    /\ NewestIsKept /\ LatestIsLast /\ CountIsKept
    /\ PartsTraced /\ HandledAreDistinct

FlowInv == QueuesInv /\ MachineTypeOK /\ SourceInOrder /\ PublishedInTurn

-----------------------------------------------------------------------------
(* Tags, and records that hold a value for each *)

LEMMA TagFacts ==
    /\ Tag = {"BoreDiameter", "Torque", "PartCount"}
    /\ Tags \in Seq(Tag) /\ Len(Tags) = 3
    /\ IsFiniteSet(Tag) /\ Cardinality(Tag) = 3
<1>1. /\ DOMAIN Tags = 1 .. 3 /\ Tags[1] = "BoreDiameter" /\ Tags[2] = "Torque"
      /\ Tags[3] = "PartCount"
  BY DEF Tags
<1>2. 1 .. 3 = {1, 2, 3}
  OBVIOUS
<1>3. Tag = {"BoreDiameter", "Torque", "PartCount"}
  BY <1>1, <1>2 DEF Tag
<1>4. Tags \in Seq(Tag) /\ Len(Tags) = 3
  BY <1>3 DEF Tags
<1>5. /\ IsFiniteSet({"BoreDiameter"}) /\ Cardinality({"BoreDiameter"}) = 1
  BY FS_Singleton
<1>6. /\ IsFiniteSet({"BoreDiameter"} \cup {"Torque"})
      /\ Cardinality({"BoreDiameter"} \cup {"Torque"}) = 2
  BY <1>5, FS_AddElement
<1>7. /\ IsFiniteSet({"BoreDiameter"} \cup {"Torque"} \cup {"PartCount"})
      /\ Cardinality({"BoreDiameter"} \cup {"Torque"} \cup {"PartCount"}) = 3
  BY <1>6, FS_AddElement
<1>8. Tag = {"BoreDiameter"} \cup {"Torque"} \cup {"PartCount"}
  BY <1>3
<1> QED BY <1>3, <1>4, <1>7, <1>8

LEMMA ThreeValues ==
    ASSUME NEW b, NEW t, NEW p, NEW r,
           r = [BoreDiameter |-> b, Torque |-> t, PartCount |-> p]
    PROVE  /\ DOMAIN r = Tag
           /\ r["BoreDiameter"] = b /\ r["Torque"] = t /\ r["PartCount"] = p
BY TagFacts

\* A batch holds no tag twice, so Notifications says it all.
LEMMA BatchIsShort ==
    ASSUME QueuesTypeOK
    PROVE  Len(batch) \in 0 .. 3 /\ Len(batch) <= Cardinality(Tag)
<1>1. batch \in Seq(Tag) /\ Len(batch) \in Nat /\ DOMAIN batch = 1 .. Len(batch)
  BY DEF QueuesTypeOK
<1>2. batch \in Injection(1 .. Len(batch), Tag)
  BY <1>1 DEF QueuesTypeOK, Injection, IsInjective
<1>3. Cardinality(1 .. Len(batch)) <= Cardinality(Tag)
  BY <1>2, TagFacts, FS_Injection
<1>4. Cardinality(1 .. Len(batch)) = Len(batch)
  BY <1>1, FS_Interval
<1> QED BY <1>1, <1>3, <1>4, TagFacts

-----------------------------------------------------------------------------
(* Sequences of updates *)

LEMMA TailFacts ==
    ASSUME NEW S, NEW s \in Seq(S), s # <<>>
    PROVE  /\ Head(s) = s[1] /\ Head(s) \in S
           /\ Tail(s) \in Seq(S)
           /\ Len(s) \in Nat /\ Len(s) > 0 /\ 1 \in DOMAIN s
           /\ Len(Tail(s)) = Len(s) - 1
           /\ DOMAIN Tail(s) = 1 .. Len(s) - 1
           /\ DOMAIN s = 1 .. Len(s)
           /\ \A i \in 1 .. Len(s) - 1 : Tail(s)[i] = s[i + 1]
OBVIOUS

LEMMA ConcatFacts ==
    ASSUME NEW S, NEW s \in Seq(S), NEW r \in Seq(S)
    PROVE  /\ s \o r \in Seq(S)
           /\ Len(s) \in Nat /\ Len(r) \in Nat
           /\ Len(s \o r) = Len(s) + Len(r)
           /\ DOMAIN (s \o r) = 1 .. Len(s) + Len(r)
           /\ \A i \in 1 .. Len(s) : (s \o r)[i] = s[i]
           /\ \A i \in 1 .. Len(r) : (s \o r)[Len(s) + i] = r[i]
           /\ \A i \in 1 .. Len(s) + Len(r) : i > Len(s) => (s \o r)[i] = r[i - Len(s)]
OBVIOUS

LEMMA UpdateFacts ==
    ASSUME NEW t \in Tag, NEW v \in Value(t)
    PROVE  /\ Update(t, v) \in Updates
           /\ Update(t, v).tag = t /\ Update(t, v).value = v
           /\ Rank(t, v) \in Int
<1>1. CASE t = "BoreDiameter"
  <2>1. v \in BoreValue
    BY <1>1 DEF Value
  <2>2. v.part \in -1 .. MaxSamples
    BY <2>1 DEF BoreValue
  <2> QED BY <2>1, <2>2, <1>1 DEF Update, Updates, Rank
<1>2. CASE t # "BoreDiameter"
  <2>1. v \in 0 .. MaxSamples /\ t \in {"Torque", "PartCount"}
    BY <1>2, TagFacts DEF Value
  <2> QED BY <2>1, <1>2 DEF Update, Updates, Rank
<1> QED BY <1>1, <1>2

LEMMA UpdatesAre ==
    ASSUME NEW u \in Updates
    PROVE  /\ u.tag \in Tag /\ u.value \in Value(u.tag)
           /\ u = Update(u.tag, u.value) /\ Rank(u.tag, u.value) \in Int
<1>1. CASE u \in [tag : {"BoreDiameter"}, value : BoreValue]
  <2>1. u.tag = "BoreDiameter" /\ u.value \in BoreValue /\ u = [tag |-> u.tag, value |-> u.value]
    BY <1>1
  <2>2. u.value.part \in -1 .. MaxSamples
    BY <2>1 DEF BoreValue
  <2> QED BY <2>1, <2>2, TagFacts DEF Update, Value, Rank
<1>2. CASE u \in [tag : {"Torque", "PartCount"}, value : 0 .. MaxSamples]
  <2>1. /\ u.tag \in {"Torque", "PartCount"} /\ u.value \in 0 .. MaxSamples
        /\ u = [tag |-> u.tag, value |-> u.value]
    BY <1>2
  <2>2. u.tag # "BoreDiameter"
    BY <2>1
  <2> QED BY <2>1, <2>2, TagFacts DEF Update, Value, Rank
<1> QED BY <1>1, <1>2 DEF Updates

LEMMA RanksType ==
    ASSUME NEW s \in Seq(Updates), NEW t
    PROVE  Ranks(s, t) \subseteq Int
<1> SUFFICES ASSUME NEW i \in DOMAIN s, s[i].tag = t
             PROVE  Rank(t, s[i].value) \in Int
  BY DEF Ranks
<1>1. s[i] \in Updates
  OBVIOUS
<1> QED BY <1>1, UpdatesAre

\* Appending, dropping the first and joining, in terms of ranks and order.
LEMMA AppendRanks ==
    ASSUME NEW s \in Seq(Updates), NEW u \in Updates, NEW t
    PROVE  /\ u.tag # t => Ranks(Append(s, u), t) = Ranks(s, t)
           /\ u.tag = t => Ranks(Append(s, u), t) = Ranks(s, t) \cup {Rank(t, u.value)}
           /\ InOrder(s, t) /\ (u.tag = t => \A x \in Ranks(s, t) : x < Rank(t, u.value))
                => InOrder(Append(s, u), t)
<1> DEFINE r == Append(s, u)
<1>1. /\ r \in Seq(Updates) /\ Len(s) \in Nat /\ DOMAIN s = 1 .. Len(s)
      /\ DOMAIN r = 1 .. Len(s) + 1 /\ r[Len(s) + 1] = u
      /\ \A i \in 1 .. Len(s) : r[i] = s[i]
  OBVIOUS
<1> HIDE DEF r
<1>2. \A i \in 1 .. Len(s) + 1 : i \in 1 .. Len(s) \/ i = Len(s) + 1
  BY <1>1
<1>3. u.tag # t => Ranks(r, t) = Ranks(s, t)
  BY <1>1, <1>2 DEF Ranks
<1>4. u.tag = t => Ranks(r, t) = Ranks(s, t) \cup {Rank(t, u.value)}
  BY <1>1, <1>2 DEF Ranks
<1>5. ASSUME InOrder(s, t), u.tag = t => \A x \in Ranks(s, t) : x < Rank(t, u.value)
      PROVE  InOrder(r, t)
  <2> SUFFICES ASSUME NEW i \in 1 .. Len(s) + 1, NEW j \in 1 .. Len(s) + 1,
                      i < j, r[i].tag = t, r[j].tag = t
               PROVE  Rank(t, r[i].value) < Rank(t, r[j].value)
    BY <1>1 DEF InOrder
  <2>1. i \in 1 .. Len(s) /\ r[i] = s[i]
    BY <1>1
  <2>2. CASE j = Len(s) + 1
    <3>1. Rank(t, s[i].value) \in Ranks(s, t)
      BY <2>1, <1>1 DEF Ranks
    <3> QED BY <3>1, <2>1, <2>2, <1>1, <1>5
  <2>3. CASE j \in 1 .. Len(s)
    BY <2>1, <2>3, <1>1, <1>5 DEF InOrder
  <2> QED BY <2>2, <2>3, <1>2
<1> QED BY <1>3, <1>4, <1>5 DEF r

LEMMA TailRanks ==
    ASSUME NEW s \in Seq(Updates), s # <<>>, NEW t
    PROVE  /\ Ranks(Tail(s), t) \subseteq Ranks(s, t)
           /\ Head(s).tag # t => Ranks(Tail(s), t) = Ranks(s, t)
           /\ Head(s).tag = t => /\ Rank(t, Head(s).value) \in Ranks(s, t)
                                 /\ Ranks(s, t) = Ranks(Tail(s), t) \cup {Rank(t, Head(s).value)}
           /\ InOrder(s, t) => /\ InOrder(Tail(s), t)
                               /\ Head(s).tag = t =>
                                    \A y \in Ranks(Tail(s), t) : Rank(t, Head(s).value) < y
<1> DEFINE r == Tail(s)
<1>1. /\ Head(s) = s[1] /\ Len(s) \in Nat /\ DOMAIN s = 1 .. Len(s) /\ 1 \in 1 .. Len(s)
      /\ DOMAIN r = 1 .. Len(s) - 1
      /\ \A i \in 1 .. Len(s) - 1 : r[i] = s[i + 1] /\ i + 1 \in 1 .. Len(s) /\ 1 < i + 1
  BY TailFacts
<1> HIDE DEF r
<1>2. \A i \in 1 .. Len(s) : i = 1 \/ (i - 1 \in 1 .. Len(s) - 1 /\ i = (i - 1) + 1)
  BY <1>1
<1>3. \A i \in 1 .. Len(s) : i = 1 \/ (i - 1 \in 1 .. Len(s) - 1 /\ r[i - 1] = s[i])
  BY <1>1, <1>2
<1>4. Ranks(r, t) \subseteq Ranks(s, t)
  BY <1>1 DEF Ranks
<1>5. Head(s).tag = t => Rank(t, Head(s).value) \in Ranks(s, t)
  BY <1>1 DEF Ranks
<1>6. ASSUME NEW x \in Ranks(s, t)
      PROVE  x \in Ranks(r, t) \/ (Head(s).tag = t /\ x = Rank(t, Head(s).value))
  <2>1. PICK i \in 1 .. Len(s) : s[i].tag = t /\ x = Rank(t, s[i].value)
    BY <1>1 DEF Ranks
  <2>2. CASE i = 1
    BY <2>1, <2>2, <1>1
  <2>3. CASE i - 1 \in 1 .. Len(s) - 1 /\ r[i - 1] = s[i]
    BY <2>1, <2>3, <1>1 DEF Ranks
  <2> QED BY <2>2, <2>3, <1>3
<1>7. ASSUME InOrder(s, t)
      PROVE  /\ InOrder(r, t)
             /\ Head(s).tag = t => \A y \in Ranks(r, t) : Rank(t, Head(s).value) < y
  <2>1. ASSUME NEW i \in 1 .. Len(s) - 1, NEW j \in 1 .. Len(s) - 1,
               i < j, r[i].tag = t, r[j].tag = t
        PROVE  Rank(t, r[i].value) < Rank(t, r[j].value)
    <3>1. i + 1 < j + 1 /\ i + 1 \in 1 .. Len(s) /\ j + 1 \in 1 .. Len(s)
      BY <2>1, <1>1
    <3> QED BY <3>1, <2>1, <1>1, <1>7 DEF InOrder
  <2>2. InOrder(r, t)
    BY <2>1, <1>1 DEF InOrder
  <2>3. ASSUME Head(s).tag = t, NEW i \in 1 .. Len(s) - 1, r[i].tag = t
        PROVE  Rank(t, Head(s).value) < Rank(t, r[i].value)
    BY <2>3, <1>1, <1>7 DEF InOrder
  <2> QED BY <2>2, <2>3, <1>1 DEF Ranks
<1> QED BY <1>4, <1>5, <1>6, <1>7 DEF r

LEMMA ConcatRanks ==
    ASSUME NEW s \in Seq(Updates), NEW r \in Seq(Updates), NEW t
    PROVE  /\ Ranks(s \o r, t) = Ranks(s, t) \cup Ranks(r, t)
           /\ InOrder(s, t) /\ InOrder(r, t) /\ Precede(Ranks(s, t), Ranks(r, t))
                => InOrder(s \o r, t)
<1> DEFINE q == s \o r
<1>1. /\ Len(s) \in Nat /\ Len(r) \in Nat /\ DOMAIN s = 1 .. Len(s) /\ DOMAIN r = 1 .. Len(r)
      /\ DOMAIN q = 1 .. Len(s) + Len(r)
      /\ \A i \in 1 .. Len(s) : q[i] = s[i] /\ i \in 1 .. Len(s) + Len(r)
      /\ \A i \in 1 .. Len(r) : q[Len(s) + i] = r[i] /\ Len(s) + i \in 1 .. Len(s) + Len(r)
  BY ConcatFacts
<1> HIDE DEF q
<1>2. ASSUME NEW i \in 1 .. Len(s) + Len(r)
      PROVE  \/ i \in 1 .. Len(s) /\ q[i] = s[i]
             \/ i > Len(s) /\ i - Len(s) \in 1 .. Len(r) /\ q[i] = r[i - Len(s)]
  <2>1. i \in 1 .. Len(s) \/ (i > Len(s) /\ i - Len(s) \in 1 .. Len(r) /\ i = Len(s) + (i - Len(s)))
    BY <1>1
  <2> QED BY <2>1, <1>1
<1>3. ASSUME NEW x \in Ranks(q, t)
      PROVE  x \in Ranks(s, t) \cup Ranks(r, t)
  <2>1. PICK i \in 1 .. Len(s) + Len(r) : q[i].tag = t /\ x = Rank(t, q[i].value)
    BY <1>1 DEF Ranks
  <2>2. CASE i \in 1 .. Len(s) /\ q[i] = s[i]
    BY <2>1, <2>2, <1>1 DEF Ranks
  <2>3. CASE i - Len(s) \in 1 .. Len(r) /\ q[i] = r[i - Len(s)]
    BY <2>1, <2>3, <1>1 DEF Ranks
  <2> QED BY <2>2, <2>3, <1>2
<1>4. Ranks(s, t) \subseteq Ranks(q, t)
  BY <1>1 DEF Ranks
<1>5. Ranks(r, t) \subseteq Ranks(q, t)
  BY <1>1 DEF Ranks
<1>6. ASSUME InOrder(s, t), InOrder(r, t), Precede(Ranks(s, t), Ranks(r, t))
      PROVE  InOrder(q, t)
  <2> SUFFICES ASSUME NEW i \in 1 .. Len(s) + Len(r), NEW j \in 1 .. Len(s) + Len(r),
                      i < j, q[i].tag = t, q[j].tag = t
               PROVE  Rank(t, q[i].value) < Rank(t, q[j].value)
    BY <1>1 DEF InOrder
  <2>1. CASE i \in 1 .. Len(s) /\ j \in 1 .. Len(s)
    BY <2>1, <1>1, <1>6 DEF InOrder
  <2>2. CASE i \in 1 .. Len(s) /\ j > Len(s)
    <3>1. j - Len(s) \in 1 .. Len(r) /\ q[j] = r[j - Len(s)]
      BY <2>2, <1>2, <1>1
    <3>2. Rank(t, s[i].value) \in Ranks(s, t)
      BY <2>2, <1>1 DEF Ranks
    <3>3. Rank(t, r[j - Len(s)].value) \in Ranks(r, t)
      BY <3>1, <1>1 DEF Ranks
    <3> QED BY <3>1, <3>2, <3>3, <2>2, <1>1, <1>6 DEF Precede
  <2>3. CASE i > Len(s)
    <3>1. /\ i - Len(s) \in 1 .. Len(r) /\ q[i] = r[i - Len(s)]
          /\ j - Len(s) \in 1 .. Len(r) /\ q[j] = r[j - Len(s)]
          /\ i - Len(s) < j - Len(s)
      BY <2>3, <1>2, <1>1
    <3> QED BY <3>1, <1>1, <1>6, SMTT(30) DEF InOrder
  <2> QED BY <2>1, <2>2, <2>3, <1>1, <1>2
<1> QED BY <1>3, <1>4, <1>5, <1>6 DEF q

-----------------------------------------------------------------------------
(* What is sent at the end of a publishing interval *)

\* Where the values of the k-th tag of the batch begin.
Offset(k) == CASE k = 1 -> 0
               [] k = 2 -> Len(Queued(1))
               [] k = 3 -> Len(Queued(1)) + Len(Queued(2))

LEMMA QueuedFacts ==
    ASSUME QueuesTypeOK, NEW k \in 1 .. 3
    PROVE  /\ Queued(k) \in Seq(Updates) /\ Len(Queued(k)) \in Nat
           /\ k > Len(batch) => Queued(k) = <<>>
           /\ k <= Len(batch) => /\ batch[k] \in Tag
                                 /\ Len(Queued(k)) = Len(items[batch[k]])
                                 /\ \A i \in 1 .. Len(items[batch[k]]) :
                                      Queued(k)[i] = Update(batch[k], items[batch[k]][i])
<1>1. batch \in Seq(Tag) /\ Len(batch) \in Nat
  BY DEF QueuesTypeOK
<1>2. CASE k > Len(batch)
  BY <1>1, <1>2 DEF Queued
<1>3. CASE k <= Len(batch)
  <2>1. batch[k] \in Tag
    BY <1>1, <1>3
  <2>2. PICK q : q = items[batch[k]]
    OBVIOUS
  <2>3. q \in Seq(Value(batch[k])) /\ Len(q) \in Nat /\ DOMAIN q = 1 .. Len(q)
    BY <2>1, <2>2 DEF QueuesTypeOK
  <2>4. Queued(k) = [i \in 1 .. Len(q) |-> Update(batch[k], q[i])]
    BY <1>1, <1>3, <2>2, <2>3 DEF Queued
  <2>5. \A i \in 1 .. Len(q) : Update(batch[k], q[i]) \in Updates
    BY <2>1, <2>3, UpdateFacts
  <2>6. Queued(k) \in Seq(Updates) /\ Len(Queued(k)) = Len(q)
    BY <2>3, <2>4, <2>5
  <2> QED BY <2>1, <2>2, <2>3, <2>4, <2>6, <1>1, <1>3
<1> QED BY <1>1, <1>2, <1>3

\* Notifications, position by position.
LEMMA NotificationsAt ==
    ASSUME QueuesTypeOK
    PROVE  /\ Notifications \in Seq(Updates)
           /\ Len(Notifications) \in Nat /\ DOMAIN Notifications = 1 .. Len(Notifications)
           /\ \A i \in 1 .. Len(Notifications) :
                \E k \in 1 .. Len(batch) : \E m \in 1 .. Len(items[batch[k]]) :
                    i = Offset(k) + m /\ Notifications[i] = Update(batch[k], items[batch[k]][m])
           /\ \A k \in 1 .. Len(batch) : \A m \in 1 .. Len(items[batch[k]]) :
                /\ Offset(k) + m \in 1 .. Len(Notifications)
                /\ Notifications[Offset(k) + m] = Update(batch[k], items[batch[k]][m])
<1> DEFINE q1 == Queued(1)
           q2 == Queued(2)
           q3 == Queued(3)
           r == q1 \o q2
           n == r \o q3
<1>1. q1 \in Seq(Updates) /\ q2 \in Seq(Updates) /\ q3 \in Seq(Updates)
  BY QueuedFacts
<1>2. /\ Len(q1) \in Nat /\ Len(q2) \in Nat /\ Len(q3) \in Nat
  BY <1>1
<1>3. Notifications = n
  BY DEF Notifications
<1>4. /\ Offset(1) = 0 /\ Offset(2) = Len(q1) /\ Offset(3) = Len(q1) + Len(q2)
  BY DEF Offset
<1> HIDE DEF q1, q2, q3
<1>5. /\ r \in Seq(Updates) /\ Len(r) = Len(q1) + Len(q2)
      /\ \A i \in 1 .. Len(q1) : r[i] = q1[i]
      /\ \A i \in 1 .. Len(q2) : r[Len(q1) + i] = q2[i]
  BY <1>1, ConcatFacts
<1> HIDE DEF r
<1>6b. r \in Seq(Updates) /\ q3 \in Seq(Updates)
  BY <1>1, <1>5
<1>6a. /\ n \in Seq(Updates) /\ Len(n) = Len(r) + Len(q3)
       /\ \A i \in 1 .. Len(r) : n[i] = r[i]
       /\ \A i \in 1 .. Len(q3) : n[Len(r) + i] = q3[i]
  BY <1>6b, ConcatFacts
<1> HIDE DEF n
<1>6. /\ n \in Seq(Updates) /\ Len(n) = Len(r) + Len(q3)
      /\ \A i \in 1 .. Len(r) : n[i] = r[i]
      /\ \A i \in 1 .. Len(q3) : n[Len(r) + i] = q3[i]
      /\ DOMAIN n = 1 .. Len(n)
  BY <1>6a
<1>7. /\ Len(n) \in Nat
      /\ \A i \in 1 .. Len(q1) : n[i] = q1[i] /\ i \in 1 .. Len(n)
      /\ \A i \in 1 .. Len(q2) : n[Len(q1) + i] = q2[i] /\ Len(q1) + i \in 1 .. Len(n)
      /\ \A i \in 1 .. Len(q3) : /\ n[Len(q1) + Len(q2) + i] = q3[i]
                                 /\ Len(q1) + Len(q2) + i \in 1 .. Len(n)
  <2>1. \A i \in 1 .. Len(q1) : i \in 1 .. Len(r) /\ i \in 1 .. Len(n)
    BY <1>2, <1>5, <1>6
  <2>2. \A i \in 1 .. Len(q2) : Len(q1) + i \in 1 .. Len(r) /\ Len(q1) + i \in 1 .. Len(n)
    BY <1>2, <1>5, <1>6
  <2>3. \A i \in 1 .. Len(q3) : Len(q1) + Len(q2) + i \in 1 .. Len(n)
    BY <1>2, <1>5, <1>6
  <2> QED BY <2>1, <2>2, <2>3, <1>2, <1>5, <1>6
<1>8. Len(batch) \in 0 .. 3
  BY BatchIsShort
<1>9. ASSUME NEW k \in 1 .. 3
      PROVE  /\ k > Len(batch) => Len(Queued(k)) = 0
             /\ k <= Len(batch) => /\ Len(Queued(k)) = Len(items[batch[k]])
                                   /\ \A i \in 1 .. Len(items[batch[k]]) :
                                        Queued(k)[i] = Update(batch[k], items[batch[k]][i])
  BY QueuedFacts
<1>10. ASSUME NEW k \in 1 .. Len(batch), NEW m \in 1 .. Len(items[batch[k]])
       PROVE  /\ Offset(k) + m \in 1 .. Len(n)
              /\ n[Offset(k) + m] = Update(batch[k], items[batch[k]][m])
  <2>1. k \in 1 .. 3 /\ k <= Len(batch)
    BY <1>8
  <2>2. m \in 1 .. Len(Queued(k)) /\ Queued(k)[m] = Update(batch[k], items[batch[k]][m])
    BY <2>1, <1>9
  <2>3. CASE k = 1
    BY <2>2, <2>3, <1>2, <1>4, <1>7, SMTT(30) DEF q1
  <2>4. CASE k = 2
    BY <2>2, <2>4, <1>2, <1>4, <1>7 DEF q2
  <2>5. CASE k = 3
    BY <2>2, <2>5, <1>2, <1>4, <1>7 DEF q3
  <2> QED BY <2>1, <2>3, <2>4, <2>5
<1>11. ASSUME NEW i \in 1 .. Len(n)
       PROVE  \E k \in 1 .. Len(batch) : \E m \in 1 .. Len(items[batch[k]]) :
                 i = Offset(k) + m /\ n[i] = Update(batch[k], items[batch[k]][m])
  <2>0. /\ Len(Queued(1)) = Len(q1) /\ Len(Queued(2)) = Len(q2) /\ Len(Queued(3)) = Len(q3)
        /\ i \in Int /\ 1 <= i /\ i <= Len(q1) + Len(q2) + Len(q3)
    BY <1>2, <1>5, <1>6 DEF q1, q2, q3
  <2>1. \E k \in 1 .. 3 : \E m \in 1 .. Len(Queued(k)) : i = Offset(k) + m
    <3>1. CASE i <= Len(q1)
      <4>1. i \in 1 .. Len(Queued(1)) /\ i = Offset(1) + i
        BY <3>1, <2>0, <1>2, <1>4
      <4> QED BY <4>1
    <3>2. CASE i > Len(q1) /\ i <= Len(q1) + Len(q2)
      <4>1. i - Len(q1) \in 1 .. Len(Queued(2)) /\ i = Offset(2) + (i - Len(q1))
        BY <3>2, <2>0, <1>2, <1>4
      <4> QED BY <4>1
    <3>3. CASE i > Len(q1) + Len(q2)
      <4>1. /\ i - (Len(q1) + Len(q2)) \in 1 .. Len(Queued(3))
            /\ i = Offset(3) + (i - (Len(q1) + Len(q2)))
        BY <3>3, <2>0, <1>2, <1>4
      <4> QED BY <4>1
    <3> QED BY <3>1, <3>2, <3>3, <1>2, <1>7
  <2>2. PICK k \in 1 .. 3 : \E m \in 1 .. Len(Queued(k)) : i = Offset(k) + m
    BY <2>1
  <2>3. PICK m \in 1 .. Len(Queued(k)) : i = Offset(k) + m
    BY <2>2
  <2>4. k <= Len(batch)
    BY <1>8, <1>9, <2>3
  <2>5. k \in 1 .. Len(batch) /\ m \in 1 .. Len(items[batch[k]])
    BY <1>8, <1>9, <2>3, <2>4
  <2> QED BY <2>3, <2>5, <1>10
<1> QED BY <1>3, <1>6, <1>7, <1>10, <1>11

\* Each tag's values are sent once, in their order, the newest last.
LEMMA NotificationsOf ==
    ASSUME QueuesTypeOK, NEW t \in Tag
    PROVE  /\ Ranks(Notifications, t) = Waiting(t)
           /\ ItemsInOrder(t) => InOrder(Notifications, t)
           /\ items[t] = <<>> => \A j \in DOMAIN Notifications : Notifications[j].tag # t
           /\ items[t] # <<>> =>
                \E i \in DOMAIN Notifications :
                    /\ Notifications[i] = Update(t, items[t][Len(items[t])])
                    /\ \A j \in DOMAIN Notifications : j > i => Notifications[j].tag # t
           /\ \A u \in Updates : u.tag = t =>
                (u \in {Notifications[i] : i \in DOMAIN Notifications}
                   <=> u.value \in {items[t][i] : i \in DOMAIN items[t]})
<1> DEFINE n == Notifications
<1>1. /\ n \in Seq(Updates) /\ Len(n) \in Nat /\ DOMAIN n = 1 .. Len(n)
      /\ \A i \in 1 .. Len(n) :
           \E k \in 1 .. Len(batch) : \E m \in 1 .. Len(items[batch[k]]) :
               i = Offset(k) + m /\ n[i] = Update(batch[k], items[batch[k]][m])
      /\ \A k \in 1 .. Len(batch) : \A m \in 1 .. Len(items[batch[k]]) :
           /\ Offset(k) + m \in 1 .. Len(n)
           /\ n[Offset(k) + m] = Update(batch[k], items[batch[k]][m])
  BY NotificationsAt
<1> HIDE DEF n
<1>2. /\ batch \in Seq(Tag) /\ Len(batch) \in Nat
      /\ \A i, j \in 1 .. Len(batch) : batch[i] = batch[j] => i = j
      /\ items[t] \in Seq(Value(t)) /\ Len(items[t]) \in Nat
      /\ DOMAIN items[t] = 1 .. Len(items[t])
      /\ items[t] # <<>> <=> \E i \in 1 .. Len(batch) : batch[i] = t
  BY DEF QueuesTypeOK
<1>3. \A v, x : Update(x, v).tag = x /\ Update(x, v).value = v
  BY DEF Update
<1>4. CASE items[t] = <<>>
  <2>1. \A k \in 1 .. Len(batch) : batch[k] # t
    BY <1>2, <1>4
  <2>2. ASSUME NEW j \in 1 .. Len(n)
        PROVE  n[j].tag # t
    <3>1. PICK k \in 1 .. Len(batch) : \E m \in 1 .. Len(items[batch[k]]) :
               n[j] = Update(batch[k], items[batch[k]][m])
      BY <1>1
    <3>2. n[j].tag = batch[k]
      BY <3>1, <1>3
    <3> QED BY <3>2, <2>1
  <2>3. Ranks(n, t) = {} /\ Waiting(t) = {}
    BY <2>2, <1>1, <1>4 DEF Ranks, Waiting, ValueRanks
  <2>4. InOrder(n, t)
    BY <2>2, <1>1 DEF InOrder
  <2>5. \A u : u.tag = t => /\ u \notin {n[i] : i \in 1 .. Len(n)}
                            /\ u.value \notin {items[t][i] : i \in DOMAIN items[t]}
    BY <2>2, <1>4
  <2> QED BY <2>2, <2>3, <2>4, <2>5, <1>1, <1>4 DEF n
<1>5. CASE items[t] # <<>>
  <2>1. PICK k \in 1 .. Len(batch) : batch[k] = t
    BY <1>2, <1>5
  <2> DEFINE L == Len(items[t])
  <2>2. L \in Nat /\ L >= 1
    BY <1>2, <1>5
  <2>3. Offset(k) \in Int
    <3>0. Len(batch) \in 0 .. 3
      BY BatchIsShort
    <3>1. k \in 1 .. 3
      BY <3>0, <2>1
    <3>2. 1 \in 1 .. 3 /\ 2 \in 1 .. 3
      OBVIOUS
    <3>3. Len(Queued(1)) \in Nat /\ Len(Queued(2)) \in Nat
      BY <3>2, QueuedFacts
    <3> QED BY <3>1, <3>3 DEF Offset
  <2>4. /\ \A m \in 1 .. L : /\ Offset(k) + m \in 1 .. Len(n)
                             /\ n[Offset(k) + m] = Update(t, items[t][m])
    BY <1>1, <2>1
  <2>5. ASSUME NEW i \in 1 .. Len(n), n[i].tag = t
        PROVE  \E m \in 1 .. L : i = Offset(k) + m
    <3>1. PICK h \in 1 .. Len(batch) : \E m \in 1 .. Len(items[batch[h]]) :
               i = Offset(h) + m /\ n[i] = Update(batch[h], items[batch[h]][m])
      BY <1>1
    <3>2. batch[h] = t
      BY <3>1, <2>5, <1>3
    <3>3. h = k
      BY <3>2, <2>1, <1>2
    <3> QED BY <3>1, <3>2, <3>3
  <2>6. Ranks(n, t) = Waiting(t)
    <3>1. ASSUME NEW x \in Ranks(n, t)
          PROVE  x \in Waiting(t)
      <4>1. PICK i \in 1 .. Len(n) : n[i].tag = t /\ x = Rank(t, n[i].value)
        BY <1>1 DEF Ranks
      <4>2. PICK m \in 1 .. L : i = Offset(k) + m
        BY <4>1, <2>5
      <4>3. x = Rank(t, items[t][m])
        BY <4>1, <4>2, <2>4, <1>3
      <4> QED BY <4>3, <1>2 DEF Waiting, ValueRanks
    <3>2. ASSUME NEW m \in 1 .. L
          PROVE  Rank(t, items[t][m]) \in Ranks(n, t)
      <4>1. /\ Offset(k) + m \in DOMAIN n /\ n[Offset(k) + m].tag = t
            /\ n[Offset(k) + m].value = items[t][m]
        BY <2>4, <1>1, <1>3
      <4> QED BY <4>1 DEF Ranks
    <3> QED BY <3>1, <3>2, <1>2 DEF Waiting, ValueRanks
  <2>7. ASSUME ItemsInOrder(t)
        PROVE  InOrder(n, t)
    <3> SUFFICES ASSUME NEW i \in 1 .. Len(n), NEW j \in 1 .. Len(n),
                        i < j, n[i].tag = t, n[j].tag = t
                 PROVE  Rank(t, n[i].value) < Rank(t, n[j].value)
      BY <1>1 DEF InOrder
    <3>1. PICK m \in 1 .. L : i = Offset(k) + m
      BY <2>5
    <3>2. PICK h \in 1 .. L : j = Offset(k) + h
      BY <2>5
    <3>3. m < h
      BY <3>1, <3>2, <2>2, <2>3
    <3>4. Rank(t, items[t][m]) < Rank(t, items[t][h])
      BY <3>3, <2>7, <1>2 DEF ItemsInOrder, Climbs
    <3>5. n[i].value = items[t][m] /\ n[j].value = items[t][h]
      BY <3>1, <3>2, <2>4, <1>3
    <3> QED BY <3>4, <3>5
  <2>8. \E i \in DOMAIN n : /\ n[i] = Update(t, items[t][L])
                            /\ \A j \in DOMAIN n : j > i => n[j].tag # t
    <3>1. L \in 1 .. L
      BY <2>2
    <3>2. Offset(k) + L \in 1 .. Len(n) /\ n[Offset(k) + L] = Update(t, items[t][L])
      BY <3>1, <2>4
    <3>3. ASSUME NEW j \in 1 .. Len(n), j > Offset(k) + L
          PROVE  n[j].tag # t
      <4>1. SUFFICES ASSUME n[j].tag = t
                     PROVE  FALSE
        OBVIOUS
      <4>2. PICK m \in 1 .. L : j = Offset(k) + m
        BY <4>1, <2>5
      <4> QED BY <4>2, <3>3, <2>2, <2>3
    <3> QED BY <3>2, <3>3, <1>1
  <2>9. ASSUME NEW u \in Updates, u.tag = t
        PROVE  u \in {n[i] : i \in 1 .. Len(n)} <=> u.value \in {items[t][i] : i \in 1 .. L}
    <3>1. u = Update(t, u.value)
      BY <2>9, UpdatesAre
    <3>2. ASSUME NEW m \in 1 .. L, u.value = items[t][m]
          PROVE  u \in {n[i] : i \in 1 .. Len(n)}
      BY <3>1, <3>2, <2>4
    <3>3. ASSUME NEW i \in 1 .. Len(n), u = n[i]
          PROVE  u.value \in {items[t][m] : m \in 1 .. L}
      <4>1. PICK m \in 1 .. L : i = Offset(k) + m
        BY <3>3, <2>9, <2>5
      <4> QED BY <4>1, <3>3, <2>4, <1>3
    <3> QED BY <3>2, <3>3
  <2> QED BY <2>6, <2>7, <2>8, <2>9, <1>1, <1>2, <1>5 DEF n
<1> QED BY <1>4, <1>5

-----------------------------------------------------------------------------
(* Ranks *)

LEMMA ReadingFacts ==
    /\ 0 \in Errors /\ Errors \subseteq 0 .. MaxSamples
    /\ BoreValue \subseteq Reading
    /\ \A v \in BoreValue : v.part \in Int /\ v.part \in -1 .. MaxSamples /\ v.error \in Errors
    /\ \A n \in -1 .. MaxSamples, e \in Errors : BoreReading(n, e) \in BoreValue
    /\ Nominal \in BoreValue /\ Nominal.part = -1
    /\ \A n, e : BoreReading(n, e).part = n /\ BoreReading(n, e).error = e
<1>1. MaxSamples \in Nat
  BY SamplesAssumption
<1>2. 0 \in Errors /\ Errors \subseteq 0 .. MaxSamples
  BY <1>1 DEF Errors
<1>3. BoreValue \subseteq Reading
  BY <1>2, ReadingAssumption DEF BoreValue
<1>4. \A v \in BoreValue : v.part \in -1 .. MaxSamples /\ v.error \in Errors
  BY DEF BoreValue
<1>5. \A n \in -1 .. MaxSamples : n \in Int
  BY <1>1
<1>6. \A n, e : BoreReading(n, e).part = n /\ BoreReading(n, e).error = e
  BY DEF BoreReading
<1>7. \A n \in -1 .. MaxSamples, e \in Errors : BoreReading(n, e) \in BoreValue
  BY DEF BoreReading, BoreValue
<1>8. -1 \in -1 .. MaxSamples
  BY <1>1
<1> QED BY <1>2, <1>3, <1>4, <1>5, <1>6, <1>7, <1>8 DEF Nominal

LEMMA RankType ==
    ASSUME NEW t \in Tag, NEW v \in Value(t)
    PROVE  Rank(t, v) \in Int
BY UpdateFacts

LEMMA RankSets ==
    ASSUME QueuesTypeOK, partCount \in Int, NEW t \in Tag
    PROVE  /\ Done(t) \subseteq Int /\ Buffered(t) \subseteq Int
           /\ Sent(t) \subseteq Int /\ Waiting(t) \subseteq Int
<1>1. Buffered(t) \subseteq Int /\ Sent(t) \subseteq Int
  BY RanksType DEF QueuesTypeOK, Buffered, Sent
<1>2. Waiting(t) \subseteq Int
  <2>1. items[t] \in Seq(Value(t))
    BY DEF QueuesTypeOK
  <2>2. \A i \in DOMAIN items[t] : items[t][i] \in Value(t)
    BY <2>1
  <2> QED BY <2>2, RankType DEF Waiting, ValueRanks
<1>3. Numbers(Handled) \subseteq Int
  BY ReadingFacts DEF QueuesTypeOK, Numbers, Handled
<1>4. Done(t) \subseteq Int
  BY <1>3, TagFacts DEF Done
<1> QED BY <1>1, <1>2, <1>4

LEMMA ValueAppend ==
    ASSUME NEW t \in Tag, NEW s \in Seq(Value(t)), NEW v \in Value(t)
    PROVE  /\ Append(s, v) \in Seq(Value(t))
           /\ ValueRanks(t, Append(s, v)) = ValueRanks(t, s) \cup {Rank(t, v)}
           /\ Climbs(t, s) /\ (\A x \in ValueRanks(t, s) : x < Rank(t, v))
                => Climbs(t, Append(s, v))
<1> DEFINE r == Append(s, v)
<1>1. /\ r \in Seq(Value(t)) /\ Len(s) \in Nat /\ DOMAIN s = 1 .. Len(s)
      /\ DOMAIN r = 1 .. Len(s) + 1 /\ r[Len(s) + 1] = v
      /\ \A i \in 1 .. Len(s) : r[i] = s[i]
  OBVIOUS
<1> HIDE DEF r
<1>2. \A i \in 1 .. Len(s) + 1 : i \in 1 .. Len(s) \/ i = Len(s) + 1
  BY <1>1
<1>3. ValueRanks(t, r) = ValueRanks(t, s) \cup {Rank(t, v)}
  BY <1>1, <1>2 DEF ValueRanks
<1>4. ASSUME Climbs(t, s), \A x \in ValueRanks(t, s) : x < Rank(t, v)
      PROVE  Climbs(t, r)
  <2> SUFFICES ASSUME NEW i \in 1 .. Len(s) + 1, NEW j \in 1 .. Len(s) + 1, i < j
               PROVE  Rank(t, r[i]) < Rank(t, r[j])
    BY <1>1 DEF Climbs
  <2>1. i \in 1 .. Len(s) /\ r[i] = s[i]
    BY <1>1
  <2>2. CASE j = Len(s) + 1
    <3>1. Rank(t, s[i]) \in ValueRanks(t, s)
      BY <2>1, <1>1 DEF ValueRanks
    <3> QED BY <3>1, <2>1, <2>2, <1>1, <1>4
  <2>3. CASE j \in 1 .. Len(s)
    BY <2>1, <2>3, <1>1, <1>4 DEF Climbs
  <2> QED BY <2>2, <2>3, <1>2
<1> QED BY <1>1, <1>3, <1>4 DEF r

LEMMA ValueTail ==
    ASSUME NEW t \in Tag, NEW s \in Seq(Value(t)), s # <<>>
    PROVE  /\ ValueRanks(t, s) = ValueRanks(t, Tail(s)) \cup {Rank(t, Head(s))}
           /\ Climbs(t, s) => /\ Climbs(t, Tail(s))
                              /\ \A y \in ValueRanks(t, Tail(s)) : Rank(t, Head(s)) < y
<1> DEFINE r == Tail(s)
<1>1. /\ Head(s) = s[1] /\ Len(s) \in Nat /\ DOMAIN s = 1 .. Len(s) /\ 1 \in 1 .. Len(s)
      /\ DOMAIN r = 1 .. Len(s) - 1
      /\ \A i \in 1 .. Len(s) - 1 : r[i] = s[i + 1] /\ i + 1 \in 1 .. Len(s) /\ 1 < i + 1
  BY TailFacts
<1> HIDE DEF r
<1>2. \A i \in 1 .. Len(s) : i = 1 \/ (i - 1 \in 1 .. Len(s) - 1 /\ i = (i - 1) + 1)
  BY <1>1
<1>3. \A i \in 1 .. Len(s) : i = 1 \/ (i - 1 \in 1 .. Len(s) - 1 /\ r[i - 1] = s[i])
  BY <1>1, <1>2
<1>4. ValueRanks(t, s) = ValueRanks(t, r) \cup {Rank(t, Head(s))}
  <2>1. ValueRanks(t, r) \subseteq ValueRanks(t, s) /\ Rank(t, Head(s)) \in ValueRanks(t, s)
    BY <1>1 DEF ValueRanks
  <2>2. ASSUME NEW i \in 1 .. Len(s)
        PROVE  Rank(t, s[i]) \in ValueRanks(t, r) \cup {Rank(t, Head(s))}
    BY <1>1, <1>3 DEF ValueRanks
  <2> QED BY <2>1, <2>2, <1>1 DEF ValueRanks
<1>5. ASSUME Climbs(t, s)
      PROVE  Climbs(t, r) /\ \A y \in ValueRanks(t, r) : Rank(t, Head(s)) < y
  <2>1. ASSUME NEW i \in 1 .. Len(s) - 1, NEW j \in 1 .. Len(s) - 1, i < j
        PROVE  Rank(t, r[i]) < Rank(t, r[j])
    <3>1. i + 1 < j + 1 /\ i + 1 \in 1 .. Len(s) /\ j + 1 \in 1 .. Len(s)
      BY <2>1, <1>1
    <3> QED BY <3>1, <1>1, <1>5 DEF Climbs
  <2>2. ASSUME NEW i \in 1 .. Len(s) - 1
        PROVE  Rank(t, Head(s)) < Rank(t, r[i])
    BY <1>1, <1>5 DEF Climbs
  <2> QED BY <2>1, <2>2, <1>1 DEF Climbs, ValueRanks
<1> QED BY <1>4, <1>5 DEF r

-----------------------------------------------------------------------------
(* The initial states *)

LEMMA InitFlowInv == PipelineInit => FlowInv
<1> SUFFICES ASSUME PipelineInit
             PROVE  FlowInv
  OBVIOUS
<1>1. /\ CollectorInit /\ made = 0 /\ samples = 0 /\ sample = node /\ writing = <<>>
      /\ node = [BoreDiameter |-> Nominal, Torque |-> 0, PartCount |-> 0]
      /\ subscribed = FALSE /\ batch = <<>> /\ items = [t \in Tag |-> <<>>] /\ wire = <<>>
      /\ client = [queue |-> <<>>, latest |-> [t \in {} |-> 0], dropped |-> {}]
      /\ opened = Nominal /\ dropped = {} /\ skipped = {}
  BY DEF PipelineInit
<1>2. parts = <<>> /\ charted = 0 /\ partCount = NoCount /\ snapshotSkipped = FALSE
  BY <1>1 DEF CollectorInit
<1>3. /\ client.queue = <<>> /\ client.latest = [t \in {} |-> 0] /\ client.dropped = {}
      /\ DOMAIN client.latest = {}
  BY <1>1
<1>4. /\ DOMAIN node = Tag /\ node["BoreDiameter"] = Nominal /\ node["Torque"] = 0
      /\ node["PartCount"] = 0
  BY <1>1, ThreeValues
<1>5. MaxSamples \in Nat /\ QueueSize \in Nat /\ MaxQueue \in Nat
  BY SamplesAssumption, QueueSizeAssumption, MaxQueueAssumption
<1>6. Tagged(node)
  <2>1. node = [t \in Tag |-> node[t]]
    BY <1>1, TagFacts
  <2>2. \A t \in Tag : node[t] \in Value(t)
    BY <1>4, <1>5, TagFacts, ReadingFacts DEF Value
  <2> QED BY <2>1, <2>2 DEF Tagged
<1>7. MachineTypeOK
  BY <1>1, <1>4, <1>5, <1>6 DEF MachineTypeOK
<1>8. Recorded = {}
  BY <1>2 DEF Recorded
<1>9. QueuesTypeOK
  <2>1. /\ batch \in Seq(Tag) /\ Len(batch) = 0 /\ wire \in Seq(Updates)
        /\ client.queue \in Seq(Updates) /\ Len(client.queue) = 0
    BY <1>1, <1>3
  <2>2. /\ DOMAIN items = Tag
        /\ \A t \in Tag : items[t] = <<>> /\ items[t] \in Seq(Value(t)) /\ Len(items[t]) = 0
    BY <1>1
  <2>3. client = [queue |-> client.queue, latest |-> client.latest, dropped |-> client.dropped]
    BY <1>1
  <2>4. client.latest = [t \in DOMAIN client.latest |-> client.latest[t]]
    BY <1>3
  <2>5. /\ \A i, j \in 1 .. Len(batch) : batch[i] = batch[j] => i = j
        /\ \A t \in Tag : items[t] # <<>> <=> \E i \in 1 .. Len(batch) : batch[i] = t
    BY <2>1, <2>2
  <2>6. /\ \A t \in Tag : Len(items[t]) <= QueueSize
        /\ Len(client.queue) <= MaxQueue
    BY <2>1, <2>2, <1>5
  <2>7. /\ opened \in BoreValue /\ dropped \subseteq BoreValue /\ skipped \subseteq BoreValue
        /\ Recorded \subseteq BoreValue /\ client.dropped \subseteq Updates
        /\ DOMAIN client.latest \subseteq Tag
        /\ \A t \in DOMAIN client.latest : client.latest[t] \in Value(t)
        /\ subscribed \in BOOLEAN
    BY <1>1, <1>3, <1>8, ReadingFacts
  <2> QED BY <2>1, <2>2, <2>3, <2>4, <2>5, <2>6, <2>7 DEF QueuesTypeOK
<1>10. Unopened
  BY <1>1, <1>2, <1>3 DEF Unopened
<1>11. SourceInOrder /\ PublishedInTurn
  BY <1>1, <1>4, ReadingFacts DEF SourceInOrder, PublishedInTurn, NewestPart
<1>12. ASSUME NEW t \in Tag
       PROVE  /\ Buffered(t) = {} /\ Sent(t) = {} /\ Waiting(t) = {}
              /\ ItemsInOrder(t) /\ InOrder(wire, t) /\ InOrder(client.queue, t)
  BY <1>1, <1>3 DEF Buffered, Sent, Waiting, Ranks, ValueRanks, ItemsInOrder, Climbs, InOrder
<1>13. Numbers(Handled) = {} /\ Done("BoreDiameter") = {} /\ Numbers(Dropped) = {}
  BY <1>1, <1>3, <1>8 DEF Handled, Numbers, Done, Dropped
<1>14. FlowInOrder
  <2>1. ASSUME NEW t \in Tag
        PROVE  Chain(Done(t), {}, {}, {}, Rank(t, node[t]))
    <3>1. CASE t = "PartCount"
      <4>1. Done(t) = {-1} /\ Rank(t, node[t]) = 0
        BY <3>1, <1>2, <1>4 DEF Done, NoCount, Rank
      <4> QED BY <4>1 DEF Chain, Precede
    <3>2. CASE t # "PartCount"
      <4>1. Done(t) = {}
        BY <3>2, <1>13, TagFacts DEF Done
      <4> QED BY <4>1 DEF Chain, Precede
    <3> QED BY <3>1, <3>2
  <2>2. RecordedInOrder
    BY <1>2 DEF RecordedInOrder
  <2> QED BY <2>1, <2>2, <1>12 DEF FlowInOrder, Ordered
<1>15. NewestIsKept /\ LatestIsLast /\ CountIsKept
  BY <1>1, <1>3 DEF NewestIsKept, LatestIsLast, CountIsKept
<1>16. PartsTraced
  BY <1>1, <1>8, <1>13 DEF PartsTraced, Numbers
<1>17. HandledAreDistinct
  BY <1>1, <1>2, <1>8 DEF HandledAreDistinct
<1> QED BY <1>1, <1>7, <1>9, <1>10, <1>11, <1>14, <1>15, <1>16, <1>17, InitCollectorIInv
        DEF FlowInv, QueuesInv

-----------------------------------------------------------------------------
(* The machine makes a sample *)

LEMMA QueuesFrame ==
    ASSUME QueuesInv, UNCHANGED <<collectorVars, node, subscriptionVars, wire, client, skipped>>
    PROVE  QueuesInv'
<1>1. /\ parts' = parts /\ partCount' = partCount /\ charted' = charted
      /\ snapshotSkipped' = snapshotSkipped
      /\ node' = node /\ subscribed' = subscribed /\ batch' = batch /\ items' = items
      /\ opened' = opened /\ dropped' = dropped /\ wire' = wire /\ client' = client
      /\ skipped' = skipped /\ UNCHANGED collectorVars
  BY DEF collectorVars, subscriptionVars
<1>2. /\ Recorded' = Recorded /\ Handled' = Handled /\ Dropped' = Dropped
      /\ NewestPart' = NewestPart
  BY <1>1 DEF Recorded, Handled, Dropped, NewestPart
<1>3. \A t : /\ Done(t)' = Done(t) /\ Buffered(t)' = Buffered(t)
             /\ Sent(t)' = Sent(t) /\ Waiting(t)' = Waiting(t)
             /\ ItemsInOrder(t)' = ItemsInOrder(t) /\ LastSent(t)' = LastSent(t)
  BY <1>1, <1>2 DEF Done, Buffered, Sent, Waiting, ItemsInOrder, LastSent
<1>4. Places' = Places
  BY <1>3 DEF Places
<1>5. CollectorIInv'
  BY <1>1, StutterIInv DEF QueuesInv
<1>6. QueuesTypeOK'
  BY <1>1, <1>2 DEF QueuesInv, QueuesTypeOK
<1>7. Unopened'
  BY <1>1 DEF QueuesInv, Unopened
<1>8. FlowInOrder'
  BY <1>1, <1>3 DEF QueuesInv, FlowInOrder, RecordedInOrder
<1>9. NewestIsKept' /\ LatestIsLast' /\ CountIsKept'
  BY <1>1, <1>3 DEF QueuesInv, NewestIsKept, LatestIsLast, CountIsKept
<1>10. PartsTraced'
  BY <1>1, <1>2, <1>4 DEF QueuesInv, PartsTraced
<1>11. HandledAreDistinct'
  BY <1>1, <1>2, <1>4 DEF QueuesInv, HandledAreDistinct
<1> QED BY <1>5, <1>6, <1>7, <1>8, <1>9, <1>10, <1>11 DEF QueuesInv


LEMMA StutterFlowInv ==
    ASSUME FlowInv, UNCHANGED vars
    PROVE  FlowInv'
<1>1. /\ UNCHANGED <<collectorVars, node, subscriptionVars, wire, client, skipped>>
      /\ made' = made /\ samples' = samples /\ sample' = sample /\ writing' = writing
      /\ node' = node
  BY DEF vars, serverVars
<1>2. QueuesInv'
  BY <1>1, QueuesFrame DEF FlowInv
<1>3. MachineTypeOK' /\ SourceInOrder' /\ PublishedInTurn'
  BY <1>1 DEF FlowInv, MachineTypeOK, SourceInOrder, PublishedInTurn, Unwritten, NewestPart
<1> QED BY <1>2, <1>3 DEF FlowInv

\* The reading of the part made last, or the one published before.
LEMMA PublishedFacts ==
    ASSUME MachineTypeOK, SourceInOrder, NEW effect \in Effects, NEW completed \in BOOLEAN,
           Step(effect, completed)
    PROVE  /\ made' \in Nat /\ made' <= samples' /\ samples' \in 0 .. MaxSamples
           /\ made <= made' /\ made' <= made + 1 /\ samples' = samples + 1
           /\ samples = 0 => made' = 0
           /\ sample'["BoreDiameter"] \in BoreValue
           /\ sample'["BoreDiameter"].part <= made'
           /\ effect = "none" => sample'["BoreDiameter"] = BoreReading(made', 0)
           /\ effect = "stuck" => sample'["BoreDiameter"] = IF samples = 0 THEN BoreReading(made', 0)
                                                            ELSE sample["BoreDiameter"]
           /\ sample'["Torque"] = samples' /\ sample'["PartCount"] = made'
           /\ Tagged(sample)'
<1>1. /\ samples < MaxSamples /\ (completed => samples > 0)
      /\ made' = (IF completed THEN made + 1 ELSE made) /\ samples' = samples + 1
      /\ sample' = [BoreDiameter |-> Published(effect, made'), Torque |-> samples + 1,
                    PartCount |-> made']
  BY DEF Step
<1>2. /\ made \in Nat /\ samples \in Nat /\ made <= samples /\ MaxSamples \in Nat
      /\ sample["BoreDiameter"] \in BoreValue /\ sample["BoreDiameter"].part <= made
  BY SamplesAssumption, TagFacts DEF MachineTypeOK, SourceInOrder, Tagged, Value
<1>3. /\ made' \in Nat /\ made' <= samples' /\ samples' \in 0 .. MaxSamples
      /\ made <= made' /\ made' <= made + 1 /\ (samples = 0 => made' = 0)
  BY <1>1, <1>2
<1>4. /\ DOMAIN sample' = Tag /\ sample'["BoreDiameter"] = Published(effect, made')
      /\ sample'["Torque"] = samples' /\ sample'["PartCount"] = made'
  BY <1>1, ThreeValues
<1>5. effect \in {"none", "varying", "stuck"}
  BY EffectsAssumption
<1>6. /\ effect = "none" => Published(effect, made') = BoreReading(made', 0)
      /\ effect = "varying" => Published(effect, made') = BoreReading(made', samples + 1)
      /\ effect = "stuck" => Published(effect, made') =
                               IF samples = 0 THEN BoreReading(made', 0) ELSE sample.BoreDiameter
  BY DEF Published
<1>7. made' \in -1 .. MaxSamples
  BY <1>2, <1>3
<1>8. effect = "varying" => samples + 1 \in Errors
  BY <1>1, <1>2 DEF Errors
<1>9. Published(effect, made') \in BoreValue /\ Published(effect, made').part <= made'
  <2>1. CASE effect = "none"
    BY <2>1, <1>3, <1>6, <1>7, ReadingFacts
  <2>2. CASE effect = "varying"
    <3>1. Published(effect, made') = BoreReading(made', samples + 1)
      BY <2>2, <1>6
    <3>2. BoreReading(made', samples + 1) \in BoreValue
      BY <2>2, <1>7, <1>8, ReadingFacts
    <3>3. BoreReading(made', samples + 1).part = made'
      BY ReadingFacts
    <3> QED BY <3>1, <3>2, <3>3, <1>3
  <2>3. CASE effect = "stuck"
    <3>1. CASE samples = 0
      BY <3>1, <2>3, <1>3, <1>6, <1>7, ReadingFacts
    <3>2. CASE samples # 0
      <4>1. Published(effect, made') = sample["BoreDiameter"]
        BY <3>2, <2>3, <1>6
      <4>2. sample["BoreDiameter"].part \in Int
        BY <1>2, ReadingFacts
      <4> QED BY <4>1, <4>2, <1>2, <1>3
    <3> QED BY <3>1, <3>2
  <2> QED BY <2>1, <2>2, <2>3, <1>5
<1>10. Tagged(sample)'
  <2>1. sample' = [t \in Tag |-> sample'[t]]
    BY <1>1, <1>4
  <2>2. made' \in 0 .. MaxSamples
    BY <1>2, <1>3
  <2>3. \A t \in Tag : sample'[t] \in Value(t)
    BY <2>2, <1>3, <1>4, <1>9, TagFacts DEF Value
  <2> QED BY <2>1, <2>3 DEF Tagged
<1> QED BY <1>1, <1>3, <1>4, <1>6, <1>9, <1>10

LEMMA StepFlowInv ==
    ASSUME FlowInv, NEW effect \in Effects, NEW completed \in BOOLEAN, Step(effect, completed)
    PROVE  FlowInv'
<1>1. /\ writing = <<>> /\ writing' = Tags /\ node' = node
      /\ UNCHANGED <<collectorVars, node, subscriptionVars, wire, client, skipped>>
  BY DEF Step
<1>2. QueuesInv'
  BY <1>1, QueuesFrame DEF FlowInv
<1>3. MachineTypeOK /\ SourceInOrder /\ PublishedInTurn
  BY DEF FlowInv
<1>4. /\ made' \in Nat /\ made' <= samples' /\ samples' \in 0 .. MaxSamples
      /\ made <= made' /\ made' <= made + 1 /\ samples' = samples + 1
      /\ samples = 0 => made' = 0
      /\ sample'["BoreDiameter"] \in BoreValue
      /\ sample'["BoreDiameter"].part <= made'
      /\ effect = "none" => sample'["BoreDiameter"] = BoreReading(made', 0)
      /\ effect = "stuck" => sample'["BoreDiameter"] = IF samples = 0 THEN BoreReading(made', 0)
                                                       ELSE sample["BoreDiameter"]
      /\ sample'["Torque"] = samples' /\ sample'["PartCount"] = made'
      /\ Tagged(sample)'
  BY <1>3, PublishedFacts
<1>5. /\ \A t \in Tag : node[t] = sample[t]
  BY <1>1, <1>3 DEF SourceInOrder, Unwritten
<1>6. /\ made \in Nat /\ samples \in Nat /\ Tagged(node) /\ Tagged(sample)
      /\ sample["PartCount"] = made /\ sample["Torque"] = samples
  BY <1>3 DEF MachineTypeOK
<1>7. Tagged(node)'
  BY <1>1, <1>6 DEF Tagged
<1>8. MachineTypeOK'
  BY <1>1, <1>4, <1>7, TagFacts DEF MachineTypeOK
<1>9. SourceInOrder'
  <2>1. ASSUME NEW t \in Tag
        PROVE  Unwritten(t)'
    BY <1>1 DEF Unwritten, Tag
  <2>2. ASSUME NEW t \in Ordered
        PROVE  node[t] = sample'[t] \/ Rank(t, node[t]) < Rank(t, sample'[t])
    <3>1. CASE t = "BoreDiameter"
      <4>1. effect \in {"none", "stuck"}
        BY <3>1, EffectsAssumption DEF Ordered
      <4>2. /\ node[t] \in BoreValue /\ node[t] = sample["BoreDiameter"]
            /\ node[t].part \in Int /\ node[t].error = 0
            /\ node[t] = [part |-> node[t].part, error |-> node[t].error]
            /\ sample["BoreDiameter"].part <= made
        BY <3>1, <1>3, <1>5, <1>6, TagFacts, ReadingFacts
           DEF Ordered, Tagged, Value, Errors, BoreValue, SourceInOrder
      <4>3. CASE sample'["BoreDiameter"] = BoreReading(made', 0)
        <5>1. CASE node[t].part = made'
          BY <5>1, <4>2, <4>3, <3>1 DEF BoreReading
        <5>2. CASE node[t].part < made'
          BY <5>2, <4>3, <3>1, ReadingFacts DEF Rank
        <5> QED BY <5>1, <5>2, <4>2, <1>4, <1>6
      <4>4. CASE sample'["BoreDiameter"] = sample["BoreDiameter"]
        BY <4>2, <4>4, <3>1
      <4> QED BY <4>1, <4>3, <4>4, <1>4
    <3>2. CASE t = "PartCount"
      BY <3>2, <1>4, <1>5, <1>6, TagFacts DEF Rank
    <3>3. CASE t = "Torque"
      BY <3>3, <1>4, <1>5, <1>6, TagFacts DEF Rank
    <3> QED BY <3>1, <3>2, <3>3, TagFacts DEF Ordered
  <2> QED BY <2>1, <2>2, <1>1, <1>4 DEF SourceInOrder, Ordered
<1>10. PublishedInTurn'
  <2> SUFFICES ASSUME Exact
               PROVE  /\ sample'["BoreDiameter"].part = made'
                      /\ sample'["BoreDiameter"].part <= NewestPart' + 1
    BY <1>4, <1>6 DEF PublishedInTurn
  <2>1. sample'["BoreDiameter"].part = made'
    BY <1>4, ReadingFacts DEF Exact
  <2>2. NewestPart' = sample["BoreDiameter"].part
    BY <1>1, <1>5, TagFacts DEF NewestPart
  <2>3. CASE samples = 0
    BY <2>1, <2>2, <2>3, <1>3, <1>4 DEF PublishedInTurn
  <2>4. CASE samples > 0
    BY <2>1, <2>2, <2>4, <1>3, <1>4, <1>6 DEF PublishedInTurn
  <2> QED BY <2>1, <2>3, <2>4, <1>6
<1> QED BY <1>2, <1>8, <1>9, <1>10 DEF FlowInv

-----------------------------------------------------------------------------
(* The server writes a tag *)

\* The values kept when a new one arrives.
Kept(t) == IF Len(items[t]) >= QueueSize THEN Tail(items[t]) ELSE items[t]

\* What a notification does to the queue of its tag.
LEMMA TriggerQueue ==
    ASSUME QueuesTypeOK, NEW t \in Tag, NEW v \in Value(t), Trigger(t, v)
    PROVE  /\ DOMAIN items' = Tag
           /\ \A x \in Tag : x # t => items'[x] = items[x]
           /\ items'[t] = Append(Kept(t), v)
           /\ items'[t] \in Seq(Value(t)) /\ Len(items'[t]) <= QueueSize
           /\ items'[t] # <<>> /\ items'[t][Len(items'[t])] = v
           /\ Kept(t) \in Seq(Value(t))
           /\ ValueRanks(t, items'[t]) = ValueRanks(t, Kept(t)) \cup {Rank(t, v)}
           /\ Waiting(t)' = ValueRanks(t, items'[t])
<1>1. /\ DOMAIN items = Tag /\ items[t] \in Seq(Value(t)) /\ Len(items[t]) <= QueueSize
      /\ Len(items[t]) \in Nat /\ QueueSize \in Nat /\ QueueSize > 0
  BY QueueSizeAssumption DEF QueuesTypeOK
<1>2. items' = [items EXCEPT ![t] = Append(Kept(t), v)]
  BY DEF Trigger, Kept
<1>3. /\ DOMAIN items' = Tag /\ items'[t] = Append(Kept(t), v)
      /\ \A x \in Tag : x # t => items'[x] = items[x]
  BY <1>1, <1>2
<1>4. Kept(t) \in Seq(Value(t)) /\ Len(Kept(t)) \in Nat /\ Len(Kept(t)) < QueueSize
  <2>1. CASE Len(items[t]) >= QueueSize
    <3>1. items[t] # <<>>
      BY <2>1, <1>1
    <3>2. Tail(items[t]) \in Seq(Value(t)) /\ Len(Tail(items[t])) = Len(items[t]) - 1
      BY <3>1, <1>1, TailFacts
    <3> QED BY <3>2, <2>1, <1>1 DEF Kept
  <2>2. CASE ~ (Len(items[t]) >= QueueSize)
    BY <2>2, <1>1 DEF Kept
  <2> QED BY <2>1, <2>2
<1>5. /\ items'[t] \in Seq(Value(t)) /\ Len(items'[t]) = Len(Kept(t)) + 1
      /\ items'[t][Len(Kept(t)) + 1] = v
  BY <1>3, <1>4, AppendFacts
<1>6. Len(items'[t]) <= QueueSize /\ items'[t] # <<>> /\ items'[t][Len(items'[t])] = v
  BY <1>1, <1>4, <1>5
<1>7. ValueRanks(t, items'[t]) = ValueRanks(t, Kept(t)) \cup {Rank(t, v)}
  BY <1>3, <1>4, ValueAppend
<1> QED BY <1>3, <1>4, <1>5, <1>6, <1>7 DEF Waiting

\* The oldest value may go; the values kept stay in order.
LEMMA TriggerKeeps ==
    ASSUME QueuesTypeOK, NEW t \in Tag, NEW v \in Value(t), Trigger(t, v)
    PROVE  /\ ValueRanks(t, Kept(t)) \subseteq Waiting(t)
           /\ ItemsInOrder(t) => Climbs(t, Kept(t))
           /\ dropped' \subseteq BoreValue
           /\ \/ dropped' = dropped /\ (t = "BoreDiameter" => ValueRanks(t, Kept(t)) = Waiting(t))
              \/ /\ t = "BoreDiameter"
                 /\ \E v0 \in BoreValue :
                      /\ dropped' = dropped \cup {v0}
                      /\ Waiting(t) = ValueRanks(t, Kept(t)) \cup {v0.part}
                      /\ ItemsInOrder(t) => \A y \in ValueRanks(t, Kept(t)) : v0.part < y
<1>1. /\ items[t] \in Seq(Value(t)) /\ Len(items[t]) \in Nat
      /\ QueueSize \in Nat /\ QueueSize > 0 /\ dropped \subseteq BoreValue
  BY QueueSizeAssumption DEF QueuesTypeOK
<1>2. dropped' = IF Len(items[t]) >= QueueSize /\ t = "BoreDiameter"
                 THEN dropped \cup {Head(items[t])} ELSE dropped
  BY DEF Trigger
<1>3. CASE ~ (Len(items[t]) >= QueueSize)
  BY <1>1, <1>2, <1>3 DEF Kept, Waiting, ItemsInOrder
<1>4. CASE Len(items[t]) >= QueueSize
  <2>1. items[t] # <<>> /\ Kept(t) = Tail(items[t])
    BY <1>1, <1>4 DEF Kept
  <2>2. /\ Waiting(t) = ValueRanks(t, Kept(t)) \cup {Rank(t, Head(items[t]))}
        /\ ItemsInOrder(t) => /\ Climbs(t, Kept(t))
                              /\ \A y \in ValueRanks(t, Kept(t)) : Rank(t, Head(items[t])) < y
    BY <2>1, <1>1, ValueTail DEF Waiting, ItemsInOrder
  <2>3. Head(items[t]) \in Value(t)
    BY <2>1, <1>1, TailFacts
  <2>4. CASE t = "BoreDiameter"
    <3>1. Head(items[t]) \in BoreValue /\ Rank(t, Head(items[t])) = Head(items[t]).part
      BY <2>3, <2>4 DEF Value, Rank
    <3>2. dropped' = dropped \cup {Head(items[t])}
      BY <2>4, <1>2, <1>4
    <3> QED BY <3>1, <3>2, <2>2, <2>4, <1>1
  <2>5. CASE t # "BoreDiameter"
    BY <2>2, <2>5, <1>1, <1>2
  <2> QED BY <2>4, <2>5
<1> QED BY <1>3, <1>4

\* The batch still holds each tag with values once.
LEMMA TriggerBatch ==
    ASSUME QueuesTypeOK, NEW t \in Tag, NEW v \in Value(t), Trigger(t, v)
    PROVE  /\ batch' \in Seq(Tag)
           /\ \A i, j \in 1 .. Len(batch') : batch'[i] = batch'[j] => i = j
           /\ \A x \in Tag : items'[x] # <<>> <=> \E i \in 1 .. Len(batch') : batch'[i] = x
<1>1. /\ batch \in Seq(Tag) /\ Len(batch) \in Nat
      /\ \A i, j \in 1 .. Len(batch) : batch[i] = batch[j] => i = j
      /\ \A x \in Tag : items[x] # <<>> <=> \E i \in 1 .. Len(batch) : batch[i] = x
  BY DEF QueuesTypeOK
<1>2. items'[t] # <<>> /\ \A x \in Tag : x # t => items'[x] = items[x]
  BY TriggerQueue
<1>3. batch' = IF items[t] = <<>> THEN Append(batch, t) ELSE batch
  BY DEF Trigger
<1>4. CASE items[t] # <<>>
  BY <1>1, <1>2, <1>3, <1>4
<1>5. CASE items[t] = <<>>
  <2>1. /\ batch' \in Seq(Tag) /\ Len(batch') = Len(batch) + 1
        /\ \A i \in 1 .. Len(batch) : batch'[i] = batch[i]
        /\ batch'[Len(batch) + 1] = t
    BY <1>1, <1>3, <1>5, AppendFacts
  <2>2. \A i \in 1 .. Len(batch) : batch[i] # t
    BY <1>1, <1>5
  <2>3. \A i \in 1 .. Len(batch') : i \in 1 .. Len(batch) \/ i = Len(batch) + 1
    BY <2>1, <1>1
  <2>4. /\ \A i \in 1 .. Len(batch) : i \in 1 .. Len(batch')
        /\ Len(batch) + 1 \in 1 .. Len(batch')
    BY <2>1, <1>1
  <2>5. ASSUME NEW i \in 1 .. Len(batch'), NEW j \in 1 .. Len(batch'), batch'[i] = batch'[j]
        PROVE  i = j
    BY <2>5, <2>1, <2>2, <2>3, <1>1
  <2>6. ASSUME NEW x \in Tag
        PROVE  items'[x] # <<>> <=> \E i \in 1 .. Len(batch') : batch'[i] = x
    <3>1. CASE x = t
      BY <3>1, <2>1, <2>4, <1>2
    <3>2. CASE x # t
      <4>1. items'[x] # <<>> <=> \E i \in 1 .. Len(batch) : batch[i] = x
        BY <3>2, <1>1, <1>2
      <4>2. (\E i \in 1 .. Len(batch) : batch[i] = x) <=> \E i \in 1 .. Len(batch') : batch'[i] = x
        BY <3>2, <2>1, <2>3, <2>4
      <4> QED BY <4>1, <4>2
    <3> QED BY <3>1, <3>2
  <2> QED BY <2>1, <2>5, <2>6
<1> QED BY <1>4, <1>5

\* What is written comes after what the node held, and nothing else changes.
LEMMA WriteTagMachine ==
    ASSUME FlowInv, WriteTag, NEW t, t = Head(writing)
    PROVE  /\ t \in Tag /\ node[t] \in Value(t) /\ sample[t] \in Value(t)
           /\ DOMAIN node' = Tag /\ node'[t] = sample[t]
           /\ \A x \in Tag : x # t => node'[x] = node[x]
           /\ t \in Ordered => node[t] = sample[t] \/ Rank(t, node[t]) < Rank(t, sample[t])
           /\ NewestPart' = IF t = "BoreDiameter" THEN sample["BoreDiameter"].part ELSE NewestPart
           /\ MachineTypeOK' /\ SourceInOrder' /\ PublishedInTurn'
<1>1. /\ writing # <<>> /\ writing' = Tail(writing) /\ node' = [node EXCEPT ![t] = sample[t]]
      /\ made' = made /\ samples' = samples /\ sample' = sample
  BY DEF WriteTag
<1>2. MachineTypeOK /\ SourceInOrder /\ PublishedInTurn
  BY DEF FlowInv
<1>3. /\ writing \in Seq(Tag) /\ Tagged(node) /\ Tagged(sample)
      /\ made \in Nat /\ samples \in Nat /\ samples <= MaxSamples /\ made <= samples
      /\ sample["PartCount"] = made /\ sample["Torque"] = samples
  BY <1>2 DEF MachineTypeOK
<1>4. /\ t \in Tag /\ t = writing[1] /\ DOMAIN writing = 1 .. Len(writing) /\ Len(writing) \in Nat
      /\ writing' \in Seq(Tag) /\ DOMAIN writing' = 1 .. Len(writing) - 1
      /\ \A i \in 1 .. Len(writing) - 1 : writing'[i] = writing[i + 1]
  BY <1>1, <1>3, TailFacts
<1>5. /\ node[t] \in Value(t) /\ sample[t] \in Value(t) /\ DOMAIN node = Tag
      /\ DOMAIN node' = Tag /\ node'[t] = sample[t]
      /\ \A x \in Tag : x # t => node'[x] = node[x]
  BY <1>1, <1>3, <1>4 DEF Tagged
<1>6. NewestPart' = IF t = "BoreDiameter" THEN sample["BoreDiameter"].part ELSE NewestPart
  BY <1>5, TagFacts DEF NewestPart
<1>7. MachineTypeOK'
  <2>1. node' = [x \in Tag |-> node'[x]]
    BY <1>1, <1>3, <1>5 DEF Tagged
  <2>2. \A x \in Tag : node'[x] \in Value(x)
    BY <1>3, <1>5 DEF Tagged
  <2>3. Tagged(node)' /\ Tagged(sample)'
    BY <2>1, <2>2, <1>1, <1>3 DEF Tagged
  <2> QED BY <2>3, <1>1, <1>3, <1>4 DEF MachineTypeOK
<1>8. SourceInOrder'
  <2>1. ASSUME NEW x \in Tag
        PROVE  Unwritten(x)' \/ node'[x] = sample'[x]
    <3>1. CASE x = t
      BY <3>1, <1>1, <1>5
    <3>2. CASE x # t /\ Unwritten(x)
      <4>1. PICK i \in 1 .. Len(writing) : writing[i] = x
        BY <3>2, <1>4 DEF Unwritten
      <4>2. i - 1 \in 1 .. Len(writing) - 1 /\ (i - 1) + 1 = i
        BY <4>1, <3>2, <1>4
      <4>3. writing'[i - 1] = x
        BY <4>1, <4>2, <1>4
      <4> QED BY <4>2, <4>3, <1>4 DEF Unwritten
    <3>3. CASE x # t /\ node[x] = sample[x]
      BY <3>3, <1>1, <1>5
    <3> QED BY <3>1, <3>2, <3>3, <1>2 DEF SourceInOrder
  <2>2. ASSUME NEW x \in Ordered
        PROVE  node'[x] = sample'[x] \/ Rank(x, node'[x]) < Rank(x, sample'[x])
    <3>1. x \in Tag
      BY DEF Ordered
    <3> QED BY <3>1, <1>1, <1>2, <1>5 DEF SourceInOrder
  <2> QED BY <2>1, <2>2, <1>1, <1>2 DEF SourceInOrder, Ordered
<1>9. PublishedInTurn'
  <2>1. sample["BoreDiameter"].part \in Int
    BY <1>3, TagFacts, ReadingFacts DEF Tagged, Value
  <2> QED BY <2>1, <1>1, <1>2, <1>6 DEF PublishedInTurn, Exact
<1>10. t \in Ordered => node[t] = sample[t] \/ Rank(t, node[t]) < Rank(t, sample[t])
  BY <1>2 DEF SourceInOrder
<1> QED BY <1>4, <1>5, <1>6, <1>7, <1>8, <1>9, <1>10

\* Before the subscription nothing but the node changes.
LEMMA WriteUnheard ==
    ASSUME FlowInv, WriteTag, NEW t, t = Head(writing), ~ subscribed \/ node[t] = sample[t]
    PROVE  QueuesInv'
<1>1. /\ UNCHANGED <<collectorVars, subscribed, wire, client, opened, skipped>>
      /\ UNCHANGED <<items, batch, dropped>>
  BY DEF WriteTag
<1>2. /\ t \in Tag /\ node[t] \in Value(t) /\ sample[t] \in Value(t)
      /\ DOMAIN node' = Tag /\ node'[t] = sample[t]
      /\ \A x \in Tag : x # t => node'[x] = node[x]
      /\ t \in Ordered => node[t] = sample[t] \/ Rank(t, node[t]) < Rank(t, sample[t])
  BY WriteTagMachine
<1>3. QueuesInv /\ QueuesTypeOK /\ Unopened /\ FlowInOrder
  BY DEF FlowInv, QueuesInv
<1>4. CASE node[t] = sample[t]
  <2>1. node = [x \in Tag |-> node[x]] /\ node' = [x \in Tag |-> node'[x]]
    BY WriteTagMachine DEF FlowInv, MachineTypeOK, Tagged
  <2>2. node' = node
    BY <2>1, <1>2, <1>4
  <2> QED BY <2>2, <1>1, <1>3, QueuesFrame DEF subscriptionVars
<1>5. CASE ~ subscribed
  <2>1. /\ parts' = parts /\ partCount' = partCount /\ charted' = charted
        /\ snapshotSkipped' = snapshotSkipped
        /\ subscribed' = subscribed /\ batch' = batch /\ items' = items
        /\ opened' = opened /\ dropped' = dropped /\ wire' = wire /\ client' = client
        /\ skipped' = skipped /\ UNCHANGED collectorVars
    BY <1>1 DEF collectorVars
  <2>2. /\ client.queue = <<>> /\ DOMAIN client.latest = {} /\ client.dropped = {}
        /\ dropped = {} /\ skipped = {} /\ parts = <<>> /\ charted = 0
    BY <1>3, <1>5 DEF Unopened
  <2>3. /\ Recorded' = Recorded /\ Handled' = Handled /\ Dropped' = Dropped
    BY <2>1 DEF Recorded, Handled, Dropped
  <2>4. \A x : /\ Done(x)' = Done(x) /\ Buffered(x)' = Buffered(x)
               /\ Sent(x)' = Sent(x) /\ Waiting(x)' = Waiting(x)
               /\ ItemsInOrder(x)' = ItemsInOrder(x)
    BY <2>1, <2>3 DEF Done, Buffered, Sent, Waiting, ItemsInOrder
  <2>5. CollectorIInv'
    BY <2>1, <1>3, StutterIInv DEF QueuesInv
  <2>6. QueuesTypeOK' /\ Unopened'
    BY <2>1, <2>3, <1>3 DEF QueuesTypeOK, Unopened
  <2>7. ASSUME NEW x \in Ordered
        PROVE  /\ Chain(Done(x)', Buffered(x)', Sent(x)', Waiting(x)', Rank(x, node'[x]))
               /\ ItemsInOrder(x)' /\ InOrder(wire', x) /\ InOrder(client'.queue, x)
    <3>1. x \in Tag
      BY DEF Ordered
    <3>2. /\ Done(x) \subseteq Int /\ Buffered(x) \subseteq Int
          /\ Sent(x) \subseteq Int /\ Waiting(x) \subseteq Int
      BY <3>1, <1>3, RankSets DEF QueuesInv, CollectorIInv, CollectorTypeOK
    <3>3. /\ Chain(Done(x), Buffered(x), Sent(x), Waiting(x), Rank(x, node[x]))
          /\ ItemsInOrder(x) /\ InOrder(wire, x) /\ InOrder(client.queue, x)
      BY <1>3 DEF FlowInOrder
    <3>4. CASE x = t
      <4>1. Rank(t, node[t]) \in Int /\ Rank(t, node'[t]) \in Int
        BY <1>2, RankType
      <4>2. Rank(t, node[t]) <= Rank(t, node'[t])
        BY <4>1, <3>4, <1>2
      <4>3. Chain(Done(t), Buffered(t), Sent(t), Waiting(t), Rank(t, node'[t]))
        <5>1. Chain(Done(t), Buffered(t), Sent(t), Waiting(t), Rank(t, node[t]))
          BY <3>3, <3>4
        <5> QED BY <5>1, <4>1, <4>2, <3>2, <3>4 DEF Chain, Precede
      <4>4. Chain(Done(x), Buffered(x), Sent(x), Waiting(x), Rank(x, node'[x]))
        BY <4>3, <3>4
      <4> QED BY <4>4, <3>3, <2>1, <2>4
    <3>5. CASE x # t
      BY <3>1, <3>3, <3>5, <2>1, <2>4, <1>2
    <3> QED BY <3>4, <3>5
  <2>8. FlowInOrder'
    BY <2>1, <2>7, <1>3 DEF FlowInOrder, RecordedInOrder, Ordered
  <2>9. NewestIsKept' /\ LatestIsLast' /\ CountIsKept'
    BY <2>1, <2>2, <1>5 DEF NewestIsKept, LatestIsLast, CountIsKept
  <2>10. Numbers(Dropped) = {} /\ Numbers(skipped) = {}
    BY <2>2 DEF Numbers, Dropped
  <2>11. PartsTraced'
    BY <2>1, <2>3, <2>10, <1>5 DEF PartsTraced
  <2>12. HandledAreDistinct'
    BY <2>1, <2>2, <2>3, <1>3, <1>5 DEF QueuesInv, HandledAreDistinct
  <2> QED BY <2>5, <2>6, <2>8, <2>9, <2>11, <2>12 DEF QueuesInv
<1> QED BY <1>4, <1>5

\* A new value joins the queue of its tag, behind all others.
LEMMA WriteHeard ==
    ASSUME FlowInv, WriteTag, NEW t, t = Head(writing), subscribed, node[t] # sample[t]
    PROVE  QueuesInv'
<1> DEFINE v == sample[t]
<1>1. /\ parts' = parts /\ partCount' = partCount /\ charted' = charted
      /\ snapshotSkipped' = snapshotSkipped
      /\ subscribed' = subscribed /\ opened' = opened /\ wire' = wire /\ client' = client
      /\ skipped' = skipped /\ UNCHANGED collectorVars
  BY DEF WriteTag, collectorVars
<1>2. /\ t \in Tag /\ node[t] \in Value(t) /\ v \in Value(t)
      /\ DOMAIN node' = Tag /\ node'[t] = v
      /\ \A x \in Tag : x # t => node'[x] = node[x]
      /\ t \in Ordered => Rank(t, node[t]) < Rank(t, v)
      /\ NewestPart' = IF t = "BoreDiameter" THEN sample["BoreDiameter"].part ELSE NewestPart
      /\ PublishedInTurn'
  BY WriteTagMachine
<1>3. QueuesInv /\ QueuesTypeOK /\ FlowInOrder /\ PublishedInTurn
  BY DEF FlowInv, QueuesInv
<1>4. Trigger(t, v)
  BY DEF WriteTag
<1> HIDE DEF v
<1>5. /\ DOMAIN items' = Tag
      /\ \A x \in Tag : x # t => items'[x] = items[x]
      /\ items'[t] = Append(Kept(t), v)
      /\ items'[t] \in Seq(Value(t)) /\ Len(items'[t]) <= QueueSize
      /\ items'[t] # <<>> /\ items'[t][Len(items'[t])] = v
      /\ Kept(t) \in Seq(Value(t))
      /\ ValueRanks(t, items'[t]) = ValueRanks(t, Kept(t)) \cup {Rank(t, v)}
      /\ Waiting(t)' = ValueRanks(t, items'[t])
  BY <1>2, <1>3, <1>4, TriggerQueue
<1>6. /\ ValueRanks(t, Kept(t)) \subseteq Waiting(t)
      /\ ItemsInOrder(t) => Climbs(t, Kept(t))
      /\ dropped' \subseteq BoreValue
      /\ \/ dropped' = dropped /\ (t = "BoreDiameter" => ValueRanks(t, Kept(t)) = Waiting(t))
         \/ /\ t = "BoreDiameter"
            /\ \E v0 \in BoreValue :
                 /\ dropped' = dropped \cup {v0}
                 /\ Waiting(t) = ValueRanks(t, Kept(t)) \cup {v0.part}
                 /\ ItemsInOrder(t) => \A y \in ValueRanks(t, Kept(t)) : v0.part < y
  BY <1>2, <1>3, <1>4, TriggerKeeps
<1>7. /\ batch' \in Seq(Tag)
      /\ \A i, j \in 1 .. Len(batch') : batch'[i] = batch'[j] => i = j
      /\ \A x \in Tag : items'[x] # <<>> <=> \E i \in 1 .. Len(batch') : batch'[i] = x
  BY <1>2, <1>3, <1>4, TriggerBatch
<1>8. Recorded' = Recorded /\ Handled' = Handled
  BY <1>1 DEF Recorded, Handled
<1>9. \A x : /\ Done(x)' = Done(x) /\ Buffered(x)' = Buffered(x) /\ Sent(x)' = Sent(x)
  BY <1>1, <1>8 DEF Done, Buffered, Sent
<1>10. \A x \in Tag : x # t => Waiting(x)' = Waiting(x) /\ (ItemsInOrder(x)' <=> ItemsInOrder(x))
  BY <1>5 DEF Waiting, ItemsInOrder
<1>11. ASSUME NEW x \in Tag
       PROVE  /\ Done(x) \subseteq Int /\ Buffered(x) \subseteq Int
              /\ Sent(x) \subseteq Int /\ Waiting(x) \subseteq Int
  BY <1>3, RankSets DEF QueuesInv, CollectorIInv, CollectorTypeOK
<1>12. Rank(t, node[t]) \in Int /\ Rank(t, v) \in Int
  BY <1>2, RankType
<1>13. CollectorIInv'
  BY <1>1, <1>3, StutterIInv DEF QueuesInv
<1>14. QueuesTypeOK'
  <2>1. \A x \in Tag : items'[x] \in Seq(Value(x)) /\ Len(items'[x]) <= QueueSize
    BY <1>3, <1>5 DEF QueuesTypeOK
  <2>2. /\ wire' \in Seq(Updates)
        /\ client' = [queue |-> client'.queue, latest |-> client'.latest,
                      dropped |-> client'.dropped]
        /\ client'.queue \in Seq(Updates) /\ Len(client'.queue) <= MaxQueue
        /\ client'.latest = [x \in DOMAIN client'.latest |-> client'.latest[x]]
        /\ DOMAIN client'.latest \subseteq Tag
        /\ \A x \in DOMAIN client'.latest : client'.latest[x] \in Value(x)
        /\ client'.dropped \subseteq Updates
        /\ subscribed' \in BOOLEAN /\ opened' \in BoreValue /\ skipped' \subseteq BoreValue
        /\ Recorded' \subseteq BoreValue
    BY <1>1, <1>3, <1>8 DEF QueuesTypeOK
  <2> QED BY <2>1, <2>2, <1>5, <1>6, <1>7 DEF QueuesTypeOK
<1>15. Unopened'
  BY <1>1 DEF Unopened
<1>16. ASSUME NEW x \in Ordered
       PROVE  /\ Chain(Done(x)', Buffered(x)', Sent(x)', Waiting(x)', Rank(x, node'[x]))
              /\ ItemsInOrder(x)' /\ InOrder(wire', x) /\ InOrder(client'.queue, x)
  <2>1. x \in Tag
    BY DEF Ordered
  <2>2. /\ Chain(Done(x), Buffered(x), Sent(x), Waiting(x), Rank(x, node[x]))
        /\ ItemsInOrder(x) /\ InOrder(wire, x) /\ InOrder(client.queue, x)
    BY <1>3 DEF FlowInOrder
  <2>3. CASE x = t
    <3>1. Waiting(t)' \in SUBSET Int /\ Waiting(t)' \subseteq Waiting(t) \cup {Rank(t, v)}
      BY <1>5, <1>6, <1>11, <1>12, <2>1, <2>3
    <3>2. Rank(t, node[t]) < Rank(t, v)
      BY <2>3, <1>2
    <3>3. Chain(Done(t), Buffered(t), Sent(t), Waiting(t)', Rank(t, v))
      <4>1. Chain(Done(t), Buffered(t), Sent(t), Waiting(t), Rank(t, node[t]))
        BY <2>2, <2>3
      <4> QED BY <4>1, <3>1, <3>2, <1>2, <1>11, <1>12 DEF Chain, Precede
    <3>4. \A y \in ValueRanks(t, Kept(t)) : y < Rank(t, v)
      BY <3>2, <2>2, <2>3, <1>2, <1>6, <1>11, <1>12 DEF Chain
    <3>5. Climbs(t, items'[t])
      BY <3>4, <2>2, <2>3, <1>2, <1>5, <1>6, ValueAppend
    <3> QED BY <3>3, <3>5, <2>2, <2>3, <1>1, <1>2, <1>9 DEF ItemsInOrder
  <2>4. CASE x # t
    BY <2>1, <2>2, <2>4, <1>1, <1>2, <1>9, <1>10
  <2> QED BY <2>3, <2>4
<1>17. FlowInOrder'
  BY <1>1, <1>3, <1>16 DEF FlowInOrder, RecordedInOrder, Ordered
<1>18. NewestIsKept'
  <2>1. ASSUME NEW x \in Tag, x # t
        PROVE  LastSent(x)' <=> LastSent(x)
    BY <2>1, <1>1, <1>2 DEF LastSent
  <2> QED BY <2>1, <1>1, <1>2, <1>3, <1>5 DEF QueuesInv, NewestIsKept
<1>19. LatestIsLast' /\ CountIsKept'
  BY <1>1, <1>3 DEF QueuesInv, LatestIsLast, CountIsKept, Ordered
<1> DEFINE bore == "BoreDiameter"
<1>20. CASE t # bore
  <2>1. dropped' = dropped /\ Dropped' = Dropped /\ NewestPart' = NewestPart
    BY <1>1, <1>2, <1>6, <1>20 DEF Dropped
  <2>2. Places' = Places
    BY <1>9, <1>10, <1>20, TagFacts DEF Places
  <2>3. PartsTraced' /\ HandledAreDistinct'
    BY <2>1, <2>2, <1>1, <1>3, <1>8 DEF QueuesInv, PartsTraced, HandledAreDistinct
  <2> QED BY <2>3, <1>13, <1>14, <1>15, <1>17, <1>18, <1>19 DEF QueuesInv
<1>21. CASE t = bore
  <2> DEFINE K == ValueRanks(bore, Kept(bore))
             m == NewestPart'
             C == Done(bore) \cup Buffered(bore) \cup Sent(bore)
  <2>1. m = v.part /\ m \in Int /\ NewestPart \in Int
    BY <1>2, <1>12, <1>21 DEF Rank, v, NewestPart
  <2>2. Waiting(bore)' = K \cup {m} /\ Places' = C \cup K \cup {m} /\ Places = C \cup Waiting(bore)
    BY <2>1, <1>5, <1>9, <1>21 DEF Places, Rank
  <2>3. K \subseteq Waiting(bore) /\ Places' \subseteq Places \cup {m}
    BY <2>2, <1>6, <1>21
  <2>4. bore \in Ordered => NewestPart < m
    BY <2>1, <1>2, <1>21 DEF Rank, NewestPart
  <2>5. HandledAreDistinct'
    BY <2>1, <2>3, <2>4, <1>1, <1>3, <1>8, ReadingFacts
       DEF QueuesInv, HandledAreDistinct, QueuesTypeOK
  <2>6. ASSUME Exact
        PROVE  /\ \A n \in opened.part .. m : n \in Places' \cup Numbers(Dropped')
               /\ \A n \in Numbers(Dropped') : n \notin Places' /\ n <= m
    <3>1. bore \in Ordered
      BY <2>6, <1>2, <1>21 DEF Exact, Ordered
    <3>2. m <= NewestPart + 1
      BY <2>1, <2>6, <1>3, <1>21 DEF PublishedInTurn, v
    <3>3. /\ \A n \in opened.part .. NewestPart : n \in Places \cup Numbers(Dropped)
          /\ \A n \in Numbers(Dropped) : n \notin Places /\ n <= NewestPart
      BY <2>6, <1>3 DEF QueuesInv, PartsTraced
    <3>4. /\ Chain(Done(bore), Buffered(bore), Sent(bore), Waiting(bore), NewestPart)
          /\ ItemsInOrder(bore)
      BY <3>1, <1>3 DEF FlowInOrder, Rank, NewestPart
    <3>5. Numbers(Dropped) \subseteq Int /\ opened.part \in Int
      BY <1>3, UpdatesAre, ReadingFacts DEF QueuesTypeOK, Dropped, Numbers, Value
    <3>6. CASE dropped' = dropped /\ K = Waiting(bore)
      <4>1. Dropped' = Dropped
        BY <3>6, <1>1 DEF Dropped
      <4> QED BY <4>1, <3>1, <3>2, <3>3, <3>5, <3>6, <2>1, <2>2, <2>4
    <3>7. ASSUME NEW v0 \in BoreValue, dropped' = dropped \cup {v0},
                 Waiting(bore) = K \cup {v0.part}, \A y \in K : v0.part < y
          PROVE  /\ \A n \in opened.part .. m : n \in Places' \cup Numbers(Dropped')
                 /\ \A n \in Numbers(Dropped') : n \notin Places' /\ n <= m
      <4>1. Dropped' = Dropped \cup {v0}
        BY <3>7, <1>1 DEF Dropped
      <4>2. Numbers(Dropped') = Numbers(Dropped) \cup {v0.part}
        BY <4>1 DEF Numbers
      <4>3. v0.part \in Int /\ v0.part <= NewestPart /\ v0.part < m
        BY <3>1, <3>4, <3>7, <2>1, <2>4, ReadingFacts DEF Chain
      <4>4. v0.part \notin C /\ v0.part \notin K
        BY <4>3, <3>4, <3>7, <1>2, <1>11, <1>21 DEF Chain, Precede
      <4>5. v0.part \notin Places'
        BY <4>3, <4>4, <2>1, <2>2
      <4>6. Places \subseteq Places' \cup {v0.part}
        BY <3>7, <2>2
      <4>7. \A n \in opened.part .. m : n \in opened.part .. NewestPart \/ n = m
        BY <3>2, <3>5, <2>1
      <4> QED BY <4>2, <4>3, <4>5, <4>6, <4>7, <3>1, <3>3, <3>5, <2>1, <2>2, <2>3, <2>4
    <3>8. \/ dropped' = dropped /\ K = Waiting(bore)
          \/ \E v0 \in BoreValue : /\ dropped' = dropped \cup {v0}
                                   /\ Waiting(bore) = K \cup {v0.part}
                                   /\ \A y \in K : v0.part < y
      BY <3>4, <1>6, <1>21
    <3> QED BY <3>6, <3>7, <3>8
  <2>7. PartsTraced'
    BY <2>6, <1>1, <1>3, <1>8 DEF QueuesInv, PartsTraced, Exact, Numbers
  <2> QED BY <2>5, <2>7, <1>13, <1>14, <1>15, <1>17, <1>18, <1>19 DEF QueuesInv
<1> QED BY <1>20, <1>21

LEMMA WriteTagFlowInv ==
    ASSUME FlowInv, WriteTag
    PROVE  FlowInv'
<1>1. PICK t : t = Head(writing)
  OBVIOUS
<1>2. QueuesInv'
  BY <1>1, WriteUnheard, WriteHeard
<1> QED BY <1>1, <1>2, WriteTagMachine DEF FlowInv

-----------------------------------------------------------------------------
(* The subscription opens *)

LEMMA TagsAreDistinct ==
    /\ \A i, j \in 1 .. Len(Tags) : Tags[i] = Tags[j] => i = j
    /\ \A t \in Tag : \E i \in 1 .. Len(Tags) : Tags[i] = t
<1>1. /\ Len(Tags) = 3 /\ Tags[1] = "BoreDiameter" /\ Tags[2] = "Torque" /\ Tags[3] = "PartCount"
  BY DEF Tags
<1>2. \A i \in 1 .. 3 : i = 1 \/ i = 2 \/ i = 3
  OBVIOUS
<1>3. 1 \in 1 .. 3 /\ 2 \in 1 .. 3 /\ 3 \in 1 .. 3
  OBVIOUS
<1>4. \A t \in Tag : \E i \in 1 .. 3 : Tags[i] = t
  BY <1>1, <1>3, TagFacts
<1>5. ASSUME NEW i \in 1 .. 3, NEW j \in 1 .. 3, Tags[i] = Tags[j]
      PROVE  i = j
  BY <1>1, <1>2, <1>5
<1> QED BY <1>1, <1>4, <1>5

\* A subscription starts with one value of each tag and nothing else.
LEMMA SubscribeFlowInv ==
    ASSUME FlowInv, Subscribe
    PROVE  FlowInv'
<1>1. /\ ~ subscribed /\ subscribed' = TRUE /\ batch' = Tags
      /\ items' = [t \in Tag |-> <<node[t]>>] /\ opened' = node["BoreDiameter"]
      /\ EarlySubscribe \/ node["BoreDiameter"] # Nominal
      /\ UNCHANGED <<collectorVars, serverVars, wire, client, dropped, skipped>>
  BY DEF Subscribe
<1>2. /\ parts' = parts /\ partCount' = partCount /\ charted' = charted
      /\ snapshotSkipped' = snapshotSkipped /\ node' = node
      /\ made' = made /\ samples' = samples /\ sample' = sample /\ writing' = writing
      /\ wire' = wire /\ client' = client /\ dropped' = dropped
      /\ skipped' = skipped /\ UNCHANGED collectorVars
  BY <1>1 DEF collectorVars, serverVars
<1>3. /\ QueuesInv /\ QueuesTypeOK /\ FlowInOrder /\ MachineTypeOK /\ SourceInOrder
      /\ PublishedInTurn
  BY DEF FlowInv, QueuesInv
<1>4. /\ wire = <<>> /\ client.queue = <<>> /\ DOMAIN client.latest = {}
      /\ client.dropped = {} /\ dropped = {} /\ skipped = {} /\ parts = <<>> /\ charted = 0
      /\ partCount = NoCount
  BY <1>1, <1>3 DEF QueuesInv, Unopened
<1>5. /\ \A t \in Tag : node[t] \in Value(t)
      /\ node["BoreDiameter"] \in BoreValue /\ node["PartCount"] \in 0 .. MaxSamples
  BY <1>3, TagFacts DEF MachineTypeOK, Tagged, Value
<1>6. NewestPart \in Int /\ opened' \in BoreValue /\ opened'.part = NewestPart
  BY <1>1, <1>5, ReadingFacts DEF NewestPart
<1>7. MachineTypeOK' /\ SourceInOrder' /\ PublishedInTurn'
  BY <1>2, <1>3 DEF MachineTypeOK, Tagged, SourceInOrder, Unwritten, PublishedInTurn, NewestPart
<1>8. CollectorIInv'
  BY <1>2, <1>3, StutterIInv DEF QueuesInv
<1>9. Recorded = {} /\ Recorded' = {} /\ Handled' = {} /\ Dropped' = {} /\ NewestPart' = NewestPart
  BY <1>2, <1>4 DEF Recorded, Handled, Dropped, NewestPart
<1>10. ASSUME NEW t \in Tag
       PROVE  /\ items'[t] = <<node[t]>> /\ Len(items'[t]) = 1 /\ items'[t][1] = node[t]
              /\ items'[t] # <<>> /\ items'[t] \in Seq(Value(t)) /\ DOMAIN items'[t] = {1}
  <2>1. items'[t] = <<node[t]>> /\ node[t] \in Value(t)
    BY <1>1, <1>5
  <2> QED BY <2>1
<1>11. QueuesTypeOK'
  <2>1. /\ wire' \in Seq(Updates)
        /\ client' = [queue |-> client'.queue, latest |-> client'.latest,
                      dropped |-> client'.dropped]
        /\ client'.queue \in Seq(Updates) /\ Len(client'.queue) <= MaxQueue
        /\ client'.latest = [x \in DOMAIN client'.latest |-> client'.latest[x]]
        /\ DOMAIN client'.latest \subseteq Tag
        /\ \A x \in DOMAIN client'.latest : client'.latest[x] \in Value(x)
        /\ client'.dropped \subseteq Updates
        /\ dropped' \subseteq BoreValue /\ skipped' \subseteq BoreValue
    BY <1>2, <1>3 DEF QueuesTypeOK
  <2>2. /\ batch' \in Seq(Tag)
        /\ \A i, j \in 1 .. Len(batch') : batch'[i] = batch'[j] => i = j
        /\ \A t \in Tag : items'[t] # <<>> <=> \E i \in 1 .. Len(batch') : batch'[i] = t
    BY <1>1, <1>10, TagFacts, TagsAreDistinct
  <2>3. /\ DOMAIN items' = Tag
        /\ \A t \in Tag : items'[t] \in Seq(Value(t)) /\ Len(items'[t]) <= QueueSize
    BY <1>1, <1>10, QueueSizeAssumption
  <2> QED BY <2>1, <2>2, <2>3, <1>1, <1>6, <1>9 DEF QueuesTypeOK
<1>12. Unopened'
  BY <1>1 DEF Unopened
<1>13. ASSUME NEW t \in Tag
       PROVE  /\ Buffered(t)' = {} /\ Sent(t)' = {} /\ Waiting(t)' = {Rank(t, node[t])}
              /\ ItemsInOrder(t)' /\ InOrder(wire', t) /\ InOrder(client'.queue, t)
              /\ Rank(t, node[t]) \in Int
  <2>1. Buffered(t)' = {} /\ Sent(t)' = {} /\ InOrder(wire', t) /\ InOrder(client'.queue, t)
    BY <1>2, <1>4 DEF Buffered, Sent, Ranks, InOrder
  <2>2. Waiting(t)' = {Rank(t, node[t])}
    BY <1>10 DEF Waiting, ValueRanks
  <2>3. ItemsInOrder(t)'
    BY <1>10 DEF ItemsInOrder, Climbs
  <2> QED BY <2>1, <2>2, <2>3, <1>5, RankType
<1>14. FlowInOrder'
  <2>1. ASSUME NEW t \in Tag
        PROVE  Chain(Done(t)', {}, {}, {Rank(t, node[t])}, Rank(t, node[t]))
    <3>1. CASE t = "PartCount"
      <4>1. Done(t)' = {-1} /\ Rank(t, node[t]) >= 0
        BY <3>1, <1>2, <1>4, <1>5 DEF Done, NoCount, Rank
      <4> QED BY <4>1, <1>13 DEF Chain, Precede
    <3>2. CASE t # "PartCount"
      <4>1. Done(t)' = {}
        BY <3>2, <1>9, TagFacts DEF Done, Numbers
      <4> QED BY <4>1, <1>13 DEF Chain, Precede
    <3> QED BY <3>1, <3>2
  <2>2. RecordedInOrder'
    BY <1>2, <1>4 DEF RecordedInOrder
  <2> QED BY <2>1, <2>2, <1>2, <1>13 DEF FlowInOrder, Ordered
<1>15. NewestIsKept' /\ LatestIsLast' /\ CountIsKept'
  BY <1>2, <1>4, <1>10 DEF NewestIsKept, LatestIsLast, CountIsKept
<1>16. Places' = {NewestPart}
  BY <1>9, <1>13, TagFacts DEF Places, Done, Numbers, Rank, NewestPart
<1>17. PartsTraced'
  BY <1>2, <1>6, <1>9, <1>16 DEF PartsTraced, Numbers
<1>18. HandledAreDistinct'
  <2>1. ASSUME "BoreDiameter" \in Ordered, ~ EarlySubscribe
        PROVE  opened'.part >= 0
    <3>1. /\ node["BoreDiameter"].error = 0 /\ node["BoreDiameter"].part \in -1 .. MaxSamples
          /\ node["BoreDiameter"] = BoreReading(node["BoreDiameter"].part,
                                                node["BoreDiameter"].error)
      BY <2>1, <1>5 DEF Ordered, Errors, BoreValue, BoreReading
    <3>2. node["BoreDiameter"].part # -1
      BY <3>1, <2>1, <1>1 DEF Nominal
    <3> QED BY <3>1, <3>2, <1>1, SamplesAssumption
  <2> QED BY <2>1, <1>1, <1>2, <1>3, <1>4, <1>6, <1>9, <1>16 DEF QueuesInv, HandledAreDistinct
<1> QED BY <1>7, <1>8, <1>11, <1>12, <1>14, <1>15, <1>17, <1>18 DEF FlowInv, QueuesInv

-----------------------------------------------------------------------------
(* A publishing interval is over *)

\* The last value sent of a tag is the last one queued, if there is one.
LEMMA PublishKeepsNewest ==
    ASSUME QueuesInv, PublishInterval, subscribed, NEW t \in Tag
    PROVE  \/ LastSent(t)'
           \/ /\ \A j \in DOMAIN wire' : wire'[j].tag # t
              /\ t \in DOMAIN client.latest /\ client.latest[t] = node[t]
<1> DEFINE r == Notifications
<1>1. wire' = wire \o r /\ node' = node
  BY DEF PublishInterval, serverVars
<1>2. QueuesTypeOK /\ wire \in Seq(Updates) /\ NewestIsKept
  BY DEF QueuesInv, QueuesTypeOK
<1>3. r \in Seq(Updates)
  BY <1>2, NotificationsAt
<1>4. /\ items[t] = <<>> => \A j \in DOMAIN r : r[j].tag # t
      /\ items[t] # <<>> =>
           \E i \in DOMAIN r : /\ r[i] = Update(t, items[t][Len(items[t])])
                               /\ \A j \in DOMAIN r : j > i => r[j].tag # t
  BY <1>2, NotificationsOf
<1> HIDE DEF r
<1>5. /\ Len(wire) \in Nat /\ Len(r) \in Nat
      /\ DOMAIN wire = 1 .. Len(wire) /\ DOMAIN r = 1 .. Len(r)
      /\ DOMAIN wire' = 1 .. Len(wire) + Len(r)
      /\ \A i \in 1 .. Len(wire) : wire'[i] = wire[i]
      /\ \A i \in 1 .. Len(r) : wire'[Len(wire) + i] = r[i]
      /\ \A i \in 1 .. Len(wire) + Len(r) : i > Len(wire) => wire'[i] = r[i - Len(wire)]
  BY <1>1, <1>2, <1>3, ConcatFacts
<1>6. CASE items[t] # <<>> /\ items[t][Len(items[t])] = node[t]
  <2>1. PICK i \in 1 .. Len(r) : /\ r[i] = Update(t, node[t])
                                 /\ \A j \in 1 .. Len(r) : j > i => r[j].tag # t
    BY <1>4, <1>5, <1>6
  <2>2. Len(wire) + i \in DOMAIN wire' /\ wire'[Len(wire) + i] = Update(t, node[t])
    BY <2>1, <1>5
  <2>3. ASSUME NEW j \in DOMAIN wire', j > Len(wire) + i
        PROVE  wire'[j].tag # t
    <3>1. j - Len(wire) \in 1 .. Len(r) /\ j - Len(wire) > i /\ wire'[j] = r[j - Len(wire)]
      BY <2>1, <2>3, <1>5
    <3> QED BY <3>1, <2>1
  <2> QED BY <2>2, <2>3, <1>1 DEF LastSent
<1>7. CASE items[t] = <<>>
  <2>1. \A j \in 1 .. Len(r) : r[j].tag # t
    BY <1>4, <1>5, <1>7
  <2>2. ASSUME NEW j \in DOMAIN wire', wire'[j].tag = t
        PROVE  j \in 1 .. Len(wire) /\ wire'[j] = wire[j]
    <3>1. CASE j \in 1 .. Len(wire)
      BY <3>1, <1>5
    <3>2. CASE j > Len(wire)
      <4>1. j - Len(wire) \in 1 .. Len(r) /\ wire'[j] = r[j - Len(wire)]
        BY <3>2, <1>5
      <4> QED BY <4>1, <2>1, <2>2
    <3> QED BY <3>1, <3>2, <1>5
  <2>3. CASE LastSent(t)
    <3>1. PICK i \in 1 .. Len(wire) : /\ wire[i] = Update(t, node[t])
                                      /\ \A j \in 1 .. Len(wire) : j > i => wire[j].tag # t
      BY <2>3, <1>5 DEF LastSent
    <3>2. i \in DOMAIN wire' /\ wire'[i] = Update(t, node[t])
      BY <3>1, <1>5
    <3>3. \A j \in DOMAIN wire' : j > i => wire'[j].tag # t
      BY <3>1, <2>2
    <3> QED BY <3>2, <3>3, <1>1 DEF LastSent
  <2>4. CASE /\ \A j \in DOMAIN wire : wire[j].tag # t
             /\ t \in DOMAIN client.latest /\ client.latest[t] = node[t]
    <3>1. \A j \in DOMAIN wire' : wire'[j].tag # t
      BY <2>2, <2>4, <1>5
    <3> QED BY <3>1, <2>4
  <2> QED BY <2>3, <2>4, <1>2, <1>7 DEF NewestIsKept
<1> QED BY <1>6, <1>7, <1>2 DEF NewestIsKept

\* What waited in the server goes behind what was sent before.
LEMMA PublishFlowInv ==
    ASSUME FlowInv, PublishInterval
    PROVE  FlowInv'
<1>1. /\ batch # <<>> /\ wire' = wire \o Notifications /\ batch' = <<>>
      /\ items' = [t \in Tag |-> <<>>]
      /\ UNCHANGED <<collectorVars, serverVars, subscribed, opened, dropped, client, skipped>>
  BY DEF PublishInterval
<1>2. /\ parts' = parts /\ partCount' = partCount /\ charted' = charted
      /\ snapshotSkipped' = snapshotSkipped /\ node' = node
      /\ made' = made /\ samples' = samples /\ sample' = sample /\ writing' = writing
      /\ subscribed' = subscribed /\ opened' = opened
      /\ client' = client /\ dropped' = dropped
      /\ skipped' = skipped /\ UNCHANGED collectorVars
  BY <1>1 DEF collectorVars, serverVars
<1>3. /\ QueuesInv /\ QueuesTypeOK /\ FlowInOrder /\ MachineTypeOK /\ SourceInOrder
      /\ PublishedInTurn
  BY DEF FlowInv, QueuesInv
<1>4. subscribed
  BY <1>1, <1>3 DEF QueuesInv, Unopened, QueuesTypeOK
<1>5. MachineTypeOK' /\ SourceInOrder' /\ PublishedInTurn'
  BY <1>2, <1>3 DEF MachineTypeOK, Tagged, SourceInOrder, Unwritten, PublishedInTurn, NewestPart
<1>6. CollectorIInv'
  BY <1>2, <1>3, StutterIInv DEF QueuesInv
<1>7. Recorded' = Recorded /\ Handled' = Handled /\ Dropped' = Dropped /\ NewestPart' = NewestPart
  BY <1>2 DEF Recorded, Handled, Dropped, NewestPart
<1>8. Notifications \in Seq(Updates) /\ wire \in Seq(Updates) /\ wire' \in Seq(Updates)
  BY <1>1, <1>3, NotificationsAt, ConcatFacts DEF QueuesTypeOK
<1>9. QueuesTypeOK'
  <2>1. /\ client' = [queue |-> client'.queue, latest |-> client'.latest,
                      dropped |-> client'.dropped]
        /\ client'.queue \in Seq(Updates) /\ Len(client'.queue) <= MaxQueue
        /\ client'.latest = [x \in DOMAIN client'.latest |-> client'.latest[x]]
        /\ DOMAIN client'.latest \subseteq Tag
        /\ \A x \in DOMAIN client'.latest : client'.latest[x] \in Value(x)
        /\ client'.dropped \subseteq Updates
        /\ subscribed' \in BOOLEAN /\ opened' \in BoreValue /\ skipped' \subseteq BoreValue
        /\ dropped' \subseteq BoreValue /\ Recorded' \subseteq BoreValue
    BY <1>2, <1>3, <1>7 DEF QueuesTypeOK
  <2>2. /\ batch' \in Seq(Tag) /\ Len(batch') = 0
    BY <1>1
  <2>3. /\ DOMAIN items' = Tag
        /\ \A t \in Tag : items'[t] = <<>> /\ items'[t] \in Seq(Value(t)) /\ Len(items'[t]) = 0
    BY <1>1
  <2>4. \A t \in Tag : Len(items'[t]) <= QueueSize
    BY <2>3, QueueSizeAssumption
  <2>5. /\ \A i, j \in 1 .. Len(batch') : batch'[i] = batch'[j] => i = j
        /\ \A t \in Tag : items'[t] # <<>> <=> \E i \in 1 .. Len(batch') : batch'[i] = t
    BY <2>2, <2>3
  <2> QED BY <2>1, <2>2, <2>3, <2>4, <2>5, <1>8 DEF QueuesTypeOK
<1>10. Unopened'
  BY <1>2, <1>4 DEF Unopened
<1>11. \A t : Done(t)' = Done(t) /\ Buffered(t)' = Buffered(t)
  BY <1>2, <1>7 DEF Done, Buffered
<1>12. ASSUME NEW t \in Tag
       PROVE  Sent(t)' = Sent(t) \cup Waiting(t) /\ Waiting(t)' = {} /\ ItemsInOrder(t)'
  <2>1. Ranks(wire', t) = Ranks(wire, t) \cup Ranks(Notifications, t)
    BY <1>1, <1>8, ConcatRanks
  <2>2. Ranks(Notifications, t) = Waiting(t)
    BY <1>3, NotificationsOf
  <2>3. Waiting(t)' = {} /\ ItemsInOrder(t)'
    BY <1>1 DEF Waiting, ValueRanks, ItemsInOrder, Climbs
  <2> QED BY <2>1, <2>2, <2>3 DEF Sent
<1>13. ASSUME NEW t \in Ordered
       PROVE  /\ Chain(Done(t)', Buffered(t)', Sent(t)', Waiting(t)', Rank(t, node'[t]))
              /\ ItemsInOrder(t)' /\ InOrder(wire', t) /\ InOrder(client'.queue, t)
  <2>1. t \in Tag
    BY DEF Ordered
  <2>2. /\ Chain(Done(t), Buffered(t), Sent(t), Waiting(t), Rank(t, node[t]))
        /\ ItemsInOrder(t) /\ InOrder(wire, t) /\ InOrder(client.queue, t)
    BY <1>3 DEF FlowInOrder
  <2>3. /\ Done(t) \subseteq Int /\ Buffered(t) \subseteq Int
        /\ Sent(t) \subseteq Int /\ Waiting(t) \subseteq Int
    BY <2>1, <1>3, RankSets DEF QueuesInv, CollectorIInv, CollectorTypeOK
  <2>4. Rank(t, node[t]) \in Int
    BY <2>1, <1>3, RankType DEF MachineTypeOK, Tagged
  <2>5. Chain(Done(t), Buffered(t), Sent(t) \cup Waiting(t), {}, Rank(t, node[t]))
    BY <2>2, <2>3, <2>4 DEF Chain, Precede
  <2>6. InOrder(Notifications, t) /\ Ranks(Notifications, t) = Waiting(t)
    BY <2>1, <2>2, <1>3, NotificationsOf
  <2>7. Precede(Ranks(wire, t), Ranks(Notifications, t))
    BY <2>2, <2>6 DEF Chain, Sent
  <2>8. InOrder(wire', t)
    BY <2>2, <2>6, <2>7, <1>1, <1>8, ConcatRanks
  <2> QED BY <2>1, <2>2, <2>5, <2>8, <1>2, <1>11, <1>12
<1>14. FlowInOrder'
  BY <1>2, <1>3, <1>13 DEF FlowInOrder, RecordedInOrder, Ordered
<1>15. NewestIsKept'
  <2>1. ASSUME NEW t \in Tag
        PROVE  \/ LastSent(t)'
               \/ /\ \A j \in DOMAIN wire' : wire'[j].tag # t
                  /\ t \in DOMAIN client.latest /\ client.latest[t] = node[t]
    BY <1>3, <1>4, PublishKeepsNewest
  <2>2. \A t \in Tag : items'[t] = <<>>
    BY <1>1
  <2> QED BY <2>1, <2>2, <1>2 DEF NewestIsKept
<1>16. LatestIsLast' /\ CountIsKept'
  BY <1>2, <1>3 DEF QueuesInv, LatestIsLast, CountIsKept, Ordered
<1>17. Places' = Places
  BY <1>11, <1>12, TagFacts DEF Places
<1>18. PartsTraced' /\ HandledAreDistinct'
  BY <1>2, <1>3, <1>7, <1>17 DEF QueuesInv, PartsTraced, HandledAreDistinct
<1> QED BY <1>5, <1>6, <1>9, <1>10, <1>14, <1>15, <1>16, <1>18 DEF FlowInv, QueuesInv

-----------------------------------------------------------------------------
(* The client receives an update *)

\* The updates kept when a new one arrives.
Room == IF Len(client.queue) >= MaxQueue THEN Tail(client.queue) ELSE client.queue

LEMMA EnqueueFacts ==
    ASSUME QueuesTypeOK, NEW u \in Updates, client' = Enqueue(client, u)
    PROVE  /\ client' = [queue |-> client'.queue, latest |-> client'.latest,
                         dropped |-> client'.dropped]
           /\ Room \in Seq(Updates) /\ client'.queue = Append(Room, u)
           /\ client'.queue \in Seq(Updates) /\ Len(client'.queue) <= MaxQueue
           /\ client'.latest = Latest(client, u)
           /\ \/ client'.dropped = client.dropped /\ Room = client.queue
              \/ /\ client.queue # <<>> /\ Room = Tail(client.queue)
                 /\ client'.dropped = client.dropped \cup {Head(client.queue)}
           /\ client'.dropped \subseteq Updates
<1>1. /\ client = [queue |-> client.queue, latest |-> client.latest, dropped |-> client.dropped]
      /\ client.queue \in Seq(Updates) /\ Len(client.queue) \in Nat
      /\ Len(client.queue) <= MaxQueue /\ client.dropped \subseteq Updates
      /\ MaxQueue \in Nat /\ MaxQueue > 0
  BY MaxQueueAssumption DEF QueuesTypeOK
<1>2. CASE Len(client.queue) >= MaxQueue
  <2>1. client' = [queue |-> Append(Tail(client.queue), u), latest |-> Latest(client, u),
                   dropped |-> client.dropped \cup {Head(client.queue)}]
    BY <1>2 DEF Enqueue
  <2>2. Room = Tail(client.queue) /\ client.queue # <<>>
    BY <1>1, <1>2 DEF Room
  <2>3. /\ Room \in Seq(Updates) /\ Len(Room) = Len(client.queue) - 1
        /\ Head(client.queue) \in Updates
    BY <2>2, <1>1, TailFacts
  <2>4. /\ client'.queue = Append(Room, u) /\ client'.latest = Latest(client, u)
        /\ client'.dropped = client.dropped \cup {Head(client.queue)}
        /\ client' = [queue |-> client'.queue, latest |-> client'.latest,
                      dropped |-> client'.dropped]
    BY <2>1, <2>2
  <2>5. Append(Room, u) \in Seq(Updates) /\ Len(Append(Room, u)) = Len(Room) + 1
    BY <2>3, AppendFacts
  <2> QED BY <2>2, <2>3, <2>4, <2>5, <1>1
<1>3. CASE ~ (Len(client.queue) >= MaxQueue)
  <2>1. client' = [queue |-> Append(client.queue, u), latest |-> Latest(client, u),
                   dropped |-> client.dropped]
    BY <1>3 DEF Enqueue
  <2>2. Room = client.queue
    BY <1>3 DEF Room
  <2>4. /\ client'.queue = Append(Room, u) /\ client'.latest = Latest(client, u)
        /\ client'.dropped = client.dropped
        /\ client' = [queue |-> client'.queue, latest |-> client'.latest,
                      dropped |-> client'.dropped]
    BY <2>1, <2>2
  <2>5. Append(Room, u) \in Seq(Updates) /\ Len(Append(Room, u)) = Len(Room) + 1
    BY <2>2, <1>1, AppendFacts
  <2> QED BY <2>2, <2>4, <2>5, <1>1, <1>3
<1> QED BY <1>2, <1>3

\* What the queue holds afterwards, and where what it held has gone.
LEMMA EnqueuePlaces ==
    ASSUME QueuesTypeOK, NEW u \in Updates, client' = Enqueue(client, u)
    PROVE  /\ \E i \in DOMAIN client'.queue : client'.queue[i] = u
           /\ \A i \in DOMAIN client'.queue :
                \/ client'.queue[i] = u
                \/ \E j \in DOMAIN client.queue : client'.queue[i] = client.queue[j]
           /\ \A j \in DOMAIN client.queue :
                \/ client.queue[j] \in client'.dropped
                \/ \E i \in DOMAIN client'.queue : client'.queue[i] = client.queue[j]
<1> DEFINE q == client.queue
           r == client'.queue
<1>1. /\ q \in Seq(Updates) /\ Len(q) \in Nat /\ DOMAIN q = 1 .. Len(q)
  BY DEF QueuesTypeOK
<1>2. /\ Room \in Seq(Updates) /\ r = Append(Room, u)
      /\ \/ client'.dropped = client.dropped /\ Room = q
         \/ q # <<>> /\ Room = Tail(q) /\ client'.dropped = client.dropped \cup {Head(q)}
  BY EnqueueFacts
<1>3. /\ r \in Seq(Updates) /\ Len(Room) \in Nat /\ Len(r) = Len(Room) + 1
      /\ \A i \in 1 .. Len(Room) : r[i] = Room[i]
      /\ r[Len(Room) + 1] = u
  BY <1>2, AppendFacts
<1> HIDE DEF q, r
<1>4. /\ DOMAIN r = 1 .. Len(Room) + 1 /\ Len(Room) + 1 \in DOMAIN r
      /\ \A i \in 1 .. Len(Room) : i \in DOMAIN r
      /\ \A i \in DOMAIN r : i \in 1 .. Len(Room) \/ i = Len(Room) + 1
  BY <1>3
<1>5. /\ \A i \in 1 .. Len(Room) : \E j \in 1 .. Len(q) : Room[i] = q[j]
      /\ \A j \in 1 .. Len(q) : \/ q[j] \in client'.dropped
                                \/ \E i \in 1 .. Len(Room) : Room[i] = q[j]
  <2>1. CASE Room = q
    BY <2>1
  <2>2. CASE q # <<>> /\ Room = Tail(q) /\ client'.dropped = client.dropped \cup {Head(q)}
    <3>1. /\ Head(q) = q[1] /\ Len(Room) = Len(q) - 1
          /\ \A i \in 1 .. Len(q) - 1 : Room[i] = q[i + 1]
      BY <2>2, <1>1, TailFacts
    <3>2. \A i \in 1 .. Len(Room) : i + 1 \in 1 .. Len(q) /\ Room[i] = q[i + 1]
      BY <3>1, <1>1
    <3>3. ASSUME NEW j \in 1 .. Len(q), j # 1
          PROVE  j - 1 \in 1 .. Len(Room) /\ Room[j - 1] = q[j]
      <4>1. j - 1 \in 1 .. Len(Room) /\ (j - 1) + 1 = j
        BY <3>1, <3>3, <1>1
      <4> QED BY <4>1, <3>2
    <3> QED BY <3>1, <3>2, <3>3, <2>2
  <2> QED BY <2>1, <2>2, <1>2
<1>6. \E i \in DOMAIN r : r[i] = u
  BY <1>3, <1>4
<1>7. \A i \in DOMAIN r : r[i] = u \/ \E j \in DOMAIN q : r[i] = q[j]
  BY <1>1, <1>3, <1>4, <1>5
<1>8. \A j \in DOMAIN q : q[j] \in client'.dropped \/ \E i \in DOMAIN r : r[i] = q[j]
  BY <1>1, <1>3, <1>4, <1>5
<1> QED BY <1>6, <1>7, <1>8 DEF q, r

LEMMA LatestFacts ==
    ASSUME QueuesTypeOK, NEW u \in Updates, NEW l, l = Latest(client, u)
    PROVE  /\ l = [t \in DOMAIN l |-> l[t]]
           /\ DOMAIN l = DOMAIN client.latest \cup {u.tag} /\ DOMAIN l \subseteq Tag
           /\ l[u.tag] = u.value
           /\ \A t \in DOMAIN client.latest : t # u.tag => l[t] = client.latest[t]
           /\ \A t \in DOMAIN l : l[t] \in Value(t)
<1>1. l = [t \in DOMAIN client.latest \cup {u.tag} |->
             IF t = u.tag THEN u.value ELSE client.latest[t]]
  BY DEF Latest
<1>2. /\ DOMAIN l = DOMAIN client.latest \cup {u.tag} /\ l[u.tag] = u.value
      /\ l = [t \in DOMAIN l |-> l[t]]
      /\ \A t \in DOMAIN client.latest : t # u.tag => l[t] = client.latest[t]
  BY <1>1
<1>3. /\ u.tag \in Tag /\ u.value \in Value(u.tag)
      /\ DOMAIN client.latest \subseteq Tag
      /\ \A t \in DOMAIN client.latest : client.latest[t] \in Value(t)
  BY UpdatesAre DEF QueuesTypeOK
<1> QED BY <1>2, <1>3

LEMMA EnqueueRanks ==
    ASSUME QueuesTypeOK, NEW u \in Updates, client' = Enqueue(client, u), NEW t
    PROVE  /\ Ranks(Room, t) \subseteq Buffered(t)
           /\ u.tag # t => Buffered(t)' = Ranks(Room, t)
           /\ u.tag = t => Buffered(t)' = Ranks(Room, t) \cup {Rank(t, u.value)}
           /\ /\ InOrder(client.queue, t)
              /\ u.tag = t => \A x \in Ranks(Room, t) : x < Rank(t, u.value)
              => InOrder(client'.queue, t)
<1>1. /\ client.queue \in Seq(Updates) /\ Room \in Seq(Updates)
      /\ client'.queue = Append(Room, u)
      /\ Room = client.queue \/ (client.queue # <<>> /\ Room = Tail(client.queue))
  BY EnqueueFacts DEF QueuesTypeOK
<1>2. /\ Ranks(Room, t) \subseteq Ranks(client.queue, t)
      /\ InOrder(client.queue, t) => InOrder(Room, t)
  <2>1. CASE Room = client.queue
    BY <2>1
  <2>2. CASE client.queue # <<>> /\ Room = Tail(client.queue)
    BY <2>2, <1>1, TailRanks
  <2> QED BY <2>1, <2>2, <1>1
<1>3. /\ u.tag # t => Ranks(Append(Room, u), t) = Ranks(Room, t)
      /\ u.tag = t => Ranks(Append(Room, u), t) = Ranks(Room, t) \cup {Rank(t, u.value)}
      /\ InOrder(Room, t) /\ (u.tag = t => \A x \in Ranks(Room, t) : x < Rank(t, u.value))
           => InOrder(Append(Room, u), t)
  BY <1>1, AppendRanks
<1> QED BY <1>1, <1>2, <1>3 DEF Buffered

\* A full buffer drops the reading of one part, or of none.
LEMMA EnqueueDrops ==
    ASSUME QueuesTypeOK, NEW u \in Updates, client' = Enqueue(client, u), dropped' = dropped
    PROVE  \/ /\ Numbers(Dropped') = Numbers(Dropped)
              /\ Ranks(Room, "BoreDiameter") = Buffered("BoreDiameter")
           \/ \E n \in Int :
                /\ Numbers(Dropped') = Numbers(Dropped) \cup {n}
                /\ Buffered("BoreDiameter") = Ranks(Room, "BoreDiameter") \cup {n}
                /\ InOrder(client.queue, "BoreDiameter") =>
                     \A y \in Ranks(Room, "BoreDiameter") : n < y
<1> DEFINE bore == "BoreDiameter"
<1>1. /\ client.queue \in Seq(Updates) /\ Room \in Seq(Updates)
      /\ \/ client'.dropped = client.dropped /\ Room = client.queue
         \/ /\ client.queue # <<>> /\ Room = Tail(client.queue)
            /\ client'.dropped = client.dropped \cup {Head(client.queue)}
  BY EnqueueFacts DEF QueuesTypeOK
<1>2. CASE client'.dropped = client.dropped /\ Room = client.queue
  BY <1>2 DEF Dropped, Numbers, Buffered
<1>3. CASE /\ client.queue # <<>> /\ Room = Tail(client.queue)
           /\ client'.dropped = client.dropped \cup {Head(client.queue)}
  <2> DEFINE h == Head(client.queue)
  <2>1. h \in Updates
    BY <1>1, <1>3, TailFacts
  <2>2. /\ h.tag # bore => Ranks(Room, bore) = Ranks(client.queue, bore)
        /\ h.tag = bore => Ranks(client.queue, bore) = Ranks(Room, bore) \cup {Rank(bore, h.value)}
        /\ InOrder(client.queue, bore) /\ h.tag = bore =>
             \A y \in Ranks(Room, bore) : Rank(bore, h.value) < y
    BY <1>1, <1>3, TailRanks
  <2> HIDE DEF h
  <2>3. client'.dropped = client.dropped \cup {h}
    BY <1>3 DEF h
  <2>4. CASE h.tag # bore
    <3>1. Dropped' = Dropped
      BY <2>3, <2>4 DEF Dropped
    <3> QED BY <3>1, <2>2, <2>4 DEF Numbers, Buffered
  <2>5. CASE h.tag = bore
    <3>1. Dropped' = Dropped \cup {h.value}
      BY <2>3, <2>5 DEF Dropped
    <3>2. Numbers(Dropped') = Numbers(Dropped) \cup {h.value.part}
      BY <3>1 DEF Numbers
    <3>3. Rank(bore, h.value) = h.value.part /\ h.value.part \in Int
      BY <2>1, <2>5, UpdatesAre DEF Rank
    <3> QED BY <3>2, <3>3, <2>2, <2>5 DEF Buffered
  <2> QED BY <2>4, <2>5
<1> QED BY <1>1, <1>2, <1>3

\* The newest value stays the last of its tag nearest to the server.
LEMMA ReceiveKeepsNewest ==
    ASSUME QueuesInv, Receive
    PROVE  NewestIsKept'
<1> DEFINE u == Head(wire)
<1>1. /\ wire # <<>> /\ wire' = Tail(wire) /\ client' = Enqueue(client, u)
      /\ node' = node /\ subscribed' = subscribed /\ items' = items
  BY DEF Receive, serverVars, subscriptionVars
<1>2. QueuesTypeOK /\ NewestIsKept /\ wire \in Seq(Updates)
  BY DEF QueuesInv, QueuesTypeOK
<1>3. /\ u = wire[1] /\ u \in Updates /\ DOMAIN wire = 1 .. Len(wire) /\ Len(wire) \in Nat
      /\ DOMAIN wire' = 1 .. Len(wire) - 1 /\ 1 \in DOMAIN wire
      /\ \A i \in 1 .. Len(wire) - 1 : wire'[i] = wire[i + 1]
  BY <1>1, <1>2, TailFacts
<1>4. client'.latest = Latest(client, u)
  BY <1>1, <1>2, <1>3, EnqueueFacts
<1>5. /\ DOMAIN client'.latest = DOMAIN client.latest \cup {u.tag}
      /\ client'.latest[u.tag] = u.value
      /\ \A t \in DOMAIN client.latest : t # u.tag => client'.latest[t] = client.latest[t]
  BY <1>2, <1>3, <1>4, LatestFacts
<1> HIDE DEF u
<1> SUFFICES ASSUME subscribed, NEW t \in Tag, items[t] = <<>>
             PROVE  \/ LastSent(t)'
                    \/ /\ \A j \in DOMAIN wire' : wire'[j].tag # t
                       /\ t \in DOMAIN client'.latest /\ client'.latest[t] = node[t]
  <2>1. subscribed => \A t \in Tag : items[t] # <<>> => items[t][Len(items[t])] = node[t]
    BY <1>1, <1>2 DEF NewestIsKept
  <2> QED BY <2>1, <1>1 DEF NewestIsKept
<1>6. ASSUME NEW j \in 1 .. Len(wire) - 1
      PROVE  j + 1 \in 1 .. Len(wire) /\ j + 1 > 1 /\ wire'[j] = wire[j + 1]
  BY <1>3
<1>7. CASE LastSent(t)
  <2>1. PICK i \in 1 .. Len(wire) : /\ wire[i] = Update(t, node[t])
                                    /\ \A j \in 1 .. Len(wire) : j > i => wire[j].tag # t
    BY <1>3, <1>7 DEF LastSent
  <2>2. CASE i = 1
    <3>1. \A j \in DOMAIN wire' : wire'[j].tag # t
      BY <2>1, <2>2, <1>3, <1>6
    <3>2. u.tag = t /\ u.value = node[t]
      BY <2>1, <2>2, <1>3 DEF Update
    <3> QED BY <3>1, <3>2, <1>5
  <2>3. CASE i # 1
    <3>1. i - 1 \in 1 .. Len(wire) - 1 /\ (i - 1) + 1 = i
      BY <2>1, <2>3, <1>3
    <3>2. wire'[i - 1] = Update(t, node[t])
      BY <3>1, <2>1, <1>6
    <3>3. ASSUME NEW j \in 1 .. Len(wire) - 1, j > i - 1
          PROVE  wire'[j].tag # t
      <4>1. j + 1 \in 1 .. Len(wire) /\ j + 1 > i /\ wire'[j] = wire[j + 1]
        BY <3>1, <3>3, <2>1, <1>3, <1>6
      <4> QED BY <4>1, <2>1
    <3> QED BY <3>1, <3>2, <3>3, <1>1, <1>3 DEF LastSent
  <2> QED BY <2>2, <2>3
<1>8. CASE /\ \A j \in DOMAIN wire : wire[j].tag # t
           /\ t \in DOMAIN client.latest /\ client.latest[t] = node[t]
  <2>1. \A j \in DOMAIN wire' : wire'[j].tag # t
    BY <1>3, <1>6, <1>8
  <2>2. u.tag # t
    BY <1>3, <1>8
  <2> QED BY <2>1, <2>2, <1>5, <1>8
<1> QED BY <1>7, <1>8, <1>2 DEF NewestIsKept

LEMMA ReceiveFlowInv ==
    ASSUME FlowInv, Receive
    PROVE  FlowInv'
<1> DEFINE u == Head(wire)
<1>1. /\ wire # <<>> /\ wire' = Tail(wire) /\ client' = Enqueue(client, u)
      /\ UNCHANGED <<collectorVars, serverVars, subscriptionVars, skipped>>
  BY DEF Receive
<1>2. /\ parts' = parts /\ partCount' = partCount /\ charted' = charted
      /\ snapshotSkipped' = snapshotSkipped /\ node' = node
      /\ made' = made /\ samples' = samples /\ sample' = sample /\ writing' = writing
      /\ subscribed' = subscribed /\ opened' = opened /\ batch' = batch /\ items' = items
      /\ dropped' = dropped /\ skipped' = skipped /\ UNCHANGED collectorVars
  BY <1>1 DEF collectorVars, serverVars, subscriptionVars
<1>3. /\ QueuesInv /\ QueuesTypeOK /\ FlowInOrder /\ MachineTypeOK /\ SourceInOrder
      /\ PublishedInTurn /\ LatestIsLast /\ CountIsKept
  BY DEF FlowInv, QueuesInv
<1>4. /\ wire \in Seq(Updates) /\ wire' \in Seq(Updates) /\ u \in Updates
  BY <1>1, <1>3, TailFacts DEF QueuesTypeOK
<1>5. subscribed
  BY <1>1, <1>3 DEF QueuesInv, Unopened
<1> HIDE DEF u
<1>6. MachineTypeOK' /\ SourceInOrder' /\ PublishedInTurn'
  BY <1>2, <1>3 DEF MachineTypeOK, Tagged, SourceInOrder, Unwritten, PublishedInTurn, NewestPart
<1>7. CollectorIInv'
  BY <1>2, <1>3, StutterIInv DEF QueuesInv
<1>8. Recorded' = Recorded /\ Handled' = Handled /\ NewestPart' = NewestPart
  BY <1>2 DEF Recorded, Handled, NewestPart
<1>9. /\ client' = [queue |-> client'.queue, latest |-> client'.latest,
                    dropped |-> client'.dropped]
      /\ client'.queue \in Seq(Updates) /\ Len(client'.queue) <= MaxQueue
      /\ client'.latest = Latest(client, u)
      /\ client'.dropped \subseteq Updates /\ client.dropped \subseteq client'.dropped
  BY <1>1, <1>3, <1>4, EnqueueFacts
<1>10. /\ client'.latest = [t \in DOMAIN client'.latest |-> client'.latest[t]]
       /\ DOMAIN client'.latest = DOMAIN client.latest \cup {u.tag}
       /\ DOMAIN client'.latest \subseteq Tag
       /\ client'.latest[u.tag] = u.value
       /\ \A t \in DOMAIN client.latest : t # u.tag => client'.latest[t] = client.latest[t]
       /\ \A t \in DOMAIN client'.latest : client'.latest[t] \in Value(t)
  BY <1>3, <1>4, <1>9, LatestFacts
<1>11. QueuesTypeOK'
  <2>1. /\ batch' \in Seq(Tag) /\ DOMAIN items' = Tag
        /\ \A i, j \in 1 .. Len(batch') : batch'[i] = batch'[j] => i = j
        /\ \A t \in Tag : items'[t] \in Seq(Value(t)) /\ Len(items'[t]) <= QueueSize
        /\ \A t \in Tag : items'[t] # <<>> <=> \E i \in 1 .. Len(batch') : batch'[i] = t
        /\ subscribed' \in BOOLEAN /\ opened' \in BoreValue /\ skipped' \subseteq BoreValue
        /\ dropped' \subseteq BoreValue /\ Recorded' \subseteq BoreValue
    BY <1>2, <1>3, <1>8 DEF QueuesTypeOK
  <2> QED BY <2>1, <1>4, <1>9, <1>10 DEF QueuesTypeOK
<1>12. Unopened'
  BY <1>2, <1>5 DEF Unopened
<1>13. \A t : Done(t)' = Done(t) /\ Waiting(t)' = Waiting(t) /\ ItemsInOrder(t)' = ItemsInOrder(t)
  BY <1>2, <1>8 DEF Done, Waiting, ItemsInOrder
<1>14. ASSUME NEW t
       PROVE  /\ Ranks(Room, t) \subseteq Buffered(t)
              /\ u.tag # t => Buffered(t)' = Ranks(Room, t)
              /\ u.tag = t => Buffered(t)' = Ranks(Room, t) \cup {Rank(t, u.value)}
              /\ /\ InOrder(client.queue, t)
                 /\ u.tag = t => \A x \in Ranks(Room, t) : x < Rank(t, u.value)
                 => InOrder(client'.queue, t)
  BY <1>1, <1>3, <1>4, EnqueueRanks
<1>15. ASSUME NEW t
       PROVE  /\ Sent(t)' \subseteq Sent(t)
              /\ u.tag # t => Sent(t)' = Sent(t)
              /\ u.tag = t => /\ Rank(t, u.value) \in Sent(t)
                              /\ Sent(t) = Sent(t)' \cup {Rank(t, u.value)}
              /\ InOrder(wire, t) => /\ InOrder(wire', t)
                                     /\ u.tag = t => \A y \in Sent(t)' : Rank(t, u.value) < y
  BY <1>1, <1>4, TailRanks DEF Sent, u
<1>16. ASSUME NEW t \in Tag
       PROVE  /\ Done(t) \subseteq Int /\ Buffered(t) \subseteq Int
              /\ Sent(t) \subseteq Int /\ Waiting(t) \subseteq Int
              /\ Rank(t, node[t]) \in Int
  BY <1>3, RankSets, RankType DEF QueuesInv, CollectorIInv, CollectorTypeOK, MachineTypeOK, Tagged
<1>17. ASSUME NEW t \in Ordered
       PROVE  /\ Chain(Done(t)', Buffered(t)', Sent(t)', Waiting(t)', Rank(t, node'[t]))
              /\ ItemsInOrder(t)' /\ InOrder(wire', t) /\ InOrder(client'.queue, t)
  <2>1. t \in Tag
    BY DEF Ordered
  <2>2. /\ Chain(Done(t), Buffered(t), Sent(t), Waiting(t), Rank(t, node[t]))
        /\ ItemsInOrder(t) /\ InOrder(wire, t) /\ InOrder(client.queue, t)
    BY <1>3 DEF FlowInOrder
  <2>3. CASE u.tag = t
    <3>1. /\ Rank(t, u.value) \in Sent(t) /\ Sent(t)' \in SUBSET Int /\ Sent(t)' \subseteq Sent(t)
          /\ \A y \in Sent(t)' : Rank(t, u.value) < y /\ InOrder(wire', t)
      BY <2>1, <2>2, <2>3, <1>15, <1>16
    <3>2. Buffered(t)' \in SUBSET Int /\ Buffered(t)' \subseteq Buffered(t) \cup {Rank(t, u.value)}
      BY <3>1, <2>1, <2>3, <1>14, <1>16
    <3>4. Chain(Done(t), Buffered(t)', Sent(t)', Waiting(t), Rank(t, node[t]))
      BY <3>1, <3>2, <2>1, <2>2, <1>16 DEF Chain, Precede
    <3>5. \A x \in Ranks(Room, t) : x < Rank(t, u.value)
      BY <3>1, <2>2, <1>14 DEF Chain, Precede
    <3>6. InOrder(client'.queue, t)
      BY <3>5, <2>2, <1>14
    <3>7. InOrder(wire', t)
      BY <2>2, <1>15
    <3> QED BY <3>4, <3>6, <3>7, <2>2, <1>2, <1>13
  <2>4. CASE u.tag # t
    <3>1. Sent(t)' = Sent(t) /\ InOrder(wire', t) /\ InOrder(client'.queue, t)
      BY <2>2, <2>4, <1>14, <1>15
    <3>2. Buffered(t)' \in SUBSET Int /\ Buffered(t)' \subseteq Buffered(t)
      BY <2>1, <2>4, <1>14, <1>16
    <3>3. Chain(Done(t), Buffered(t)', Sent(t), Waiting(t), Rank(t, node[t]))
      BY <3>2, <2>1, <2>2, <1>16 DEF Chain, Precede
    <3> QED BY <3>1, <3>3, <2>2, <1>2, <1>13
  <2> QED BY <2>3, <2>4
<1>18. FlowInOrder'
  BY <1>2, <1>3, <1>17 DEF FlowInOrder, RecordedInOrder, Ordered
<1>19. NewestIsKept'
  BY <1>3, ReceiveKeepsNewest
<1>20. /\ \E i \in DOMAIN client'.queue : client'.queue[i] = u
       /\ \A i \in DOMAIN client'.queue :
            \/ client'.queue[i] = u
            \/ \E j \in DOMAIN client.queue : client'.queue[i] = client.queue[j]
       /\ \A j \in DOMAIN client.queue :
            \/ client.queue[j] \in client'.dropped
            \/ \E i \in DOMAIN client'.queue : client'.queue[i] = client.queue[j]
  BY <1>1, <1>3, <1>4, EnqueuePlaces
<1>21. LatestIsLast'
  <2> SUFFICES ASSUME NEW i \in DOMAIN client'.queue, NEW t, t = client'.queue[i].tag
               PROVE  /\ t \in DOMAIN client'.latest
                      /\ t \in Ordered =>
                           Rank(t, client'.queue[i].value) <= Rank(t, client'.latest[t])
    BY DEF LatestIsLast, Ordered
  <2>1. CASE client'.queue[i] = u
    <3>1. t = u.tag /\ client'.latest[t] = u.value /\ Rank(t, u.value) \in Int
      BY <2>1, <1>4, <1>10, UpdatesAre
    <3> QED BY <3>1, <2>1, <1>10
  <2>2. ASSUME NEW j \in DOMAIN client.queue, client'.queue[i] = client.queue[j]
        PROVE  /\ t \in DOMAIN client'.latest
               /\ t \in Ordered =>
                    Rank(t, client'.queue[i].value) <= Rank(t, client'.latest[t])
    <3>1. /\ t \in DOMAIN client.latest
          /\ t \in Ordered => Rank(t, client.queue[j].value) <= Rank(t, client.latest[t])
      BY <2>2, <1>3 DEF LatestIsLast
    <3>2. CASE t # u.tag
      BY <3>1, <3>2, <2>2, <1>10
    <3>3. CASE t = u.tag
      <4>1. t \in DOMAIN client'.latest /\ client'.latest[t] = u.value
        BY <3>3, <1>10
      <4>2. ASSUME t \in Ordered
            PROVE  Rank(t, client.queue[j].value) <= Rank(t, u.value)
        <5>1. t \in Tag /\ Precede(Buffered(t), Sent(t))
          BY <4>2, <1>3 DEF FlowInOrder, Chain, Ordered
        <5>2. Rank(t, client.queue[j].value) \in Buffered(t)
          BY <2>2 DEF Buffered, Ranks
        <5>3. Rank(t, u.value) \in Sent(t)
          BY <3>3, <1>15
        <5> QED BY <5>1, <5>2, <5>3, <1>16 DEF Precede
      <4> QED BY <4>1, <4>2, <2>2
    <3> QED BY <3>2, <3>3
  <2> QED BY <2>1, <2>2, <1>20
<1>22. CountIsKept'
  <2> SUFFICES ASSUME "PartCount" \in DOMAIN client'.latest,
                      NEW n, n = client'.latest["PartCount"]
               PROVE  \/ partCount = n
                      \/ \E i \in DOMAIN client'.queue : client'.queue[i] = Update("PartCount", n)
                      \/ Update("PartCount", n) \in client'.dropped
    BY <1>2 DEF CountIsKept
  <2>1. CASE u.tag = "PartCount"
    <3>1. u = Update("PartCount", n)
      BY <2>1, <1>4, <1>10, UpdatesAre
    <3> QED BY <3>1, <1>20
  <2>2. CASE u.tag # "PartCount"
    <3>1. "PartCount" \in DOMAIN client.latest /\ client.latest["PartCount"] = n
      BY <2>2, <1>10
    <3>2. \/ partCount = n
          \/ \E i \in DOMAIN client.queue : client.queue[i] = Update("PartCount", n)
          \/ Update("PartCount", n) \in client.dropped
      BY <3>1, <1>3 DEF CountIsKept
    <3> QED BY <3>2, <1>9, <1>20
  <2> QED BY <2>1, <2>2
<1> DEFINE bore == "BoreDiameter"
           C == Done(bore) \cup Waiting(bore)
<1>23. /\ Places' = C \cup Buffered(bore)' \cup Sent(bore)'
       /\ Places = C \cup Buffered(bore) \cup Sent(bore)
       /\ Places' \subseteq Places
       /\ Places' = C \cup Ranks(Room, bore) \cup Sent(bore)
  <2>1. /\ Places' = C \cup Buffered(bore)' \cup Sent(bore)'
        /\ Places = C \cup Buffered(bore) \cup Sent(bore)
    BY <1>13 DEF Places
  <2>2. Buffered(bore)' \cup Sent(bore)' = Ranks(Room, bore) \cup Sent(bore)
    BY <1>14, <1>15
  <2>3. Ranks(Room, bore) \subseteq Buffered(bore)
    BY <1>14
  <2> QED BY <2>1, <2>2, <2>3
<1>24. HandledAreDistinct'
  BY <1>2, <1>3, <1>8, <1>23 DEF QueuesInv, HandledAreDistinct
<1>25. PartsTraced'
  <2> SUFFICES ASSUME Exact
               PROVE  /\ \A n \in opened.part .. NewestPart : n \in Places' \cup Numbers(Dropped')
                      /\ \A n \in Numbers(Dropped') : n \notin Places' /\ n <= NewestPart
    BY <1>2, <1>3, <1>5, <1>8 DEF QueuesInv, PartsTraced, Numbers, Exact
  <2>1. /\ \A n \in opened.part .. NewestPart : n \in Places \cup Numbers(Dropped)
        /\ \A n \in Numbers(Dropped) : n \notin Places /\ n <= NewestPart
    BY <1>3, <1>5 DEF QueuesInv, PartsTraced
  <2>2. bore \in Ordered
    BY TagFacts DEF Exact, Ordered
  <2>3. /\ Chain(Done(bore), Buffered(bore), Sent(bore), Waiting(bore), NewestPart)
        /\ InOrder(client.queue, bore) /\ bore \in Tag
    BY <2>2, <1>3 DEF FlowInOrder, Rank, NewestPart, Ordered
  <2>4. \/ /\ Numbers(Dropped') = Numbers(Dropped) /\ Ranks(Room, bore) = Buffered(bore)
        \/ \E n \in Int :
             /\ Numbers(Dropped') = Numbers(Dropped) \cup {n}
             /\ Buffered(bore) = Ranks(Room, bore) \cup {n}
             /\ InOrder(client.queue, bore) => \A y \in Ranks(Room, bore) : n < y
    BY <1>1, <1>2, <1>3, <1>4, EnqueueDrops
  <2>5. CASE Numbers(Dropped') = Numbers(Dropped) /\ Ranks(Room, bore) = Buffered(bore)
    BY <2>1, <2>5, <1>23
  <2>6. ASSUME NEW n \in Int, Numbers(Dropped') = Numbers(Dropped) \cup {n},
               Buffered(bore) = Ranks(Room, bore) \cup {n}, \A y \in Ranks(Room, bore) : n < y
        PROVE  /\ \A m \in opened.part .. NewestPart : m \in Places' \cup Numbers(Dropped')
               /\ \A m \in Numbers(Dropped') : m \notin Places' /\ m <= NewestPart
    <3>1. n <= NewestPart
      BY <2>3, <2>6 DEF Chain
    <3>2. n \notin Done(bore) /\ n \notin Sent(bore) /\ n \notin Waiting(bore)
      BY <2>3, <2>6, <1>16 DEF Chain, Precede
    <3>3. n \notin Ranks(Room, bore)
      BY <2>6
    <3>4. n \notin Places'
      BY <3>2, <3>3, <1>23
    <3>5. Places \subseteq Places' \cup {n}
      BY <2>6, <1>23
    <3> QED BY <3>1, <3>4, <3>5, <2>1, <2>6, <1>23
  <2> QED BY <2>3, <2>4, <2>5, <2>6
<1> QED BY <1>6, <1>7, <1>11, <1>12, <1>18, <1>19, <1>21, <1>22, <1>24, <1>25
        DEF FlowInv, QueuesInv

-----------------------------------------------------------------------------
(* An update is handled *)

LEMMA HandleFacts ==
    ASSUME FlowInv, Handle, NEW u, u = Head(client.queue)
    PROVE  /\ client.queue # <<>> /\ u \in Updates /\ subscribed
           /\ client' = [queue |-> Tail(client.queue), latest |-> client.latest,
                         dropped |-> client.dropped]
           /\ client'.queue = Tail(client.queue) /\ client'.queue \in Seq(Updates)
           /\ Len(client'.queue) <= MaxQueue
           /\ client'.latest = client.latest /\ client'.dropped = client.dropped
           /\ node' = node /\ made' = made /\ samples' = samples /\ sample' = sample
           /\ writing' = writing /\ subscribed' = subscribed /\ opened' = opened
           /\ batch' = batch /\ items' = items /\ dropped' = dropped /\ wire' = wire
           /\ \A i \in DOMAIN client'.queue :
                \E j \in DOMAIN client.queue : client'.queue[i] = client.queue[j]
           /\ \A j \in DOMAIN client.queue :
                \/ client.queue[j] = u
                \/ \E i \in DOMAIN client'.queue : client'.queue[i] = client.queue[j]
           /\ u.tag = "Torque" => HandleOther /\ skipped' = skipped
           /\ u.tag = "PartCount" => HandlePartCount(u.value) /\ skipped' = skipped
           /\ u.tag = "BoreDiameter" =>
                /\ HandleChart(u.value)
                /\ skipped' = IF parts' = parts THEN skipped \cup {u.value} ELSE skipped
<1>1. /\ client.queue # <<>> /\ client' = [client EXCEPT !.queue = Tail(client.queue)]
      /\ UNCHANGED <<serverVars, subscriptionVars, wire>>
  BY DEF Handle, Take
<1>2. /\ client.queue \in Seq(Updates) /\ Len(client.queue) <= MaxQueue
      /\ client = [queue |-> client.queue, latest |-> client.latest, dropped |-> client.dropped]
      /\ MaxQueue \in Nat
  BY MaxQueueAssumption DEF FlowInv, QueuesInv, QueuesTypeOK
<1> DEFINE q == client.queue
<1>3. /\ u = q[1] /\ u \in Updates /\ Tail(q) \in Seq(Updates)
      /\ Len(q) \in Nat /\ Len(q) > 0 /\ Len(Tail(q)) = Len(q) - 1
      /\ DOMAIN Tail(q) = 1 .. Len(q) - 1 /\ DOMAIN q = 1 .. Len(q)
      /\ \A i \in 1 .. Len(q) - 1 : Tail(q)[i] = q[i + 1]
  BY <1>1, <1>2, TailFacts
<1>4. client' = [queue |-> Tail(q), latest |-> client.latest, dropped |-> client.dropped]
  BY <1>1, <1>2
<1>5. /\ client'.queue = Tail(q) /\ client'.latest = client.latest
      /\ client'.dropped = client.dropped
  BY <1>4
<1>6. \A i \in DOMAIN Tail(q) : \E j \in DOMAIN q : Tail(q)[i] = q[j]
  <2>1. \A i \in 1 .. Len(q) - 1 : i + 1 \in 1 .. Len(q)
    BY <1>3
  <2> QED BY <2>1, <1>3
<1>7. ASSUME NEW j \in DOMAIN q, q[j] # u
      PROVE  \E i \in DOMAIN Tail(q) : Tail(q)[i] = q[j]
  <2>1. j # 1
    BY <1>3, <1>7
  <2>2. j - 1 \in 1 .. Len(q) - 1 /\ (j - 1) + 1 = j
    BY <2>1, <1>3, <1>7
  <2> QED BY <2>2, <1>3
<1>8. subscribed
  BY <1>1 DEF FlowInv, QueuesInv, Unopened
<1>9. /\ node' = node /\ made' = made /\ samples' = samples /\ sample' = sample
      /\ writing' = writing /\ subscribed' = subscribed /\ opened' = opened
      /\ batch' = batch /\ items' = items /\ dropped' = dropped /\ wire' = wire
  BY <1>1 DEF serverVars, subscriptionVars
<1>10. u.tag = "Torque" => HandleOther /\ skipped' = skipped
  BY DEF Handle
<1>11. u.tag = "PartCount" => HandlePartCount(u.value) /\ skipped' = skipped
  BY DEF Handle
<1>12. u.tag = "BoreDiameter" =>
         /\ HandleChart(u.value)
         /\ skipped' = IF parts' = parts THEN skipped \cup {u.value} ELSE skipped
  BY DEF Handle
<1>13. Len(Tail(q)) <= MaxQueue
  BY <1>2, <1>3
<1>14. /\ client'.queue \in Seq(Updates) /\ Len(client'.queue) <= MaxQueue
       /\ \A i \in DOMAIN client'.queue :
            \E j \in DOMAIN client.queue : client'.queue[i] = client.queue[j]
       /\ \A j \in DOMAIN client.queue :
            \/ client.queue[j] = u
            \/ \E i \in DOMAIN client'.queue : client'.queue[i] = client.queue[j]
  BY <1>3, <1>5, <1>6, <1>7, <1>13
<1> HIDE DEF q
<1>15. /\ client.queue # <<>> /\ u \in Updates /\ client'.queue = Tail(client.queue)
       /\ client' = [queue |-> Tail(client.queue), latest |-> client.latest,
                     dropped |-> client.dropped]
  BY <1>1, <1>3, <1>4, <1>5 DEF q
<1> QED BY <1>5, <1>8, <1>9, <1>10, <1>11, <1>12, <1>14, <1>15

\* Whatever the collector does with it, the update leaves the buffer in order.
LEMMA HandledFlowInv ==
    ASSUME FlowInv, Handle, NEW u, u = Head(client.queue),
           CollectorIInv', Recorded' \subseteq BoreValue, skipped' \subseteq BoreValue,
           \A t \in Tag : IF u.tag = t /\ t # "Torque"
                          THEN /\ Done(t)' \subseteq Done(t) \cup {Rank(t, u.value)}
                               /\ Rank(t, u.value) \in Done(t)'
                          ELSE Done(t)' = Done(t),
           Done("BoreDiameter") \subseteq Done("BoreDiameter")',
           "BoreDiameter" \in Ordered => RecordedInOrder',
           Exact => Numbers(Recorded') \cap Numbers(skipped') = {},
           CountIsKept', Places' = Places => HandledAreDistinct'
    PROVE  FlowInv'
<1> DEFINE bore == "BoreDiameter"
<1>1. /\ client.queue # <<>> /\ u \in Updates /\ subscribed
      /\ client' = [queue |-> Tail(client.queue), latest |-> client.latest,
                    dropped |-> client.dropped]
      /\ client'.queue = Tail(client.queue) /\ client'.queue \in Seq(Updates)
      /\ Len(client'.queue) <= MaxQueue
      /\ client'.latest = client.latest /\ client'.dropped = client.dropped
      /\ node' = node /\ made' = made /\ samples' = samples /\ sample' = sample
      /\ writing' = writing /\ subscribed' = subscribed /\ opened' = opened
      /\ batch' = batch /\ items' = items /\ dropped' = dropped /\ wire' = wire
      /\ \A i \in DOMAIN client'.queue :
           \E j \in DOMAIN client.queue : client'.queue[i] = client.queue[j]
  BY HandleFacts
<1>2. /\ QueuesInv /\ QueuesTypeOK /\ FlowInOrder /\ MachineTypeOK /\ SourceInOrder
      /\ PublishedInTurn /\ LatestIsLast /\ NewestIsKept /\ client.queue \in Seq(Updates)
  BY DEF FlowInv, QueuesInv, QueuesTypeOK
<1>3. MachineTypeOK' /\ SourceInOrder' /\ PublishedInTurn'
  BY <1>1, <1>2 DEF MachineTypeOK, Tagged, SourceInOrder, Unwritten, PublishedInTurn, NewestPart
<1>4. QueuesTypeOK'
  <2>1. /\ batch' \in Seq(Tag) /\ DOMAIN items' = Tag
        /\ \A i, j \in 1 .. Len(batch') : batch'[i] = batch'[j] => i = j
        /\ \A t \in Tag : items'[t] \in Seq(Value(t)) /\ Len(items'[t]) <= QueueSize
        /\ \A t \in Tag : items'[t] # <<>> <=> \E i \in 1 .. Len(batch') : batch'[i] = t
        /\ subscribed' \in BOOLEAN /\ opened' \in BoreValue
        /\ dropped' \subseteq BoreValue /\ wire' \in Seq(Updates)
    BY <1>1, <1>2 DEF QueuesTypeOK
  <2>2. /\ client' = [queue |-> client'.queue, latest |-> client'.latest,
                      dropped |-> client'.dropped]
        /\ client'.latest = [t \in DOMAIN client'.latest |-> client'.latest[t]]
        /\ DOMAIN client'.latest \subseteq Tag
        /\ \A t \in DOMAIN client'.latest : client'.latest[t] \in Value(t)
        /\ client'.dropped \subseteq Updates
    BY <1>1, <1>2 DEF QueuesTypeOK
  <2> QED BY <2>1, <2>2, <1>1 DEF QueuesTypeOK
<1>5. Unopened'
  BY <1>1 DEF Unopened
<1>6. \A t : Sent(t)' = Sent(t) /\ Waiting(t)' = Waiting(t) /\ ItemsInOrder(t)' = ItemsInOrder(t)
  BY <1>1 DEF Sent, Waiting, ItemsInOrder
<1>7. ASSUME NEW t
      PROVE  /\ Buffered(t)' \subseteq Buffered(t)
             /\ u.tag # t => Buffered(t)' = Buffered(t)
             /\ u.tag = t => /\ Rank(t, u.value) \in Buffered(t)
                             /\ Buffered(t) = Buffered(t)' \cup {Rank(t, u.value)}
             /\ InOrder(client.queue, t) =>
                  /\ InOrder(client'.queue, t)
                  /\ u.tag = t => \A y \in Buffered(t)' : Rank(t, u.value) < y
  BY <1>1, <1>2, TailRanks DEF Buffered
<1>8. ASSUME NEW t \in Tag
      PROVE  /\ Done(t) \subseteq Int /\ Buffered(t) \subseteq Int
             /\ Sent(t) \subseteq Int /\ Waiting(t) \subseteq Int
             /\ Rank(t, node[t]) \in Int
  BY <1>2, RankSets, RankType DEF QueuesInv, CollectorIInv, CollectorTypeOK, MachineTypeOK, Tagged
<1>9. ASSUME NEW t \in Ordered
      PROVE  /\ Chain(Done(t)', Buffered(t)', Sent(t)', Waiting(t)', Rank(t, node'[t]))
             /\ ItemsInOrder(t)' /\ InOrder(wire', t) /\ InOrder(client'.queue, t)
  <2>1. t \in Tag
    BY DEF Ordered
  <2>2. /\ Chain(Done(t), Buffered(t), Sent(t), Waiting(t), Rank(t, node[t]))
        /\ ItemsInOrder(t) /\ InOrder(wire, t) /\ InOrder(client.queue, t)
    BY <1>2 DEF FlowInOrder
  <2>3. Buffered(t)' \in SUBSET Int /\ Buffered(t)' \subseteq Buffered(t)
    BY <2>1, <1>7, <1>8
  <2>4. CASE u.tag = t
    <3>1. /\ Rank(t, u.value) \in Buffered(t) /\ \A y \in Buffered(t)' : Rank(t, u.value) < y
      BY <2>2, <2>4, <1>7
    <3>2. Done(t)' \in SUBSET Int /\ Done(t)' \subseteq Done(t) \cup {Rank(t, u.value)}
      <4>1. Done(t)' \subseteq Done(t) \cup {Rank(t, u.value)}
        BY <2>1, <2>4
      <4> QED BY <4>1, <3>1, <2>1, <1>8
    <3>4. Chain(Done(t)', Buffered(t)', Sent(t), Waiting(t), Rank(t, node[t]))
      BY <3>1, <3>2, <2>1, <2>2, <2>3, <1>8 DEF Chain, Precede
    <3> QED BY <3>4, <2>2, <1>1, <1>6, <1>7
  <2>5. CASE u.tag # t
    <3>1. Done(t)' = Done(t)
      BY <2>1, <2>5
    <3>2. Chain(Done(t), Buffered(t)', Sent(t), Waiting(t), Rank(t, node[t]))
      BY <2>1, <2>2, <2>3, <1>8 DEF Chain, Precede
    <3> QED BY <3>1, <3>2, <2>2, <1>1, <1>6, <1>7
  <2> QED BY <2>4, <2>5
<1>10. FlowInOrder'
  BY <1>9 DEF FlowInOrder, Ordered
<1>11. NewestIsKept'
  <2>1. \A t \in Tag : LastSent(t)' <=> LastSent(t)
    BY <1>1 DEF LastSent
  <2> QED BY <2>1, <1>1, <1>2 DEF NewestIsKept
<1>12. LatestIsLast'
  <2> SUFFICES ASSUME NEW i \in DOMAIN client'.queue, NEW t, t = client'.queue[i].tag
               PROVE  /\ t \in DOMAIN client'.latest
                      /\ t \in Ordered =>
                           Rank(t, client'.queue[i].value) <= Rank(t, client'.latest[t])
    BY DEF LatestIsLast, Ordered
  <2>1. PICK j \in DOMAIN client.queue : client'.queue[i] = client.queue[j]
    BY <1>1
  <2> QED BY <2>1, <1>1, <1>2 DEF LatestIsLast
<1>13. Places' = Places
  <2>1. /\ Places' = Done(bore)' \cup Buffered(bore)' \cup Sent(bore) \cup Waiting(bore)
        /\ Places = Done(bore) \cup Buffered(bore) \cup Sent(bore) \cup Waiting(bore)
    BY <1>6 DEF Places
  <2>2. CASE u.tag = bore
    <3>1. /\ Done(bore)' \subseteq Done(bore) \cup {Rank(bore, u.value)}
          /\ Rank(bore, u.value) \in Done(bore)' /\ Done(bore) \subseteq Done(bore)'
      BY <2>2, TagFacts
    <3>2. Buffered(bore) = Buffered(bore)' \cup {Rank(bore, u.value)}
      BY <2>2, <1>7
    <3> QED BY <3>1, <3>2, <2>1
  <2>3. CASE u.tag # bore
    <3>1. Done(bore)' = Done(bore) /\ Buffered(bore)' = Buffered(bore)
      BY <2>3, <1>7, TagFacts
    <3> QED BY <3>1, <2>1
  <2> QED BY <2>2, <2>3
<1>14. Dropped' = Dropped /\ NewestPart' = NewestPart
  BY <1>1 DEF Dropped, NewestPart
<1>15. PartsTraced'
  BY <1>1, <1>2, <1>13, <1>14 DEF QueuesInv, PartsTraced, Exact, Numbers
<1> QED BY <1>3, <1>4, <1>5, <1>10, <1>11, <1>12, <1>13, <1>15 DEF FlowInv, QueuesInv

LEMMA OtherFlowInv ==
    ASSUME FlowInv, Handle, NEW u, u = Head(client.queue), u.tag = "Torque"
    PROVE  FlowInv'
<1>1. /\ u \in Updates /\ HandleOther /\ skipped' = skipped /\ subscribed' = subscribed
      /\ client'.latest = client.latest /\ client'.dropped = client.dropped /\ opened' = opened
      /\ node' = node
      /\ \A j \in DOMAIN client.queue :
           \/ client.queue[j] = u
           \/ \E i \in DOMAIN client'.queue : client'.queue[i] = client.queue[j]
  BY HandleFacts
<1>2. /\ partCount' = partCount /\ parts' = parts /\ charted' = charted
      /\ snapshotSkipped' = snapshotSkipped
  BY <1>1 DEF HandleOther
<1>3. QueuesInv /\ QueuesTypeOK /\ FlowInOrder /\ CollectorIInv /\ CountIsKept
  BY DEF FlowInv, QueuesInv
<1>4. Recorded' = Recorded /\ Handled' = Handled /\ NewestPart' = NewestPart
  BY <1>1, <1>2 DEF Recorded, Handled, NewestPart
<1>5. \A t : Done(t)' = Done(t)
  BY <1>2, <1>4 DEF Done
<1>6. CollectorIInv'
  BY <1>1, <1>3, UnchartedIInv
<1>7. /\ Recorded' \subseteq BoreValue /\ skipped' \subseteq BoreValue
      /\ "BoreDiameter" \in Ordered => RecordedInOrder'
      /\ Exact => Numbers(Recorded') \cap Numbers(skipped') = {}
      /\ Places' = Places => HandledAreDistinct'
  BY <1>1, <1>2, <1>3, <1>4
     DEF QueuesInv, QueuesTypeOK, FlowInOrder, RecordedInOrder, PartsTraced, HandledAreDistinct
<1>8. CountIsKept'
  <2>1. \A n : u # Update("PartCount", n)
    BY DEF Update
  <2> QED BY <2>1, <1>1, <1>2, <1>3 DEF CountIsKept
<1> QED BY <1>5, <1>6, <1>7, <1>8, HandledFlowInv

\* A PartCount that is handled is newer than the one held before.
LEMMA CountFlowInv ==
    ASSUME FlowInv, Handle, NEW u, u = Head(client.queue), u.tag = "PartCount"
    PROVE  FlowInv'
<1>1. /\ u \in Updates /\ HandlePartCount(u.value) /\ skipped' = skipped
      /\ client.queue # <<>> /\ subscribed' = subscribed /\ opened' = opened /\ node' = node
      /\ client'.latest = client.latest /\ client'.dropped = client.dropped
      /\ \A j \in DOMAIN client.queue :
           \/ client.queue[j] = u
           \/ \E i \in DOMAIN client'.queue : client'.queue[i] = client.queue[j]
  BY HandleFacts
<1>2. /\ partCount' = u.value /\ parts' = parts /\ charted' = charted
      /\ snapshotSkipped' = snapshotSkipped
  BY <1>1 DEF HandlePartCount
<1>3. /\ QueuesInv /\ QueuesTypeOK /\ FlowInOrder /\ CollectorIInv /\ CountIsKept /\ LatestIsLast
      /\ client.queue \in Seq(Updates) /\ partCount \in Int
  BY DEF FlowInv, QueuesInv, QueuesTypeOK, CollectorIInv, CollectorTypeOK
<1>4. Recorded' = Recorded /\ Handled' = Handled /\ NewestPart' = NewestPart
  BY <1>1, <1>2 DEF Recorded, Handled, NewestPart
<1>5. u.value \in Int /\ Rank("PartCount", u.value) = u.value
  BY <1>1, UpdatesAre DEF Rank
<1>6. CollectorIInv'
  BY <1>1, <1>3, <1>5, UnchartedIInv
<1>7. \A t \in Tag : IF u.tag = t /\ t # "Torque"
                     THEN /\ Done(t)' \subseteq Done(t) \cup {Rank(t, u.value)}
                          /\ Rank(t, u.value) \in Done(t)'
                     ELSE Done(t)' = Done(t)
  <2>1. Done("PartCount")' = {Rank("PartCount", u.value)}
    BY <1>2, <1>5 DEF Done
  <2>2. Done("BoreDiameter")' = Done("BoreDiameter") /\ Done("Torque")' = Done("Torque")
    BY <1>4 DEF Done
  <2> QED BY <2>1, <2>2, TagFacts
<1>8. Done("BoreDiameter") \subseteq Done("BoreDiameter")'
  BY <1>4 DEF Done
<1>9. /\ Recorded' \subseteq BoreValue /\ skipped' \subseteq BoreValue
      /\ "BoreDiameter" \in Ordered => RecordedInOrder'
      /\ Exact => Numbers(Recorded') \cap Numbers(skipped') = {}
      /\ Places' = Places => HandledAreDistinct'
  BY <1>1, <1>2, <1>3, <1>4
     DEF QueuesInv, QueuesTypeOK, FlowInOrder, RecordedInOrder, PartsTraced, HandledAreDistinct
<1>10. CountIsKept'
  <2> SUFFICES ASSUME "PartCount" \in DOMAIN client.latest,
                      NEW n, n = client.latest["PartCount"]
               PROVE  \/ u.value = n
                      \/ \E i \in DOMAIN client'.queue : client'.queue[i] = Update("PartCount", n)
                      \/ Update("PartCount", n) \in client.dropped
    BY <1>1, <1>2 DEF CountIsKept
  <2>1. CASE partCount = n
    <3>1. 1 \in DOMAIN client.queue /\ client.queue[1] = u
      BY <1>1, <1>3, TailFacts
    <3>2. "PartCount" \in Ordered
      BY TagFacts DEF Ordered
    <3>3. u.value <= n
      BY <3>1, <3>2, <1>3, <1>5 DEF LatestIsLast, Rank
    <3>4. Precede(Done("PartCount"), Buffered("PartCount"))
      BY <3>2, <1>3 DEF FlowInOrder, Chain
    <3>5. partCount \in Done("PartCount")
      BY DEF Done
    <3>6. u.value \in Buffered("PartCount")
      BY <3>1, <1>5 DEF Buffered, Ranks
    <3>7. partCount < u.value
      BY <3>4, <3>5, <3>6 DEF Precede
    <3> QED BY <3>3, <3>7, <2>1, <1>3, <1>5
  <2>2. ASSUME NEW j \in DOMAIN client.queue, client.queue[j] = Update("PartCount", n)
        PROVE  \/ u.value = n
               \/ \E i \in DOMAIN client'.queue : client'.queue[i] = Update("PartCount", n)
    <3>1. CASE client.queue[j] = u
      BY <3>1, <2>2 DEF Update
    <3>2. CASE \E i \in DOMAIN client'.queue : client'.queue[i] = client.queue[j]
      BY <3>2, <2>2
    <3> QED BY <3>1, <3>2, <1>1
  <2> QED BY <2>1, <2>2, <1>3 DEF CountIsKept
<1> QED BY <1>6, <1>7, <1>8, <1>9, <1>10, HandledFlowInv

\* A reading is skipped or recorded.
LEMMA ReadingOutcome ==
    ASSUME CollectorIInv, NEW v \in Reading, HandleChart(v),
           skipped' = IF parts' = parts THEN skipped \cup {v} ELSE skipped
    PROVE  /\ CollectorIInv' /\ partCount' = partCount
           /\ charted \in Nat /\ charted' = charted + 1
           /\ Handled' = Handled \cup {v}
           /\ SkipInitial => snapshotSkipped'
           /\ \/ parts' = parts /\ skipped' = skipped \cup {v} /\ Recorded' = Recorded
              \/ /\ parts \in Seq(Part)
                 /\ \E p \in Part : p.value = v /\ parts' = Append(parts, p)
                 /\ skipped' = skipped /\ Recorded' = Recorded \cup {v}
                 /\ SkipInitial => snapshotSkipped
<1>1. /\ charted' = charted + 1 /\ partCount' = partCount
      /\ SkipOpening \/ SkipWarmup \/ RecordPart(v)
  BY DEF HandleChart
<1>2. /\ parts \in Seq(Part) /\ Len(parts) \in Nat /\ charted \in Nat /\ partCount \in Int
      /\ snapshotSkipped \in BOOLEAN
  BY DEF CollectorIInv, CollectorTypeOK
<1>3. CASE SkipOpening \/ SkipWarmup
  <2>1. CollectorIInv'
    BY <1>3, SkippedIInv
  <2>2. parts' = parts
    BY <1>3 DEF SkipOpening, SkipWarmup
  <2>3. SkipInitial => snapshotSkipped'
    BY <1>2, <1>3 DEF SkipOpening, SkipWarmup, WarmingUp, Opening
  <2>4. Recorded' = Recorded /\ skipped' = skipped \cup {v}
    BY <2>2 DEF Recorded
  <2> QED BY <2>1, <2>2, <2>3, <2>4, <1>1, <1>2 DEF Handled
<1>4. CASE RecordPart(v)
  <2>1. CollectorIInv'
    BY <1>4, RecordIInv
  <2> DEFINE p == [sequence |-> Len(parts), part_index |-> partCount, value |-> v]
  <2>2. parts' = Append(parts, p) /\ snapshotSkipped' = snapshotSkipped
    BY <1>4 DEF RecordPart
  <2>3. p \in Part /\ p.value = v
    BY <1>2 DEF Part
  <2> HIDE DEF p
  <2>4. /\ Len(parts') = Len(parts) + 1 /\ parts' \in Seq(Part)
        /\ \A i \in 1 .. Len(parts) : parts'[i] = parts[i]
        /\ parts'[Len(parts) + 1] = p
    BY <2>2, <2>3, <1>2, AppendFacts
  <2>5. parts' # parts
    BY <2>4, <1>2
  <2>6. SkipInitial => snapshotSkipped /\ snapshotSkipped'
    BY <2>2, <1>4 DEF RecordPart, Collecting, Opening
  <2>7. Recorded' = Recorded \cup {v}
    <3>1. DOMAIN parts = 1 .. Len(parts) /\ DOMAIN parts' = 1 .. Len(parts) + 1
      BY <2>4, <1>2
    <3>2. \A i \in 1 .. Len(parts) + 1 : i \in 1 .. Len(parts) \/ i = Len(parts) + 1
      BY <1>2
    <3>3. /\ \A i \in 1 .. Len(parts) : i \in 1 .. Len(parts) + 1
          /\ Len(parts) + 1 \in 1 .. Len(parts) + 1
      BY <1>2
    <3> QED BY <3>1, <3>2, <3>3, <2>3, <2>4 DEF Recorded
  <2>8. skipped' = skipped
    BY <2>5
  <2> QED BY <2>1, <2>2, <2>3, <2>6, <2>7, <2>8, <1>1, <1>2 DEF Handled
<1> QED BY <1>1, <1>3, <1>4

LEMMA RecordedStaysInOrder ==
    ASSUME RecordedInOrder, parts \in Seq(Part), NEW p \in Part, parts' = Append(parts, p),
           \A v \in Recorded : v.part < p.value.part
    PROVE  RecordedInOrder'
<1>1. /\ Len(parts) \in Nat /\ Len(parts') = Len(parts) + 1 /\ parts' \in Seq(Part)
      /\ \A i \in 1 .. Len(parts) : parts'[i] = parts[i]
      /\ parts'[Len(parts) + 1] = p
  BY AppendFacts
<1>2. DOMAIN parts = 1 .. Len(parts) /\ DOMAIN parts' = 1 .. Len(parts) + 1
  BY <1>1
<1> SUFFICES ASSUME NEW i \in 1 .. Len(parts) + 1, NEW j \in 1 .. Len(parts) + 1, i < j
             PROVE  parts'[i].value.part < parts'[j].value.part
  BY <1>2 DEF RecordedInOrder
<1>3. i \in 1 .. Len(parts) /\ parts'[i] = parts[i]
  BY <1>1
<1>4. CASE j = Len(parts) + 1
  <2>1. parts[i].value \in Recorded
    BY <1>2, <1>3 DEF Recorded
  <2> QED BY <2>1, <1>1, <1>3, <1>4
<1>5. CASE j \in 1 .. Len(parts)
  BY <1>1, <1>2, <1>3, <1>5 DEF RecordedInOrder
<1> QED BY <1>1, <1>4, <1>5

\* A reading that is handled comes after all that are.
LEMMA ReadingFlowInv ==
    ASSUME FlowInv, Handle, NEW u, u = Head(client.queue), u.tag = "BoreDiameter"
    PROVE  FlowInv'
<1> DEFINE v == u.value
           bore == "BoreDiameter"
<1>1. /\ u \in Updates /\ HandleChart(v) /\ client.queue # <<>>
      /\ skipped' = IF parts' = parts THEN skipped \cup {v} ELSE skipped
      /\ subscribed /\ subscribed' = subscribed /\ opened' = opened /\ node' = node
      /\ client'.latest = client.latest /\ client'.dropped = client.dropped
      /\ \A j \in DOMAIN client.queue :
           \/ client.queue[j] = u
           \/ \E i \in DOMAIN client'.queue : client'.queue[i] = client.queue[j]
  BY HandleFacts
<1>2. /\ QueuesInv /\ QueuesTypeOK /\ FlowInOrder /\ CollectorIInv /\ CountIsKept
      /\ client.queue \in Seq(Updates)
  BY DEF FlowInv, QueuesInv, QueuesTypeOK
<1>3. v \in BoreValue /\ v \in Reading /\ v.part \in Int /\ Rank(bore, v) = v.part
  BY <1>1, UpdatesAre, ReadingFacts DEF Value, Rank
<1>4. v.part \in Buffered(bore) /\ v.part \in Places
  <2>1. 1 \in DOMAIN client.queue /\ client.queue[1] = u
    BY <1>1, <1>2, TailFacts
  <2>2. v.part \in Buffered(bore)
    BY <2>1, <1>3 DEF Buffered, Ranks
  <2> QED BY <2>2 DEF Places
<1>5. /\ CollectorIInv' /\ partCount' = partCount
      /\ charted \in Nat /\ charted' = charted + 1
      /\ Handled' = Handled \cup {v}
      /\ SkipInitial => snapshotSkipped'
      /\ \/ parts' = parts /\ skipped' = skipped \cup {v} /\ Recorded' = Recorded
         \/ /\ parts \in Seq(Part)
            /\ \E p \in Part : p.value = v /\ parts' = Append(parts, p)
            /\ skipped' = skipped /\ Recorded' = Recorded \cup {v}
            /\ SkipInitial => snapshotSkipped
  BY <1>1, <1>2, <1>3, ReadingOutcome
<1> HIDE DEF v
<1>6. Recorded' \subseteq BoreValue /\ skipped' \subseteq BoreValue
  BY <1>2, <1>3, <1>5 DEF QueuesTypeOK
<1>7. Done(bore)' = Done(bore) \cup {v.part}
  BY <1>5 DEF Done, Numbers
<1>8. Done("PartCount")' = Done("PartCount") /\ Done("Torque")' = Done("Torque")
  BY <1>5 DEF Done
<1>9. \A t \in Tag : IF u.tag = t /\ t # "Torque"
                     THEN /\ Done(t)' \subseteq Done(t) \cup {Rank(t, u.value)}
                          /\ Rank(t, u.value) \in Done(t)'
                     ELSE Done(t)' = Done(t)
  BY <1>3, <1>7, <1>8, TagFacts DEF v
<1>10. ASSUME bore \in Ordered
       PROVE  \A x \in Handled : x.part < v.part
  <2>1. Precede(Done(bore), Buffered(bore))
    BY <1>2, <1>10 DEF FlowInOrder, Chain
  <2> QED BY <2>1, <1>4 DEF Precede, Done, Numbers
<1>11. ASSUME bore \in Ordered
       PROVE  RecordedInOrder'
  <2>1. RecordedInOrder
    BY <1>2, <1>11 DEF FlowInOrder
  <2>2. CASE parts' = parts
    BY <2>1, <2>2 DEF RecordedInOrder
  <2>3. CASE parts \in Seq(Part) /\ \E p \in Part : p.value = v /\ parts' = Append(parts, p)
    <3>1. PICK p \in Part : p.value = v /\ parts' = Append(parts, p)
      BY <2>3
    <3>2. \A x \in Recorded : x.part < p.value.part
      BY <3>1, <1>10, <1>11 DEF Handled
    <3> QED BY <3>1, <3>2, <2>1, <2>3, RecordedStaysInOrder
  <2> QED BY <2>2, <2>3, <1>5
<1>12. ASSUME Exact
       PROVE  Numbers(Recorded') \cap Numbers(skipped') = {}
  <2>1. Numbers(Recorded) \cap Numbers(skipped) = {}
    BY <1>2, <1>12 DEF QueuesInv, PartsTraced
  <2>2. bore \in Ordered
    BY <1>12, TagFacts DEF Exact, Ordered
  <2>3. v.part \notin Numbers(Recorded) /\ v.part \notin Numbers(skipped)
    BY <2>2, <1>3, <1>10 DEF Numbers, Handled
  <2>4. \/ Numbers(Recorded') = Numbers(Recorded) /\ Numbers(skipped') = Numbers(skipped) \cup {v.part}
        \/ Numbers(Recorded') = Numbers(Recorded) \cup {v.part} /\ Numbers(skipped') = Numbers(skipped)
    BY <1>5 DEF Numbers
  <2> QED BY <2>1, <2>3, <2>4
<1>13. CountIsKept'
  <2>1. \A n : u # Update("PartCount", n)
    BY DEF Update
  <2> QED BY <2>1, <1>1, <1>2, <1>5 DEF CountIsKept
<1>14. ASSUME Places' = Places
       PROVE  HandledAreDistinct'
  <2> SUFFICES ASSUME bore \in Ordered
               PROVE  /\ opened.part <= NewestPart /\ \A m \in Places : opened.part <= m
                      /\ ~ EarlySubscribe => opened.part >= 0
                      /\ charted' > 0 => \E x \in Handled' : x.part >= opened.part + charted' - 1
                      /\ SkipInitial => /\ snapshotSkipped' <=> charted' > 0
                                        /\ \A x \in Recorded' : x.part > opened.part
    BY <1>1, <1>14 DEF HandledAreDistinct, NewestPart, Ordered
  <2>1. /\ opened.part <= NewestPart /\ \A m \in Places : opened.part <= m
        /\ ~ EarlySubscribe => opened.part >= 0
        /\ charted > 0 => \E x \in Handled : x.part >= opened.part + charted - 1
        /\ SkipInitial => /\ snapshotSkipped <=> charted > 0
                          /\ \A x \in Recorded : x.part > opened.part
    BY <1>1, <1>2 DEF QueuesInv, HandledAreDistinct
  <2>2. opened.part \in Int
    BY <1>2, ReadingFacts DEF QueuesTypeOK
  <2>3. v.part >= opened.part + charted
    <3>1. CASE charted = 0
      BY <3>1, <2>1, <2>2, <1>3, <1>4
    <3>2. CASE charted > 0
      <4>1. PICK x \in Handled : x.part >= opened.part + charted - 1
        BY <3>2, <2>1
      <4>2. x.part < v.part /\ x.part \in Int
        BY <1>2, <1>10, ReadingFacts DEF QueuesTypeOK, Handled
      <4> QED BY <4>1, <4>2, <2>2, <1>3, <1>5
    <3> QED BY <3>1, <3>2, <1>5
  <2>4. \E x \in Handled' : x.part >= opened.part + charted' - 1
    <3>1. v \in Handled' /\ v.part >= opened.part + charted' - 1
      BY <2>2, <2>3, <1>3, <1>5
    <3> QED BY <3>1
  <2>5. ASSUME SkipInitial
        PROVE  \A x \in Recorded' : x.part > opened.part
    <3>1. CASE Recorded' = Recorded
      BY <3>1, <2>1, <2>5
    <3>2. CASE Recorded' = Recorded \cup {v} /\ snapshotSkipped
      <4>1. charted > 0
        BY <3>2, <2>1, <2>5
      <4>2. v.part > opened.part
        BY <4>1, <2>2, <2>3, <1>3, <1>5
      <4> QED BY <4>2, <3>2, <2>1, <2>5
    <3> QED BY <3>1, <3>2, <2>5, <1>5
  <2>6. charted' > 0
    BY <1>5
  <2> QED BY <2>1, <2>4, <2>5, <2>6, <1>5
<1>15. Done(bore) \subseteq Done(bore)'
  BY <1>7
<1> QED BY <1>5, <1>6, <1>9, <1>11, <1>12, <1>13, <1>14, <1>15, HandledFlowInv

LEMMA HandleFlowInv ==
    ASSUME FlowInv, Handle
    PROVE  FlowInv'
<1>1. PICK u : u = Head(client.queue)
  OBVIOUS
<1>2. u.tag \in Tag
  BY <1>1, HandleFacts, UpdatesAre
<1> QED BY <1>1, <1>2, TagFacts, OtherFlowInv, CountFlowInv, ReadingFlowInv

-----------------------------------------------------------------------------
(* The theorems *)

LEMMA NextFlowInv ==
    FlowInv /\ [PipelineNext]_vars => FlowInv'
<1> SUFFICES ASSUME FlowInv, [PipelineNext]_vars
             PROVE  FlowInv'
  OBVIOUS
<1>1. ASSUME NEW effect \in Effects, NEW completed \in BOOLEAN, Step(effect, completed)
      PROVE  FlowInv'
  BY <1>1, StepFlowInv
<1>2. CASE WriteTag
  BY <1>2, WriteTagFlowInv
<1>3. CASE Subscribe
  BY <1>3, SubscribeFlowInv
<1>4. CASE PublishInterval
  BY <1>4, PublishFlowInv
<1>5. CASE Receive
  BY <1>5, ReceiveFlowInv
<1>6. CASE Handle
  BY <1>6, HandleFlowInv
<1>7. CASE UNCHANGED vars
  BY <1>7, StutterFlowInv
<1> QED BY <1>1, <1>2, <1>3, <1>4, <1>5, <1>6, <1>7 DEF PipelineNext

\* The values of a tag keep their order and their newest one along all the
\* queues, in every state of every behaviour of the pipeline.
THEOREM FlowInvariance == PipelineSpec => []FlowInv
<1>1. PipelineInit => FlowInv
  BY InitFlowInv
<1>2. FlowInv /\ [PipelineNext]_vars => FlowInv'
  BY NextFlowInv
<1> QED BY <1>1, <1>2, PTL DEF PipelineSpec

\* The variables keep their types, no queue grows beyond its length, and the
\* batch names exactly the tags that have values waiting.
THEOREM PipelineTypeCorrect == PipelineSpec => []PipelineTypeOK
<1>1. FlowInv => PipelineTypeOK
  <2> SUFFICES ASSUME FlowInv
               PROVE  PipelineTypeOK
    OBVIOUS
  <2>1. CollectorTypeOK /\ QueuesTypeOK /\ MachineTypeOK /\ SourceInOrder
    BY DEF FlowInv, QueuesInv, CollectorIInv
  <2>2. /\ made \in Nat /\ samples \in Nat /\ samples <= MaxSamples /\ made <= samples
        /\ MaxSamples \in Nat
        /\ sample["BoreDiameter"] \in BoreValue /\ node["BoreDiameter"] \in BoreValue
        /\ sample["PartCount"] = made /\ node["PartCount"] \in 0 .. MaxSamples
        /\ writing \in Seq(Tag)
    BY <2>1, TagFacts, SamplesAssumption DEF MachineTypeOK, Tagged, Value
  <2>3. made \in 0 .. MaxSamples /\ samples \in 0 .. MaxSamples
    BY <2>2
  <2>4. node["PartCount"] \in 0 .. made
    <3>1. "PartCount" \in Ordered
      BY TagFacts DEF Ordered
    <3>2. node["PartCount"] = sample["PartCount"]
          \/ Rank("PartCount", node["PartCount"]) < Rank("PartCount", sample["PartCount"])
      BY <3>1, <2>1 DEF SourceInOrder
    <3> QED BY <3>2, <2>2 DEF Rank
  <2>5. \A s \in {sample, node} : s.BoreDiameter \in Reading /\ s.PartCount \in 0 .. made
    BY <2>2, <2>4, ReadingFacts
  <2>6. \A i \in DOMAIN writing : writing[i] \in Tag
    BY <2>2
  <2>7. /\ \A t \in Tag : Len(items[t]) <= QueueSize
        /\ Len(client.queue) <= MaxQueue
    BY <2>1 DEF QueuesTypeOK
  <2>8. {batch[i] : i \in DOMAIN batch} = {t \in Tag : items[t] # <<>>}
    <3>1. /\ batch \in Seq(Tag) /\ DOMAIN batch = 1 .. Len(batch)
          /\ \A i \in 1 .. Len(batch) : batch[i] \in Tag
      BY <2>1 DEF QueuesTypeOK
    <3>2. \A t \in Tag : items[t] # <<>> <=> \E i \in 1 .. Len(batch) : batch[i] = t
      BY <2>1 DEF QueuesTypeOK
    <3> QED BY <3>1, <3>2
  <2>9. Len(batch) <= Cardinality(Tag)
    BY <2>1, BatchIsShort
  <2> QED BY <2>1, <2>3, <2>5, <2>6, <2>7, <2>8, <2>9 DEF PipelineTypeOK
<1> QED BY <1>1, FlowInvariance, PTL

\* What the dashboard shows: the client's values are the server's once nothing
\* is under way, and the collector's PartCount is the client's unless the newer
\* one waits in the buffer or was dropped there.
THEOREM ShownIsCurrentCorrect == PipelineSpec => []ShownIsCurrent
<1>1. FlowInv => ShownIsCurrent
  <2> SUFFICES ASSUME FlowInv
               PROVE  ShownIsCurrent
    OBVIOUS
  <2>1. QueuesTypeOK /\ MachineTypeOK /\ NewestIsKept /\ CountIsKept
    BY DEF FlowInv, QueuesInv
  <2>2. ASSUME AtRest
        PROVE  client.latest = node
    <3>1. subscribed /\ batch = <<>> /\ wire = <<>>
      BY <2>2 DEF AtRest
    <3>2. \A t \in Tag : items[t] = <<>>
      BY <3>1, <2>1 DEF QueuesTypeOK
    <3>3. \A t \in Tag : ~ LastSent(t)
      BY <3>1 DEF LastSent
    <3>4. \A t \in Tag : t \in DOMAIN client.latest /\ client.latest[t] = node[t]
      BY <3>1, <3>2, <3>3, <2>1 DEF NewestIsKept
    <3>5. /\ client.latest = [t \in DOMAIN client.latest |-> client.latest[t]]
          /\ DOMAIN client.latest \subseteq Tag
      BY <2>1 DEF QueuesTypeOK
    <3>6. node = [t \in Tag |-> node[t]]
      BY <2>1 DEF MachineTypeOK, Tagged
    <3>7. DOMAIN client.latest = Tag
      BY <3>4, <3>5
    <3> QED BY <3>4, <3>5, <3>6, <3>7
  <2>3. ASSUME "PartCount" \in DOMAIN client.latest, NEW n, n = client.latest["PartCount"]
        PROVE  \/ partCount = n
               \/ Update("PartCount", n) \in {client.queue[i] : i \in DOMAIN client.queue}
               \/ Update("PartCount", n) \in client.dropped
    BY <2>3, <2>1 DEF CountIsKept
  <2> QED BY <2>2, <2>3 DEF ShownIsCurrent
<1> QED BY <1>1, FlowInvariance, PTL

\* With no sensor that shows a part twice, the parts are recorded in the order
\* in which the machine made them, none twice, whatever the queues drop.
THEOREM RecordedInOrderCorrect ==
    ASSUME "varying" \notin Effects
    PROVE  PipelineSpec => []RecordedInOrder
<1>1. FlowInv => RecordedInOrder
  BY TagFacts DEF FlowInv, QueuesInv, FlowInOrder, Ordered
<1> QED BY <1>1, FlowInvariance, PTL

-----------------------------------------------------------------------------
(* Where the parts are *)

\* With an exact sensor a reading is known by its part.
LEMMA ExactReadings ==
    ASSUME Exact, NEW V \in SUBSET BoreValue, NEW n
    PROVE  n \in Numbers(V) <=> BoreReading(n, 0) \in V
<1>1. Errors = {0}
  BY DEF Exact, Errors
<1>2. \A v \in V : v = BoreReading(v.part, 0)
  BY <1>1 DEF BoreValue, BoreReading
<1>3. ASSUME n \in Numbers(V)
      PROVE  BoreReading(n, 0) \in V
  <2>1. PICK v \in V : n = v.part
    BY <1>3 DEF Numbers
  <2> QED BY <2>1, <1>2
<1>4. ASSUME BoreReading(n, 0) \in V
      PROVE  n \in Numbers(V)
  BY <1>4, ReadingFacts DEF Numbers
<1> QED BY <1>3, <1>4

LEMMA InFlightNumbers ==
    ASSUME QueuesTypeOK
    PROVE  /\ InFlight \subseteq BoreValue
           /\ Numbers(InFlight) = Buffered("BoreDiameter") \cup Sent("BoreDiameter")
                                  \cup Waiting("BoreDiameter")
<1> DEFINE bore == "BoreDiameter"
<1>1. /\ items[bore] \in Seq(BoreValue) /\ wire \in Seq(Updates) /\ client.queue \in Seq(Updates)
  BY TagFacts DEF QueuesTypeOK, Value
<1>2. ASSUME NEW s \in Seq(Updates)
      PROVE  BoreIn(s) \subseteq BoreValue /\ Numbers(BoreIn(s)) = Ranks(s, bore)
  <2>1. \A i \in DOMAIN s : s[i] \in Updates
    OBVIOUS
  <2>2. \A i \in DOMAIN s : s[i].tag = bore => s[i].value \in BoreValue
    BY <2>1, UpdatesAre DEF Value
  <2>3. BoreIn(s) \subseteq BoreValue
    BY <2>2 DEF BoreIn
  <2>4. Numbers(BoreIn(s)) = Ranks(s, bore)
    BY DEF Numbers, BoreIn, Ranks, Rank
  <2> QED BY <2>3, <2>4
<1>3. {items[bore][i] : i \in DOMAIN items[bore]} \subseteq BoreValue
  BY <1>1
<1>4. Numbers({items[bore][i] : i \in DOMAIN items[bore]}) = Waiting(bore)
  BY DEF Numbers, Waiting, ValueRanks, Rank
<1>5. InFlight = {items[bore][i] : i \in DOMAIN items[bore]} \cup BoreIn(wire) \cup BoreIn(client.queue)
  BY DEF InFlight
<1>6. Numbers(InFlight) = Numbers({items[bore][i] : i \in DOMAIN items[bore]})
                          \cup Numbers(BoreIn(wire)) \cup Numbers(BoreIn(client.queue))
  BY <1>5 DEF Numbers
<1> QED BY <1>1, <1>2, <1>3, <1>4, <1>5, <1>6 DEF Buffered, Sent

\* Four named sets of readings, one of which holds r.
OnePlace(a, b, c, d, r) ==
    Cardinality({place \in {<<"on its way", a>>, <<"recorded", b>>,
                            <<"skipped", c>>, <<"dropped", d>>} : r \in place[2]}) = 1

LEMMA OneOfFour ==
    ASSUME NEW a, NEW b, NEW c, NEW d, NEW r,
           \/ r \in a /\ r \notin b /\ r \notin c /\ r \notin d
           \/ r \notin a /\ r \in b /\ r \notin c /\ r \notin d
           \/ r \notin a /\ r \notin b /\ r \in c /\ r \notin d
           \/ r \notin a /\ r \notin b /\ r \notin c /\ r \in d
    PROVE  OnePlace(a, b, c, d, r)
<1> DEFINE p1 == <<"on its way", a>>
           p2 == <<"recorded", b>>
           p3 == <<"skipped", c>>
           p4 == <<"dropped", d>>
<1>1. p1[2] = a /\ p2[2] = b /\ p3[2] = c /\ p4[2] = d
  OBVIOUS
<1> HIDE DEF p1, p2, p3, p4
<1>2. \E x : {place \in {p1, p2, p3, p4} : r \in place[2]} = {x}
  <2>1. CASE r \in a /\ r \notin b /\ r \notin c /\ r \notin d
    <3>1. {place \in {p1, p2, p3, p4} : r \in place[2]} = {p1}
      BY <2>1, <1>1
    <3> QED BY <3>1
  <2>2. CASE r \notin a /\ r \in b /\ r \notin c /\ r \notin d
    <3>1. {place \in {p1, p2, p3, p4} : r \in place[2]} = {p2}
      BY <2>2, <1>1
    <3> QED BY <3>1
  <2>3. CASE r \notin a /\ r \notin b /\ r \in c /\ r \notin d
    <3>1. {place \in {p1, p2, p3, p4} : r \in place[2]} = {p3}
      BY <2>3, <1>1
    <3> QED BY <3>1
  <2>4. CASE r \notin a /\ r \notin b /\ r \notin c /\ r \in d
    <3>1. {place \in {p1, p2, p3, p4} : r \in place[2]} = {p4}
      BY <2>4, <1>1
    <3> QED BY <3>1
  <2> QED BY <2>1, <2>2, <2>3, <2>4
<1>3. Cardinality({place \in {p1, p2, p3, p4} : r \in place[2]}) = 1
  BY <1>2, FS_Singleton
<1> QED BY <1>3 DEF p1, p2, p3, p4, OnePlace

\* With an exact sensor a part published since the subscription is in exactly
\* one place, however often the queues overflow: on its way, recorded, skipped
\* or dropped.
THEOREM EveryPartAccountedForCorrect ==
    ASSUME Effects \subseteq {"none"}
    PROVE  PipelineSpec => []EveryPartAccountedFor
<1>1. FlowInv => EveryPartAccountedFor
  <2> DEFINE places == {<<"on its way", InFlight>>, <<"recorded", Recorded>>,
                        <<"skipped", skipped>>, <<"dropped", Dropped>>}
             bore == "BoreDiameter"
  <2> SUFFICES ASSUME FlowInv, subscribed, NEW n \in opened.part .. node.BoreDiameter.part
               PROVE  Cardinality({place \in places : BoreReading(n, 0) \in place[2]}) = 1
    BY DEF EveryPartAccountedFor
  <2>1. /\ QueuesTypeOK /\ PartsTraced /\ FlowInOrder /\ Exact /\ bore \in Ordered
        /\ partCount \in Int
    BY TagFacts DEF FlowInv, QueuesInv, Exact, Ordered, CollectorIInv, CollectorTypeOK
  <2>2. /\ n \in Places \cup Numbers(Dropped)
        /\ \A m \in Numbers(Dropped) : m \notin Places
        /\ Numbers(Recorded) \cap Numbers(skipped) = {}
    BY <2>1 DEF PartsTraced, NewestPart
  <2>3. /\ InFlight \subseteq BoreValue /\ Recorded \subseteq BoreValue
        /\ skipped \subseteq BoreValue /\ Dropped \subseteq BoreValue
    BY <2>1, InFlightNumbers, UpdatesAre DEF QueuesTypeOK, Dropped, Value
  <2>4. /\ n \in Numbers(InFlight) <=> BoreReading(n, 0) \in InFlight
        /\ n \in Numbers(Recorded) <=> BoreReading(n, 0) \in Recorded
        /\ n \in Numbers(skipped) <=> BoreReading(n, 0) \in skipped
        /\ n \in Numbers(Dropped) <=> BoreReading(n, 0) \in Dropped
    BY <2>1, <2>3, ExactReadings
  <2>5. Places = Numbers(Recorded) \cup Numbers(skipped) \cup Numbers(InFlight)
    <3>1. Done(bore) = Numbers(Recorded) \cup Numbers(skipped)
      BY DEF Done, Numbers, Handled
    <3> QED BY <3>1, <2>1, InFlightNumbers DEF Places
  <2>6. n \notin Numbers(InFlight) \/ (n \notin Numbers(Recorded) /\ n \notin Numbers(skipped))
    <3>1. /\ Precede(Done(bore), Buffered(bore)) /\ Precede(Done(bore), Sent(bore))
          /\ Precede(Done(bore), Waiting(bore)) /\ Done(bore) \subseteq Int
      BY <2>1, RankSets DEF FlowInOrder, Chain, Ordered
    <3>2. n \in Done(bore) => n \notin Numbers(InFlight)
      BY <3>1, <2>1, InFlightNumbers DEF Precede
    <3>3. Done(bore) = Numbers(Recorded) \cup Numbers(skipped)
      BY DEF Done, Numbers, Handled
    <3> QED BY <3>2, <3>3
  <2> DEFINE r == BoreReading(n, 0)
  <2>7. \/ r \in InFlight /\ r \notin Recorded /\ r \notin skipped /\ r \notin Dropped
        \/ r \notin InFlight /\ r \in Recorded /\ r \notin skipped /\ r \notin Dropped
        \/ r \notin InFlight /\ r \notin Recorded /\ r \in skipped /\ r \notin Dropped
        \/ r \notin InFlight /\ r \notin Recorded /\ r \notin skipped /\ r \in Dropped
    BY <2>2, <2>4, <2>5, <2>6
  <2>8. OnePlace(InFlight, Recorded, skipped, Dropped, r)
    BY <2>7, OneOfFour
  <2> QED BY <2>8 DEF OnePlace, r
<1> QED BY <1>1, FlowInvariance, PTL

\* How many readings have been handled, told apart by their parts.
ReadingsCounted == IsFiniteSet(Numbers(Handled)) /\ Cardinality(Numbers(Handled)) = charted

\* A reading that is handled is that of a part of which none has been handled.
LEMMA HandledKeepsCount ==
    ASSUME "varying" \notin Effects, FlowInv, ReadingsCounted, Handle
    PROVE  ReadingsCounted'
<1> DEFINE u == Head(client.queue)
           bore == "BoreDiameter"
<1>1. /\ u.tag = "Torque" => HandleOther /\ skipped' = skipped
      /\ u.tag = "PartCount" => HandlePartCount(u.value) /\ skipped' = skipped
      /\ u.tag = bore => /\ HandleChart(u.value)
                         /\ skipped' = IF parts' = parts THEN skipped \cup {u.value} ELSE skipped
      /\ u \in Updates /\ client.queue # <<>>
  BY HandleFacts
<1>2. /\ CollectorIInv /\ QueuesTypeOK /\ FlowInOrder /\ bore \in Ordered
  BY TagFacts DEF FlowInv, QueuesInv, Ordered
<1> HIDE DEF u
<1>3. CASE u.tag # bore
  <2>1. parts' = parts /\ skipped' = skipped /\ charted' = charted
    BY <1>1, <1>3 DEF HandleOther, HandlePartCount, Updates
  <2> QED BY <2>1 DEF ReadingsCounted, Handled, Recorded
<1>4. CASE u.tag = bore
  <2>1. u.value \in BoreValue /\ u.value \in Reading /\ u.value.part \in Int
    BY <1>1, <1>4, ReadingFacts DEF Updates
  <2>2. Handled' = Handled \cup {u.value} /\ charted' = charted + 1 /\ charted \in Nat
    BY <1>1, <1>2, <1>4, <2>1, ReadingOutcome
  <2>3. Numbers(Handled') = Numbers(Handled) \cup {u.value.part}
    BY <2>2 DEF Numbers
  <2>4. u.value.part \in Buffered(bore)
    <3>1. /\ client.queue \in Seq(Updates) /\ 1 \in DOMAIN client.queue
          /\ client.queue[1] = u
      BY <1>1, <1>2 DEF QueuesTypeOK, u
    <3> QED BY <3>1, <1>4 DEF Buffered, Ranks, Rank
  <2>5. u.value.part \notin Numbers(Handled)
    <3>1. Precede(Numbers(Handled), Buffered(bore))
      BY <1>2 DEF FlowInOrder, Chain, Done
    <3> QED BY <3>1, <2>1, <2>4 DEF Precede
  <2>6. Numbers(Handled)' = Numbers(Handled) \cup {u.value.part}
    BY <2>3 DEF Numbers
  <2>7. /\ IsFiniteSet(Numbers(Handled) \cup {u.value.part})
        /\ Cardinality(Numbers(Handled) \cup {u.value.part}) = charted + 1
    <3>1. IsFiniteSet(Numbers(Handled)) /\ Cardinality(Numbers(Handled)) = charted
      BY DEF ReadingsCounted
    <3> QED BY ONLY <3>1, <2>5, FS_AddElement
  <2>8. IsFiniteSet(Numbers(Handled)') /\ Cardinality(Numbers(Handled)') = charted'
    BY ONLY <2>2, <2>6, <2>7
  <2> QED BY <2>8 DEF ReadingsCounted
<1> QED BY <1>3, <1>4

\* None is counted twice.
LEMMA ReadingsCountedCorrect ==
    ASSUME "varying" \notin Effects
    PROVE  PipelineSpec => []ReadingsCounted
<1>1. PipelineInit => ReadingsCounted
  <2> SUFFICES ASSUME PipelineInit PROVE ReadingsCounted
    OBVIOUS
  <2>1. parts = <<>> /\ skipped = {} /\ charted = 0
    BY DEF PipelineInit, CollectorInit
  <2>2. Numbers(Handled) = {}
    BY <2>1 DEF Numbers, Handled, Recorded
  <2> QED BY <2>1, <2>2, FS_EmptySet DEF ReadingsCounted
<1>2. FlowInv /\ ReadingsCounted /\ [PipelineNext]_vars => ReadingsCounted'
  <2> SUFFICES ASSUME FlowInv, ReadingsCounted, [PipelineNext]_vars PROVE ReadingsCounted'
    OBVIOUS
  <2>1. CASE Handle
    BY <2>1, HandledKeepsCount
  <2>2. CASE UNCHANGED <<parts, skipped, charted>>
    BY <2>2 DEF ReadingsCounted, Numbers, Handled, Recorded
  <2>3. Handle \/ UNCHANGED <<parts, skipped, charted>>
    BY DEF PipelineNext, vars, collectorVars, Step, WriteTag, Subscribe, PublishInterval,
           Receive
  <2> QED BY <2>1, <2>2, <2>3
<1> QED BY <1>1, <1>2, FlowInvariance, PTL DEF PipelineSpec

\* When all is handled and the machine's count has come through, missed_parts
\* is the number of parts whose reading never came, and one more if the opening
\* reading was a part's.  It must be skipped and be that of a part, or of part 0.
THEOREM MissedPartsCorrect ==
    ASSUME SkipInitial, ~ EarlySubscribe, "varying" \notin Effects
    PROVE  PipelineSpec => []MissedPartsCountTheOpening
<1>1. FlowInv /\ ReadingsCounted => MissedPartsCountTheOpening
  <2> DEFINE R == Numbers(Recorded)
             H == Numbers(Handled)
             N == Len(parts)
             extra == IF OpeningWasAPart THEN 1 ELSE 0
  <2> SUFFICES ASSUME FlowInv, ReadingsCounted, AtRest, partCount = made
               PROVE  MissedParts = Cardinality(NeverReceived) + extra
    BY DEF MissedPartsCountTheOpening
  <2>1. /\ QueuesTypeOK /\ FlowInOrder /\ HandledAreDistinct /\ subscribed
        /\ "BoreDiameter" \in Ordered /\ made \in Nat /\ SourceInOrder
    BY TagFacts DEF FlowInv, QueuesInv, MachineTypeOK, AtRest, Ordered
  <2>2. /\ parts \in Seq(Part) /\ N \in Nat /\ DOMAIN parts = 1 .. N
        /\ skippedWarmup \in Nat /\ charted \in Nat
        /\ charted = OpeningsSkipped + skippedWarmup + N
    BY WarmupAssumption
       DEF FlowInv, QueuesInv, CollectorIInv, CollectorTypeOK, ChartedUpdatesAddUp
  <2>3. /\ opened.part >= 0 /\ opened.part \in Int
        /\ charted > 0 => \E v \in Handled : v.part >= opened.part + charted - 1
        /\ snapshotSkipped <=> charted > 0
        /\ \A v \in Recorded : v.part > opened.part
    BY <2>1, ReadingFacts DEF HandledAreDistinct, QueuesTypeOK
  <2>4. \A v \in Handled : v.part \in Int /\ v.part <= made
    <3>1. NewestPart <= made /\ NewestPart \in Int
      <4>1. /\ node["BoreDiameter"] \in BoreValue /\ sample["BoreDiameter"] \in BoreValue
        BY TagFacts DEF FlowInv, MachineTypeOK, Tagged, Value
      <4>2. /\ sample["BoreDiameter"].part <= made
            /\ \/ node["BoreDiameter"] = sample["BoreDiameter"]
               \/ node["BoreDiameter"].part < sample["BoreDiameter"].part
        BY <2>1 DEF SourceInOrder, Rank
      <4> QED BY <4>1, <4>2, <2>1, ReadingFacts DEF NewestPart
    <3>2. \A x \in Done("BoreDiameter") : x <= NewestPart
      BY <2>1 DEF FlowInOrder, Chain, Rank, NewestPart
    <3>3. \A v \in Handled : v.part \in Done("BoreDiameter") /\ v.part \in Int
      BY <2>1, ReadingFacts DEF Done, Numbers, Handled, QueuesTypeOK
    <3> QED BY <3>1, <3>2, <3>3, <2>1
  <2>5. skippedWarmup + N <= made
    <3>1. CASE charted = 0
      <4>1. OpeningsSkipped \in {0, 1}
        BY DEF OpeningsSkipped
      <4> QED BY <4>1, <3>1, <2>1, <2>2
    <3>2. CASE charted > 0
      <4>1. OpeningsSkipped = 1
        BY <3>2, <2>3 DEF OpeningsSkipped
      <4>2. PICK v \in Handled : v.part >= opened.part + charted - 1
        BY <3>2, <2>3
      <4> QED BY <4>1, <4>2, <2>1, <2>2, <2>3, <2>4
    <3> QED BY <3>1, <3>2, <2>2
  <2>6. MissedParts = made - skippedWarmup - N
    BY <2>1, <2>2, <2>5 DEF MissedParts, NoCount, AtLeastZero
  <2>7. R \subseteq 1 .. made
    <3>1. \A i \in 1 .. N : parts[i].value \in Recorded
      BY <2>2 DEF Recorded
    <3>2. \A i \in 1 .. N : parts[i].value.part \in 1 .. made
      BY <3>1, <2>1, <2>3, <2>4 DEF Handled
    <3> QED BY <3>2, <2>2 DEF Recorded, Numbers
  <2>8. Cardinality(R) = N
    <3> DEFINE f == [i \in 1 .. N |-> parts[i].value.part]
    <3>1. f \in Surjection(1 .. N, R)
      BY <2>2 DEF Surjection, Recorded, Numbers
    <3>2. f \in Injection(1 .. N, R)
      <4>1. \A i, j \in 1 .. N : i < j => f[i] < f[j]
        BY <2>1, <2>2 DEF FlowInOrder, RecordedInOrder
      <4>2. \A i \in 1 .. N : f[i] \in R /\ f[i] \in Int
        BY <2>1, <2>2, <2>7 DEF Recorded, Numbers
      <4>3. ASSUME NEW i \in 1 .. N, NEW j \in 1 .. N, f[i] = f[j]
            PROVE  i = j
        <5>1. i < j \/ j < i \/ i = j
          BY <2>2
        <5>2. f[i] \in Int /\ f[j] \in Int
          BY <4>2
        <5> HIDE DEF f
        <5> QED BY <5>1, <5>2, <4>1, <4>3
      <4>4. f \in [1 .. N -> R] /\ DOMAIN f = 1 .. N
        BY <4>2
      <4> HIDE DEF f, R, N
      <4>5. \A i, j \in DOMAIN f : f[i] = f[j] => i = j
        BY <4>3, <4>4
      <4>6. IsInjective(f)
        BY <4>5 DEF IsInjective
      <4> QED BY <4>4, <4>6 DEF Injection
    <3>3. IsFiniteSet(1 .. N) /\ Cardinality(1 .. N) = N
      <4> HIDE DEF N, f, R
      <4>1. N \in Nat
        BY <2>2
      <4> QED BY <4>1, FS_Interval
    <3> HIDE DEF f
    <3> QED BY <3>1, <3>2, <3>3, FS_Surjection
  <2>9. IsFiniteSet(1 .. made) /\ Cardinality(1 .. made) = made
    BY <2>1, FS_Interval
  <2>10. H \subseteq 0 .. made
    <3>1. \A v \in Handled : v.part \in Places
      BY DEF Places, Done, Numbers
    <3>2. \A v \in Handled : v.part \in 0 .. made
      BY <3>1, <2>1, <2>3, <2>4 DEF HandledAreDistinct
    <3> QED BY <3>2 DEF Numbers
  <2>11. Cardinality(NeverReceived) = made - charted + (IF 0 \in H THEN 1 ELSE 0)
    <3>1. NeverReceived = (1 .. made) \ H
      BY DEF NeverReceived, Handled, Numbers
    <3>2. (1 .. made) \cap H = H \ {0}
      BY <2>10, <2>1
    <3>3. IsFiniteSet(H) /\ Cardinality(H) = charted
      BY DEF ReadingsCounted
    <3> HIDE DEF H
    <3>4. Cardinality(H \ {0}) = IF 0 \in H THEN charted - 1 ELSE charted
      BY <3>3, FS_RemoveElement
    <3>5. Cardinality((1 .. made) \ H) = made - Cardinality((1 .. made) \cap H)
      BY <2>9, FS_Difference
    <3>6. made \in Int /\ charted \in Int
      BY <2>1, <2>2
    <3>7. Cardinality(NeverReceived) = made - (IF 0 \in H THEN charted - 1 ELSE charted)
      BY ONLY <3>1, <3>2, <3>4, <3>5
    <3> QED BY ONLY <3>6, <3>7
  <2>12. OpeningsSkipped = extra + (IF 0 \in H THEN 1 ELSE 0)
    <3>1. CASE charted = 0
      <4>1. H = {}
        BY <3>1, FS_EmptySet DEF ReadingsCounted
      <4>2. skipped = {} /\ 0 \notin H
        BY <4>1 DEF Numbers, Handled
      <4>3. OpeningsSkipped = 0
        BY <3>1, <2>3, <2>2 DEF OpeningsSkipped
      <4> QED BY <4>2, <4>3 DEF OpeningWasAPart
    <3>2. CASE charted > 0
      <4>1. OpeningsSkipped = 1
        BY <3>2, <2>3 DEF OpeningsSkipped
      <4>2. skipped # {}
        <5>1. SUFFICES ASSUME skipped = {} PROVE FALSE
          OBVIOUS
        <5>2. Handled = Recorded
          BY <5>1 DEF Handled
        <5>3. charted = N
          BY <5>2, <2>8 DEF ReadingsCounted
        <5> QED BY <5>3, <4>1, <2>2
      <4>3. 0 \in H <=> \E v \in skipped : v.part = 0
        BY <2>3 DEF Handled, Numbers
      <4>4. \A v \in skipped : v.part \in Nat
        BY <2>10 DEF Handled, Numbers
      <4>5. OpeningWasAPart <=> 0 \notin H
        BY <4>2, <4>3, <4>4 DEF OpeningWasAPart
      <4> QED BY <4>1, <4>5
    <3> QED BY <3>1, <3>2, <2>2
  <2> HIDE DEF R, N, H
  <2>13. CASE OpeningWasAPart
    BY <2>13, <2>1, <2>2, <2>6, <2>11, <2>12
  <2>14. CASE ~ OpeningWasAPart
    BY <2>14, <2>1, <2>2, <2>6, <2>11, <2>12
  <2> QED BY <2>13, <2>14
<1> QED BY <1>1, FlowInvariance, ReadingsCountedCorrect, PTL

-----------------------------------------------------------------------------
(* The pipeline is a source of updates for the collector *)

\* Handling an update is a step of the collector on its own, and nothing else
\* touches it: what is proved of the collector for any updates at all holds of
\* it in the pipeline.  The bound on updates must leave room for the counts.
THEOREM PipelineFeedsCollector ==
    ASSUME MaxSamples <= MaxUpdates
    PROVE  PipelineSpec => CollectorSpec
<1>1. PipelineInit => CollectorInit
  BY DEF PipelineInit
<1>2. FlowInv /\ [PipelineNext]_vars => [CollectorNext]_collectorVars
  <2> SUFFICES ASSUME FlowInv, [PipelineNext]_vars
               PROVE  CollectorNext \/ UNCHANGED collectorVars
    OBVIOUS
  <2>1. CASE Handle
    <3>1. PICK u : u = Head(client.queue)
      OBVIOUS
    <3>2. /\ u \in Updates
          /\ u.tag = "Torque" => HandleOther
          /\ u.tag = "PartCount" => HandlePartCount(u.value)
          /\ u.tag = "BoreDiameter" => HandleChart(u.value)
      BY <2>1, <3>1, HandleFacts
    <3>3. u.tag \in Tag /\ u.value \in Value(u.tag)
      BY <3>2, UpdatesAre
    <3>4. u.tag = "PartCount" => u.value \in 0 .. MaxUpdates
      BY <3>3, SamplesAssumption, UpdatesAssumption DEF Value
    <3>5. u.tag = "BoreDiameter" => u.value \in Reading
      BY <3>3, ReadingFacts DEF Value
    <3> QED BY <3>2, <3>3, <3>4, <3>5, TagFacts DEF CollectorNext
  <2>2. ASSUME NEW effect \in Effects, NEW completed \in BOOLEAN, Step(effect, completed)
        PROVE  UNCHANGED collectorVars
    BY <2>2 DEF Step
  <2>3. CASE WriteTag \/ Subscribe \/ PublishInterval \/ Receive
    BY <2>3 DEF WriteTag, Subscribe, PublishInterval, Receive
  <2>4. CASE UNCHANGED vars
    BY <2>4 DEF vars
  <2> QED BY <2>1, <2>2, <2>3, <2>4 DEF PipelineNext
<1> QED BY <1>1, <1>2, FlowInvariance, PTL DEF PipelineSpec, CollectorSpec

\* No part that the pipeline hands over vanishes or counts twice in the
\* subgroups, and the subgroups are runs of the parts recorded.
THEOREM PipelineKeepsSubgroups ==
    ASSUME MaxSamples <= MaxUpdates
    PROVE  PipelineSpec => [](EveryPartPlacedOnce /\ SubgroupsAreRuns)
BY PipelineFeedsCollector, PlacedCorrect, SubgroupsCorrect, PTL
=============================================================================
