---------------------------- MODULE TwinsProofs ----------------------------
(***************************************************************************)
(* Theorems about Twins, for all schedules, faults, streams and settings:  *)
(* what one more fault can change in a run of the machine.                 *)
(*                                                                         *)
(* The twin's schedule is the machine's with one fault inserted.  The      *)
(* folds over both schedules are walked along side by side, which gives    *)
(* what the additional fault does to one draw and to one reading.  Two     *)
(* relations then lift that to a step of both machines: Untouched, while   *)
(* it does not run, and Level, from when it runs, unless it moves the      *)
(* parts.  Coupled says what is left of them between the steps.            *)
(***************************************************************************)
EXTENDS Twins, FoldTheorems

-----------------------------------------------------------------------------
(* The effects of the faults on one draw *)

Effects == [offset : Int, spread : Nat \ {0}, spike : Int, faultPos : Nat]
Errors == [offset : Int, extra : Nat, frozen : BOOLEAN]

\* What the effects of the faults depend on.
Scheduled(s) == s.faults \in Seq(Fault) /\ s.t \in Nat /\ s.faultPos \in Nat

LEMMA ProductPositive ==
    ASSUME NEW a \in Nat \ {0}, NEW b \in Nat \ {0}
    PROVE  a * b \in Nat \ {0}
OBVIOUS

\* A square is never below what is squared, so that hypot is defined.
LEMMA HypotIsNat ==
    ASSUME NEW a \in Int, NEW b \in Int
    PROVE  Hypot(a, b) \in Nat
<1> DEFINE sum == a * a + b * b
           above == {n \in Nat : n * n >= sum}
<1>1. sum \in Nat
  <2>1. a * a \in Nat /\ b * b \in Nat
    OBVIOUS
  <2> QED BY <2>1
<1> HIDE DEF sum
<1>2. sum * sum >= sum
  BY <1>1
<1>3. PICK n \in above : \A m \in above : n <= m
  <2>1. sum \in above
    BY <1>1, <1>2
  <2>2. above \in SUBSET Nat /\ above # {}
    BY <2>1
  <2> HIDE DEF above
  <2> QED BY <2>2, LeastNumber
<1>4. n \in 0 .. sum
  <2>1. sum \in above
    BY <1>1, <1>2
  <2> QED BY <1>1, <1>3, <2>1
<1>5. n = 0 \/ (n - 1) * (n - 1) < sum
  <2>1. ASSUME n # 0, ~ ((n - 1) * (n - 1) < sum)
        PROVE  FALSE
    <3> DEFINE m == n - 1
    <3>1. m \in Nat /\ m * m \in Nat /\ m < n
      BY <1>3, <2>1
    <3>2. ~ (m * m < sum)
      BY <2>1
    <3> HIDE DEF m
    <3>3. m * m >= sum
      BY <1>1, <3>1, <3>2
    <3>4. m \in above
      BY <3>1, <3>3
    <3> QED BY <1>3, <3>1, <3>4
  <2> QED BY <2>1
<1>6. n * n >= sum
  BY <1>3
<1>7. Hypot(a, b) \in 0 .. sum
  BY <1>4, <1>5, <1>6 DEF Hypot, sum
<1> QED BY <1>1, <1>7

LEMMA FaultFields ==
    ASSUME NEW f \in Fault
    PROVE  /\ f.kind \in ProcessFaults \cup SensorFaults /\ f.tag \in Measured
           /\ f.size \in Int /\ f.start \in Nat /\ f.end \in Nat
           /\ f.kind = "VarianceInflation" => f.size > 0
           /\ StdDev[f.tag] \in Nat \ {0}
BY SimulatorAssumption DEF Fault

LEMMA ProcessStays ==
    ASSUME NEW e \in Effects, NEW f \in Fault, NEW s, s.t \in Nat, NEW tag
    PROVE  Process(e, f, s, tag) \in Effects
<1> DEFINE worn == f.size * (s.t - f.start)
           shift == f.size * StdDev[f.tag]
           wide == e.spread * f.size
<1>1. worn \in Int /\ shift \in Int
  <2>1. f.size \in Int /\ f.start \in Nat /\ StdDev[f.tag] \in Nat
    BY FaultFields
  <2>2. s.t - f.start \in Int
    BY <2>1
  <2> QED BY <2>1, <2>2
<1>2. f.kind = "VarianceInflation" => wide \in Nat \ {0}
  <2>1. f.kind = "VarianceInflation" => f.size \in Nat \ {0}
    BY FaultFields
  <2>2. e.spread \in Nat \ {0}
    BY DEF Effects
  <2> QED BY <2>1, <2>2, ProductPositive
<1>3. CASE ~ Reaches(f, s, tag)
  BY <1>3 DEF Process
<1>4. CASE Reaches(f, s, tag) /\ f.kind = "ToolWear"
  <2>1. Process(e, f, s, tag) = [e EXCEPT !.offset = @ + worn]
    BY <1>4 DEF Process, SensorFaults
  <2> HIDE DEF worn
  <2> QED BY <1>1, <2>1 DEF Effects
<1>5. CASE Reaches(f, s, tag) /\ f.kind = "MeanShift"
  <2>1. Process(e, f, s, tag) = [e EXCEPT !.offset = @ + shift]
    BY <1>5 DEF Process, SensorFaults
  <2> HIDE DEF shift
  <2> QED BY <1>1, <2>1 DEF Effects
<1>6. CASE Reaches(f, s, tag) /\ f.kind = "VarianceInflation"
  <2>1. Process(e, f, s, tag) = [e EXCEPT !.spread = wide]
    BY <1>6 DEF Process, SensorFaults
  <2> HIDE DEF wide
  <2> QED BY <1>2, <1>6, <2>1 DEF Effects
<1>7. CASE Reaches(f, s, tag) /\ f.kind = "Outlier"
  <2> DEFINE jolt == IF Low(Stream[s.faultSeed][e.faultPos + 1]) THEN -shift ELSE shift
  <2>1. Process(e, f, s, tag) =
          IF ~ Low(Stream[s.faultSeed][e.faultPos]) THEN [e EXCEPT !.faultPos = @ + 1]
          ELSE IF ~ f.both THEN [e EXCEPT !.faultPos = @ + 1, !.spike = @ + shift]
          ELSE [e EXCEPT !.faultPos = @ + 2, !.spike = @ + jolt]
    BY <1>7 DEF Process, SensorFaults, Spike
  <2>2. jolt \in Int
    BY <1>1
  <2> HIDE DEF jolt
  <2>3. [e EXCEPT !.faultPos = @ + 1] \in Effects
    BY DEF Effects
  <2>4. [e EXCEPT !.faultPos = @ + 2, !.spike = @ + jolt] \in Effects
    <3>1. e.faultPos + 2 \in Nat /\ e.spike + jolt \in Int
      BY <2>2 DEF Effects
    <3> QED BY <3>1 DEF Effects
  <2>5. [e EXCEPT !.faultPos = @ + 1, !.spike = @ + shift] \in Effects
    <3> HIDE DEF shift
    <3>1. e.faultPos + 1 \in Nat /\ e.spike + shift \in Int
      BY <1>1 DEF Effects
    <3> QED BY <3>1 DEF Effects
  <2> QED BY <2>1, <2>3, <2>4, <2>5
<1>8. CASE Reaches(f, s, tag) /\ f.kind \in SensorFaults
  BY <1>8 DEF Process, SensorFaults
<1> QED BY <1>3, <1>4, <1>5, <1>6, <1>7, <1>8, FaultFields DEF ProcessFaults

LEMMA SensorStays ==
    ASSUME NEW e \in Errors, NEW f \in Fault, NEW s, s.t \in Nat, NEW tag
    PROVE  Sensor(e, f, s, tag) \in Errors
<1> DEFINE drift == f.size * (s.t - f.start)
           noise == f.size * StdDev[f.tag]
<1>1. drift \in Int /\ noise \in Int
  <2>1. f.size \in Int /\ f.start \in Nat /\ StdDev[f.tag] \in Nat
    BY FaultFields
  <2>2. s.t - f.start \in Int
    BY <2>1
  <2> QED BY <2>1, <2>2
<1>2. Hypot(e.extra, noise) \in Nat
  <2>1. e.extra \in Int
    BY DEF Errors
  <2> HIDE DEF noise
  <2> QED BY <1>1, <2>1, HypotIsNat
<1>3. CASE ~ Reaches(f, s, tag)
  BY <1>3 DEF Sensor
<1>4. CASE Reaches(f, s, tag) /\ f.kind = "SensorDrift"
  <2>1. Sensor(e, f, s, tag) = [e EXCEPT !.offset = @ + drift]
    BY <1>4 DEF Sensor, ProcessFaults
  <2> HIDE DEF drift
  <2> QED BY <1>1, <2>1 DEF Errors
<1>5. CASE Reaches(f, s, tag) /\ f.kind = "SensorStuck"
  <2>1. Sensor(e, f, s, tag) = [e EXCEPT !.frozen = TRUE]
    BY <1>5 DEF Sensor, ProcessFaults
  <2> QED BY <2>1 DEF Errors
<1>6. CASE Reaches(f, s, tag) /\ f.kind = "SensorNoise"
  <2>1. Sensor(e, f, s, tag) = [e EXCEPT !.extra = Hypot(@, noise)]
    BY <1>6 DEF Sensor, ProcessFaults
  <2> HIDE DEF noise
  <2> QED BY <1>2, <2>1 DEF Errors
<1>7. CASE Reaches(f, s, tag) /\ f.kind \in ProcessFaults
  BY <1>7 DEF Sensor, ProcessFaults
<1> QED BY <1>3, <1>4, <1>5, <1>6, <1>7, FaultFields DEF SensorFaults

\* The trace of a fold of effects: that of the first k faults, for every k.
NoEffect(s) == [offset |-> 0, spread |-> 1, spike |-> 0, faultPos |-> s.faultPos]
NoError == [offset |-> 0, extra |-> 0, frozen |-> FALSE]

ProcessTrace(g, s, tag) ==
    /\ g[0] = NoEffect(s)
    /\ \A k \in 1 .. Len(s.faults) : g[k] = Process(g[k - 1], s.faults[k], s, tag)
    /\ g[Len(s.faults)] = ProcessEffect(s, tag)

SensorTrace(g, s, tag) ==
    /\ g[0] = NoError
    /\ \A k \in 1 .. Len(s.faults) : g[k] = Sensor(g[k - 1], s.faults[k], s, tag)
    /\ g[Len(s.faults)] = SensorEffect(s, tag)

\* The equations of the two folds, whose solutions CHOOSE takes one of.
ProcessEquation(g, s, tag) ==
    g = [S \in SUBSET DOMAIN s.faults |->
            IF S = {} THEN NoEffect(s)
            ELSE Process(g[S \ {Max(S)}], s.faults[Max(S)], s, tag)]
SensorEquation(g, s, tag) ==
    g = [S \in SUBSET DOMAIN s.faults |->
            IF S = {} THEN NoError
            ELSE Sensor(g[S \ {Max(S)}], s.faults[Max(S)], s, tag)]

LEMMA ProcessIsFold ==
    ASSUME NEW s, NEW tag
    PROVE  ProcessEffect(s, tag)
             = (CHOOSE g : ProcessEquation(g, s, tag))[DOMAIN s.faults]
BY DEF ProcessEffect, ProcessEquation, NoEffect, FoldLeft, MapThenFoldSet

LEMMA SensorIsFold ==
    ASSUME NEW s, NEW tag
    PROVE  SensorEffect(s, tag)
             = (CHOOSE g : SensorEquation(g, s, tag))[DOMAIN s.faults]
BY DEF SensorEffect, SensorEquation, NoError, FoldLeft, MapThenFoldSet

LEMMA ProcessTraceExists ==
    ASSUME NEW s, Scheduled(s), NEW tag
    PROVE  \E g : ProcessTrace(g, s, tag)
<1> DEFINE n == Len(s.faults)
           D == 1 .. n
           step == [q \in D \X Effects |-> Process(q[2], s.faults[q[1]], s, tag)]
           base == NoEffect(s)
<1>1. /\ n \in Nat /\ DOMAIN s.faults = D /\ s.t \in Nat /\ base \in Effects
      /\ \A k \in D : s.faults[k] \in Fault
  BY DEF Scheduled, NoEffect, Effects
<1>2. step \in [D \X Effects -> Effects]
  <2>1. \A k \in D, e \in Effects : Process(e, s.faults[k], s, tag) \in Effects
    BY <1>1, ProcessStays
  <2> HIDE DEF D
  <2> QED BY <2>1
<1>3. \A k \in D, e \in Effects : step[k, e] = Process(e, s.faults[k], s, tag)
  OBVIOUS
<1> HIDE DEF step, base, n
<1>4. /\ LeftFolds(n, Effects, base, step) # {}
      /\ \A S \in SUBSET D : S # {} => Max(S) \in S
  BY <1>1, <1>2, LeftFoldExists
<1>5. PICK g \in [SUBSET D -> Effects] : \A S \in SUBSET D :
          g[S] = IF S = {} THEN base ELSE step[Max(S), g[S \ {Max(S)}]]
  BY <1>4 DEF LeftFolds
<1>6. ProcessEquation(g, s, tag)
  <2>1. ASSUME NEW S \in SUBSET D, S # {}
        PROVE  g[S] = Process(g[S \ {Max(S)}], s.faults[Max(S)], s, tag)
    <3>1. Max(S) \in D /\ S \ {Max(S)} \in SUBSET D
      BY <1>4, <2>1
    <3>2. g[S] = step[Max(S), g[S \ {Max(S)}]] /\ g[S \ {Max(S)}] \in Effects
      BY <1>5, <2>1, <3>1
    <3> QED BY <1>3, <3>1, <3>2
  <2>2. g = [S \in SUBSET D |-> g[S]]
    BY <1>5
  <2>3. \A S \in SUBSET D :
          g[S] = IF S = {} THEN base
                 ELSE Process(g[S \ {Max(S)}], s.faults[Max(S)], s, tag)
    BY <1>5, <2>1
  <2> HIDE DEF D
  <2> QED BY <1>1, <2>2, <2>3 DEF ProcessEquation, base
<1> DEFINE sol == CHOOSE h : ProcessEquation(h, s, tag)
           trace == [k \in 0 .. n |-> sol[1 .. k]]
<1>7. ProcessEquation(sol, s, tag)
  BY <1>6
<1>8. ProcessEffect(s, tag) = sol[D]
  BY <1>1, ProcessIsFold
<1> HIDE DEF sol
<1>9. sol[{}] = NoEffect(s)
  BY <1>7 DEF ProcessEquation
<1>10. ASSUME NEW k \in D
       PROVE  sol[1 .. k] = Process(sol[1 .. k - 1], s.faults[k], s, tag)
  <2>1. 1 .. k \in SUBSET DOMAIN s.faults /\ 1 .. k # {}
    <3>1. k \in 1 .. k /\ 1 .. k \in SUBSET D
      BY <1>1
    <3> HIDE DEF D
    <3> QED BY <1>1, <3>1
  <2>2. Max(1 .. k) = k /\ (1 .. k) \ {k} = 1 .. k - 1
    BY <1>1, LastOfInterval
  <2>3. \A S \in SUBSET DOMAIN s.faults : S # {} =>
          sol[S] = Process(sol[S \ {Max(S)}], s.faults[Max(S)], s, tag)
    BY <1>7 DEF ProcessEquation
  <2> QED BY <2>1, <2>2, <2>3
<1>11. ProcessTrace(trace, s, tag)
  <2>1. trace[0] = NoEffect(s)
    <3>1. 1 .. 0 = {} /\ 0 \in 0 .. n
      BY <1>1
    <3> QED BY <1>9, <3>1
  <2>2. ASSUME NEW k \in D
        PROVE  trace[k] = Process(trace[k - 1], s.faults[k], s, tag)
    <3>1. k \in 0 .. n /\ k - 1 \in 0 .. n
      BY <1>1
    <3> QED BY <1>10, <3>1
  <2>3. trace[n] = ProcessEffect(s, tag)
    <3>1. n \in 0 .. n
      BY <1>1
    <3> QED BY <1>8, <3>1
  <2> QED BY <2>1, <2>2, <2>3 DEF ProcessTrace, n
<1> QED BY <1>11

LEMMA SensorTraceExists ==
    ASSUME NEW s, Scheduled(s), NEW tag
    PROVE  \E g : SensorTrace(g, s, tag)
<1> DEFINE n == Len(s.faults)
           D == 1 .. n
           step == [q \in D \X Errors |-> Sensor(q[2], s.faults[q[1]], s, tag)]
           base == NoError
<1>1. /\ n \in Nat /\ DOMAIN s.faults = D /\ s.t \in Nat /\ base \in Errors
      /\ \A k \in D : s.faults[k] \in Fault
  BY DEF Scheduled, NoError, Errors
<1>2. step \in [D \X Errors -> Errors]
  <2>1. \A k \in D, e \in Errors : Sensor(e, s.faults[k], s, tag) \in Errors
    BY <1>1, SensorStays
  <2> HIDE DEF D
  <2> QED BY <2>1
<1>3. \A k \in D, e \in Errors : step[k, e] = Sensor(e, s.faults[k], s, tag)
  OBVIOUS
<1> HIDE DEF step, base, n
<1>4. /\ LeftFolds(n, Errors, base, step) # {}
      /\ \A S \in SUBSET D : S # {} => Max(S) \in S
  BY <1>1, <1>2, LeftFoldExists
<1>5. PICK g \in [SUBSET D -> Errors] : \A S \in SUBSET D :
          g[S] = IF S = {} THEN base ELSE step[Max(S), g[S \ {Max(S)}]]
  BY <1>4 DEF LeftFolds
<1>6. SensorEquation(g, s, tag)
  <2>1. ASSUME NEW S \in SUBSET D, S # {}
        PROVE  g[S] = Sensor(g[S \ {Max(S)}], s.faults[Max(S)], s, tag)
    <3>1. Max(S) \in D /\ S \ {Max(S)} \in SUBSET D
      BY <1>4, <2>1
    <3>2. g[S] = step[Max(S), g[S \ {Max(S)}]] /\ g[S \ {Max(S)}] \in Errors
      BY <1>5, <2>1, <3>1
    <3> QED BY <1>3, <3>1, <3>2
  <2>2. g = [S \in SUBSET D |-> g[S]]
    BY <1>5
  <2>3. \A S \in SUBSET D :
          g[S] = IF S = {} THEN base
                 ELSE Sensor(g[S \ {Max(S)}], s.faults[Max(S)], s, tag)
    BY <1>5, <2>1
  <2> HIDE DEF D
  <2> QED BY <1>1, <2>2, <2>3 DEF SensorEquation, base
<1> DEFINE sol == CHOOSE h : SensorEquation(h, s, tag)
           trace == [k \in 0 .. n |-> sol[1 .. k]]
<1>7. SensorEquation(sol, s, tag)
  BY <1>6
<1>8. SensorEffect(s, tag) = sol[D]
  BY <1>1, SensorIsFold
<1> HIDE DEF sol
<1>9. sol[{}] = NoError
  BY <1>7 DEF SensorEquation
<1>10. ASSUME NEW k \in D
       PROVE  sol[1 .. k] = Sensor(sol[1 .. k - 1], s.faults[k], s, tag)
  <2>1. 1 .. k \in SUBSET DOMAIN s.faults /\ 1 .. k # {}
    <3>1. k \in 1 .. k /\ 1 .. k \in SUBSET D
      BY <1>1
    <3> HIDE DEF D
    <3> QED BY <1>1, <3>1
  <2>2. Max(1 .. k) = k /\ (1 .. k) \ {k} = 1 .. k - 1
    BY <1>1, LastOfInterval
  <2>3. \A S \in SUBSET DOMAIN s.faults : S # {} =>
          sol[S] = Sensor(sol[S \ {Max(S)}], s.faults[Max(S)], s, tag)
    BY <1>7 DEF SensorEquation
  <2> QED BY <2>1, <2>2, <2>3
<1>11. SensorTrace(trace, s, tag)
  <2>1. trace[0] = NoError
    <3>1. 1 .. 0 = {} /\ 0 \in 0 .. n
      BY <1>1
    <3> QED BY <1>9, <3>1
  <2>2. ASSUME NEW k \in D
        PROVE  trace[k] = Sensor(trace[k - 1], s.faults[k], s, tag)
    <3>1. k \in 0 .. n /\ k - 1 \in 0 .. n
      BY <1>1
    <3> QED BY <1>10, <3>1
  <2>3. trace[n] = SensorEffect(s, tag)
    <3>1. n \in 0 .. n
      BY <1>1
    <3> QED BY <1>8, <3>1
  <2> QED BY <2>1, <2>2, <2>3 DEF SensorTrace, n
<1> QED BY <1>11

-----------------------------------------------------------------------------
(* The effects with one fault more *)

\* w is the machine s with the fault a in addition, somewhere in its schedule.
Longer(w, s, a) ==
    \E p \in 1 .. Len(s.faults) + 1 : w.faults = InsertAt(s.faults, p, a)

Paired(w, s, a) ==
    /\ a \in Fault /\ Scheduled(s) /\ Scheduled(w) /\ Longer(w, s, a)
    /\ w.t = s.t /\ w.seed = s.seed /\ w.faultSeed = s.faultSeed

LEMMA Inserted ==
    ASSUME NEW S, NEW short \in Seq(S), NEW a \in S, NEW p \in 1 .. Len(short) + 1
    PROVE  LET long == InsertAt(short, p, a)
           IN  /\ long \in Seq(S) /\ Len(long) = Len(short) + 1 /\ long[p] = a
               /\ \A k \in 1 .. Len(short) :
                     /\ k < p => long[k] = short[k]
                     /\ k >= p => long[k + 1] = short[k]
<1> DEFINE n == Len(short)
           front == SubSeq(short, 1, p - 1)
           back == SubSeq(short, p, n)
           one == <<a>>
           long == (front \o one) \o back
<1>1. n \in Nat /\ p \in Nat /\ p >= 1 /\ p <= n + 1
  OBVIOUS
<1>2. /\ front \in Seq(S) /\ Len(front) = p - 1
      /\ \A k \in 1 .. p - 1 : front[k] = short[k]
  BY <1>1
<1>3. /\ back \in Seq(S) /\ Len(back) = n + 1 - p
      /\ \A k \in 1 .. n + 1 - p : back[k] = short[p + k - 1]
  BY <1>1
<1>4. one \in Seq(S) /\ Len(one) = 1 /\ one[1] = a
  OBVIOUS
<1>0. p - 1 \in Nat /\ n + 1 - p \in Nat
  BY <1>1
<1>5. InsertAt(short, p, a) = long
  BY DEF InsertAt
<1> HIDE DEF front, back, one, n
<1>6. /\ front \o one \in Seq(S) /\ Len(front \o one) = p
      /\ \A k \in 1 .. p - 1 : (front \o one)[k] = short[k]
      /\ (front \o one)[p] = a
  <2>1. Len(front \o one) = Len(front) + Len(one) /\ front \o one \in Seq(S)
    BY <1>2, <1>4, Concatenation
  <2>2. \A k \in 1 .. Len(front) : (front \o one)[k] = front[k]
    BY <1>2, <1>4, Concatenation
  <2>3. (front \o one)[Len(front) + 1] = one[1]
    BY <1>2, <1>4, Concatenation
  <2>4. p - 1 + 1 = p
    BY <1>1
  <2> QED BY <1>2, <1>4, <2>1, <2>2, <2>3, <2>4
<1> DEFINE start == front \o one
<1> HIDE DEF start
<1>7. /\ long \in Seq(S) /\ Len(long) = n + 1
      /\ \A k \in 1 .. p : long[k] = start[k]
      /\ \A k \in 1 .. n + 1 - p : long[p + k] = back[k]
  <2>1. start \in Seq(S) /\ Len(start) = p
    BY <1>6 DEF start
  <2>2. long = start \o back
    BY DEF start
  <2> HIDE DEF long
  <2>3. /\ Len(long) = Len(start) + Len(back) /\ long \in Seq(S)
        /\ \A k \in 1 .. Len(start) : long[k] = start[k]
        /\ \A k \in 1 .. Len(back) : long[Len(start) + k] = back[k]
    <3>1. start \in Seq(S) /\ back \in Seq(S)
      BY <1>3, <2>1
    <3> QED BY <2>2, <3>1, Concatenation
  <2>4. p + (n + 1 - p) = n + 1
    BY <1>1
  <2> QED BY <1>3, <2>1, <2>3, <2>4
<1> HIDE DEF long
<1>8. /\ long[p] = a /\ \A k \in 1 .. p - 1 : long[k] = short[k]
  <2>1. start[p] = a /\ \A k \in 1 .. p - 1 : start[k] = short[k]
    BY <1>6 DEF start
  <2>2. p \in 1 .. p /\ \A k \in 1 .. p - 1 : k \in 1 .. p
    BY <1>1
  <2> QED BY <1>7, <2>1, <2>2
<1>9. ASSUME NEW k \in 1 .. n, k >= p
      PROVE  long[k + 1] = short[k]
  <2> DEFINE i == k + 1 - p
  <2>1. i \in 1 .. n + 1 - p /\ p + i = k + 1 /\ p + i - 1 = k
    BY <1>1, <1>9
  <2>2. long[p + i] = short[p + i - 1]
    <3> HIDE DEF i
    <3> QED BY <1>3, <1>7, <2>1
  <2> QED BY <2>1, <2>2
<1>10. ASSUME NEW k \in 1 .. n, k < p
       PROVE  long[k] = short[k]
  BY <1>1, <1>8, <1>10
<1> QED BY <1>5, <1>7, <1>8, <1>9, <1>10 DEF n

LEMMA SameReach ==
    ASSUME NEW s, NEW w, w.t = s.t, w.faultSeed = s.faultSeed, NEW tag, NEW f, NEW e
    PROVE  /\ Process(e, f, w, tag) = Process(e, f, s, tag)
           /\ Sensor(e, f, w, tag) = Sensor(e, f, s, tag)
BY DEF Process, Sensor, Reaches

\* What the common faults and the additional one preserve relates the effects.
LEMMA EffectsRelated ==
    ASSUME NEW s, NEW w, NEW a, Paired(w, s, a), NEW tag, NEW R,
           <<NoEffect(s), NoEffect(w)>> \in R,
           \A e, d : <<e, d>> \in R => <<e, Process(d, a, s, tag)>> \in R,
           \A k \in DOMAIN s.faults : \A e, d : <<e, d>> \in R =>
              <<Process(e, s.faults[k], s, tag), Process(d, s.faults[k], s, tag)>> \in R
    PROVE  <<ProcessEffect(s, tag), ProcessEffect(w, tag)>> \in R
<1> DEFINE n == Len(s.faults)
<1>1. PICK p \in 1 .. n + 1 : w.faults = InsertAt(s.faults, p, a)
  BY DEF Paired, Longer
<1>2. /\ n \in Nat /\ DOMAIN s.faults = 1 .. n
      /\ Len(w.faults) = n + 1 /\ w.faults[p] = a
      /\ \A k \in 1 .. n : /\ k < p => w.faults[k] = s.faults[k]
                           /\ k >= p => w.faults[k + 1] = s.faults[k]
  <2> DEFINE short == s.faults
  <2>1. short \in Seq(Fault) /\ a \in Fault /\ p \in 1 .. Len(short) + 1
    BY DEF Paired, Scheduled
  <2>2. w.faults = InsertAt(short, p, a)
    BY <1>1
  <2> HIDE DEF short
  <2>3. /\ Len(w.faults) = Len(short) + 1 /\ w.faults[p] = a
        /\ \A k \in 1 .. Len(short) : /\ k < p => w.faults[k] = short[k]
                                      /\ k >= p => w.faults[k + 1] = short[k]
    BY <2>1, <2>2, Inserted
  <2>4. Len(short) \in Nat /\ DOMAIN short = 1 .. Len(short)
    BY <2>1
  <2> QED BY <2>3, <2>4 DEF short
<1>3. PICK g : ProcessTrace(g, s, tag)
  BY ProcessTraceExists DEF Paired
<1>4. PICK h : ProcessTrace(h, w, tag)
  BY ProcessTraceExists DEF Paired
<1>5. \A f, e : Process(e, f, w, tag) = Process(e, f, s, tag)
  BY SameReach DEF Paired
<1>6. /\ g[0] = NoEffect(s) /\ g[n] = ProcessEffect(s, tag)
      /\ \A k \in 1 .. n : g[k] = Process(g[k - 1], s.faults[k], s, tag)
  BY <1>3 DEF ProcessTrace
<1> HIDE DEF n
<1>7. /\ h[0] = NoEffect(w) /\ h[n + 1] = ProcessEffect(w, tag)
      /\ \A k \in 1 .. n + 1 : h[k] = Process(h[k - 1], w.faults[k], s, tag)
  BY <1>2, <1>4, <1>5 DEF ProcessTrace
<1>8. StepsKeep(R, g, h, n, p)
  <2>1. ASSUME NEW k \in 1 .. n, k < p, <<g[k - 1], h[k - 1]>> \in R
        PROVE  <<g[k], h[k]>> \in R
    <3>1. k \in 1 .. n + 1
      BY <1>2
    <3>2. h[k] = Process(h[k - 1], s.faults[k], s, tag)
      BY <1>2, <1>7, <2>1, <3>1
    <3>3. g[k] = Process(g[k - 1], s.faults[k], s, tag) /\ k \in DOMAIN s.faults
      BY <1>2, <1>6
    <3> QED BY <2>1, <3>2, <3>3
  <2>2. ASSUME NEW k \in 1 .. n, k >= p, <<g[k - 1], h[k]>> \in R
        PROVE  <<g[k], h[k + 1]>> \in R
    <3>1. k + 1 \in 1 .. n + 1 /\ k + 1 - 1 = k
      BY <1>2
    <3>2. h[k + 1] = Process(h[k], s.faults[k], s, tag)
      BY <1>2, <1>7, <2>2, <3>1
    <3>3. g[k] = Process(g[k - 1], s.faults[k], s, tag) /\ k \in DOMAIN s.faults
      BY <1>2, <1>6
    <3> QED BY <2>2, <3>2, <3>3
  <2> QED BY <2>1, <2>2 DEF StepsKeep
<1>9. <<g[p - 1], h[p - 1]>> \in R => <<g[p - 1], h[p]>> \in R
  <2>1. h[p] = Process(h[p - 1], a, s, tag)
    BY <1>2, <1>7
  <2> QED BY <2>1
<1>10. <<g[n], h[n + 1]>> \in R
  BY <1>2, <1>6, <1>7, <1>8, <1>9, TracesStayRelated
<1> QED BY <1>6, <1>7, <1>10

LEMMA ErrorsRelated ==
    ASSUME NEW s, NEW w, NEW a, Paired(w, s, a), NEW tag, NEW R,
           <<NoError, NoError>> \in R,
           \A e, d : <<e, d>> \in R => <<e, Sensor(d, a, s, tag)>> \in R,
           \A k \in DOMAIN s.faults : \A e, d : <<e, d>> \in R =>
              <<Sensor(e, s.faults[k], s, tag), Sensor(d, s.faults[k], s, tag)>> \in R
    PROVE  <<SensorEffect(s, tag), SensorEffect(w, tag)>> \in R
<1> DEFINE n == Len(s.faults)
<1>1. PICK p \in 1 .. n + 1 : w.faults = InsertAt(s.faults, p, a)
  BY DEF Paired, Longer
<1>2. /\ n \in Nat /\ DOMAIN s.faults = 1 .. n
      /\ Len(w.faults) = n + 1 /\ w.faults[p] = a
      /\ \A k \in 1 .. n : /\ k < p => w.faults[k] = s.faults[k]
                           /\ k >= p => w.faults[k + 1] = s.faults[k]
  <2> DEFINE short == s.faults
  <2>1. short \in Seq(Fault) /\ a \in Fault /\ p \in 1 .. Len(short) + 1
    BY DEF Paired, Scheduled
  <2>2. w.faults = InsertAt(short, p, a)
    BY <1>1
  <2> HIDE DEF short
  <2>3. /\ Len(w.faults) = Len(short) + 1 /\ w.faults[p] = a
        /\ \A k \in 1 .. Len(short) : /\ k < p => w.faults[k] = short[k]
                                      /\ k >= p => w.faults[k + 1] = short[k]
    BY <2>1, <2>2, Inserted
  <2>4. Len(short) \in Nat /\ DOMAIN short = 1 .. Len(short)
    BY <2>1
  <2> QED BY <2>3, <2>4 DEF short
<1>3. PICK g : SensorTrace(g, s, tag)
  BY SensorTraceExists DEF Paired
<1>4. PICK h : SensorTrace(h, w, tag)
  BY SensorTraceExists DEF Paired
<1>5. \A f, e : Sensor(e, f, w, tag) = Sensor(e, f, s, tag)
  BY SameReach DEF Paired
<1>6. /\ g[0] = NoError /\ g[n] = SensorEffect(s, tag)
      /\ \A k \in 1 .. n : g[k] = Sensor(g[k - 1], s.faults[k], s, tag)
  BY <1>3 DEF SensorTrace
<1> HIDE DEF n
<1>7. /\ h[0] = NoError /\ h[n + 1] = SensorEffect(w, tag)
      /\ \A k \in 1 .. n + 1 : h[k] = Sensor(h[k - 1], w.faults[k], s, tag)
  BY <1>2, <1>4, <1>5 DEF SensorTrace
<1>8. StepsKeep(R, g, h, n, p)
  <2>1. ASSUME NEW k \in 1 .. n, k < p, <<g[k - 1], h[k - 1]>> \in R
        PROVE  <<g[k], h[k]>> \in R
    <3>1. k \in 1 .. n + 1
      BY <1>2
    <3>2. h[k] = Sensor(h[k - 1], s.faults[k], s, tag)
      BY <1>2, <1>7, <2>1, <3>1
    <3>3. g[k] = Sensor(g[k - 1], s.faults[k], s, tag) /\ k \in DOMAIN s.faults
      BY <1>2, <1>6
    <3> QED BY <2>1, <3>2, <3>3
  <2>2. ASSUME NEW k \in 1 .. n, k >= p, <<g[k - 1], h[k]>> \in R
        PROVE  <<g[k], h[k + 1]>> \in R
    <3>1. k + 1 \in 1 .. n + 1 /\ k + 1 - 1 = k
      BY <1>2
    <3>2. h[k + 1] = Sensor(h[k], s.faults[k], s, tag)
      BY <1>2, <1>7, <2>2, <3>1
    <3>3. g[k] = Sensor(g[k - 1], s.faults[k], s, tag) /\ k \in DOMAIN s.faults
      BY <1>2, <1>6
    <3> QED BY <2>2, <3>2, <3>3
  <2> QED BY <2>1, <2>2 DEF StepsKeep
<1>9. <<g[p - 1], h[p - 1]>> \in R => <<g[p - 1], h[p]>> \in R
  <2>1. h[p] = Sensor(h[p - 1], a, s, tag)
    BY <1>2, <1>7
  <2> QED BY <2>1
<1>10. <<g[n], h[n + 1]>> \in R
  BY <1>2, <1>6, <1>7, <1>8, <1>9, TracesStayRelated
<1> QED BY <1>6, <1>7, <1>10

\* Two effects of one size; with same, both drew equally often.
EqualEffects(e, d, same) ==
    /\ e.offset = d.offset /\ e.spread = d.spread /\ e.spike = d.spike
    /\ same => e.faultPos = d.faultPos

\* A fault preserves that, unless it draws and the generators differ.
LEMMA ProcessKeeps ==
    ASSUME NEW e \in Effects, NEW d \in Effects, NEW same \in BOOLEAN,
           EqualEffects(e, d, same), NEW f \in Fault, NEW s, s.t \in Nat, NEW tag,
           same \/ ~ (f.kind = "Outlier" /\ f.tag = tag)
    PROVE  EqualEffects(Process(e, f, s, tag), Process(d, f, s, tag), same)
<1> DEFINE worn == f.size * (s.t - f.start)
           shift == f.size * StdDev[f.tag]
           jolt(k) == IF Low(Stream[s.faultSeed][k + 1]) THEN -shift ELSE shift
<1>3. CASE ~ Reaches(f, s, tag)
  BY <1>3 DEF Process
<1>4. CASE Reaches(f, s, tag) /\ f.kind = "ToolWear"
  <2>1. /\ Process(e, f, s, tag) = [e EXCEPT !.offset = @ + worn]
        /\ Process(d, f, s, tag) = [d EXCEPT !.offset = @ + worn]
    BY <1>4 DEF Process, SensorFaults
  <2> HIDE DEF worn
  <2> QED BY <2>1 DEF Effects, EqualEffects
<1>5. CASE Reaches(f, s, tag) /\ f.kind = "MeanShift"
  <2>1. /\ Process(e, f, s, tag) = [e EXCEPT !.offset = @ + shift]
        /\ Process(d, f, s, tag) = [d EXCEPT !.offset = @ + shift]
    BY <1>5 DEF Process, SensorFaults
  <2> HIDE DEF shift
  <2> QED BY <2>1 DEF Effects, EqualEffects
<1>6. CASE Reaches(f, s, tag) /\ f.kind = "VarianceInflation"
  <2> DEFINE wide == e.spread * f.size
  <2>1. /\ Process(e, f, s, tag) = [e EXCEPT !.spread = wide]
        /\ Process(d, f, s, tag) = [d EXCEPT !.spread = wide]
    BY <1>6 DEF Process, SensorFaults, EqualEffects
  <2> HIDE DEF wide
  <2> QED BY <2>1 DEF Effects, EqualEffects
<1>7. CASE Reaches(f, s, tag) /\ f.kind = "Outlier"
  <2>1. \A c : Process(c, f, s, tag) =
          IF ~ Low(Stream[s.faultSeed][c.faultPos]) THEN [c EXCEPT !.faultPos = @ + 1]
          ELSE IF ~ f.both THEN [c EXCEPT !.faultPos = @ + 1, !.spike = @ + shift]
          ELSE [c EXCEPT !.faultPos = @ + 2, !.spike = @ + jolt(c.faultPos)]
    BY <1>7 DEF Process, SensorFaults, Spike
  <2>2. e.faultPos = d.faultPos /\ e.spike = d.spike
    BY <1>7 DEF EqualEffects, Reaches
  <2> HIDE DEF jolt
  <2> DEFINE low == Low(Stream[s.faultSeed][e.faultPos])
             j == jolt(e.faultPos)
  <2>3. \A c \in {e, d} : Process(c, f, s, tag) =
          IF ~ low THEN [c EXCEPT !.faultPos = @ + 1]
          ELSE IF ~ f.both THEN [c EXCEPT !.faultPos = @ + 1, !.spike = @ + shift]
          ELSE [c EXCEPT !.faultPos = @ + 2, !.spike = @ + j]
    BY <2>1, <2>2
  <2> HIDE DEF low, j, shift
  <2>4. CASE low
    BY <2>2, <2>3, <2>4 DEF Effects, EqualEffects
  <2>5. CASE ~ low
    BY <2>2, <2>3, <2>5 DEF Effects, EqualEffects
  <2> QED BY <2>4, <2>5
<1>8. CASE Reaches(f, s, tag) /\ f.kind \in SensorFaults
  BY <1>8 DEF Process, SensorFaults
<1> QED BY <1>3, <1>4, <1>5, <1>6, <1>7, <1>8, FaultFields DEF ProcessFaults

\* Equally many draws stay equally many, whatever the sizes.
LEMMA ProcessDraws ==
    ASSUME NEW e \in Effects, NEW d \in Effects, e.faultPos = d.faultPos,
           NEW f \in Fault, NEW s, NEW tag
    PROVE  Process(e, f, s, tag).faultPos = Process(d, f, s, tag).faultPos
<1>1. CASE ~ Reaches(f, s, tag)
  BY <1>1 DEF Process
<1>2. CASE Reaches(f, s, tag) /\ f.kind = "Outlier"
  BY <1>2 DEF Process, SensorFaults, Spike, Effects
<1>3. CASE Reaches(f, s, tag) /\ f.kind # "Outlier"
  <2>1. ASSUME NEW c \in Effects
        PROVE  Process(c, f, s, tag).faultPos = c.faultPos
    BY <1>3, FaultFields DEF Process, ProcessFaults, SensorFaults, Effects
  <2> QED BY <2>1
<1> QED BY <1>1, <1>2, <1>3

\* Some fault of s is of this kind and on this tag.
Holds(s, kind, tag) ==
    \E i \in DOMAIN s.faults : s.faults[i].kind = kind /\ s.faults[i].tag = tag

LEMMA ScheduledFaults ==
    ASSUME NEW s, Scheduled(s)
    PROVE  /\ Len(s.faults) \in Nat /\ DOMAIN s.faults = 1 .. Len(s.faults)
           /\ \A k \in DOMAIN s.faults : s.faults[k] \in Fault
BY DEF Scheduled

LEMMA EffectType ==
    ASSUME NEW s, Scheduled(s), NEW tag
    PROVE  ProcessEffect(s, tag) \in Effects
<1> DEFINE n == Len(s.faults)
<1>1. PICK g : ProcessTrace(g, s, tag)
  BY ProcessTraceExists
<1>2. n \in Nat /\ \A k \in 1 .. n : s.faults[k] \in Fault
  BY ScheduledFaults
<1>3. g[0] \in Effects
  BY <1>1 DEF ProcessTrace, NoEffect, Effects, Scheduled
<1>4. ASSUME NEW k \in 1 .. n, g[k - 1] \in Effects
      PROVE  g[k] \in Effects
  <2>1. g[k] = Process(g[k - 1], s.faults[k], s, tag) /\ s.t \in Nat
    BY <1>1 DEF ProcessTrace, Scheduled
  <2> QED BY <1>2, <1>4, <2>1, ProcessStays
<1>5. g[n] \in Effects
  <2> HIDE DEF n
  <2>1. \A k \in 0 .. n : g[k] \in Effects
    BY <1>2, <1>3, <1>4, TraceStays
  <2> QED BY <1>2, <2>1
<1> QED BY <1>1, <1>5 DEF ProcessTrace

\* What the errors of a gauge come from: it is noisy under a fault that makes
\* it noisy, and stuck under one that sticks it.
LEMMA ErrorType ==
    ASSUME NEW s, Scheduled(s), NEW tag
    PROVE  LET e == SensorEffect(s, tag)
           IN  /\ e \in Errors
               /\ e.extra > 0 => Holds(s, "SensorNoise", tag)
               /\ e.frozen => Holds(s, "SensorStuck", tag)
<1> DEFINE n == Len(s.faults)
           W == {e \in Errors : /\ e.extra > 0 => Holds(s, "SensorNoise", tag)
                                /\ e.frozen => Holds(s, "SensorStuck", tag)}
<1>1. PICK g : SensorTrace(g, s, tag)
  BY SensorTraceExists
<1>2. n \in Nat /\ DOMAIN s.faults = 1 .. n /\ \A k \in 1 .. n : s.faults[k] \in Fault
  BY ScheduledFaults
<1>3. g[0] \in W
  <2>1. g[0] = NoError
    BY <1>1 DEF SensorTrace
  <2> QED BY <2>1 DEF NoError, Errors
<1>4. ASSUME NEW k \in 1 .. n, g[k - 1] \in W
      PROVE  g[k] \in W
  <2> DEFINE e == g[k - 1]
             f == s.faults[k]
  <2>1. g[k] = Sensor(e, f, s, tag) /\ s.t \in Nat /\ f \in Fault
    BY <1>1, <1>2 DEF SensorTrace, Scheduled
  <2>2. g[k] \in Errors
    BY <1>4, <2>1, SensorStays
  <2>3. f.kind = "SensorNoise" /\ f.tag = tag => Holds(s, "SensorNoise", tag)
    BY <1>2 DEF Holds
  <2>4. f.kind = "SensorStuck" /\ f.tag = tag => Holds(s, "SensorStuck", tag)
    BY <1>2 DEF Holds
  <2>5. e \in Errors /\ (e.extra > 0 => Holds(s, "SensorNoise", tag))
        /\ (e.frozen => Holds(s, "SensorStuck", tag))
    BY <1>4
  <2> HIDE DEF e, f
  <2>6. (g[k].extra = e.extra \/ (f.kind = "SensorNoise" /\ f.tag = tag))
        /\ (g[k].frozen = e.frozen \/ (f.kind = "SensorStuck" /\ f.tag = tag))
    <3>1. CASE ~ Reaches(f, s, tag)
      BY <2>1, <3>1 DEF Sensor
    <3>2. CASE Reaches(f, s, tag) /\ f.kind \in ProcessFaults
      BY <2>1, <3>2 DEF Sensor, ProcessFaults
    <3>3. CASE Reaches(f, s, tag) /\ f.kind = "SensorDrift"
      BY <2>1, <2>5, <3>3 DEF Sensor, ProcessFaults, Errors
    <3>4. CASE Reaches(f, s, tag) /\ f.kind = "SensorStuck"
      BY <2>1, <2>5, <3>4 DEF Sensor, ProcessFaults, Errors, Reaches
    <3>5. CASE Reaches(f, s, tag) /\ f.kind = "SensorNoise"
      BY <2>1, <2>5, <3>5 DEF Sensor, ProcessFaults, Errors, Reaches
    <3> QED BY <2>1, <3>1, <3>2, <3>3, <3>4, <3>5, FaultFields DEF SensorFaults
  <2> QED BY <2>2, <2>3, <2>4, <2>5, <2>6
<1>5. g[n] \in W
  <2> HIDE DEF n, W
  <2>1. \A k \in 0 .. n : g[k] \in W
    BY <1>2, <1>3, <1>4, TraceStays
  <2> QED BY <1>2, <2>1
<1>6. g[n] = SensorEffect(s, tag)
  BY <1>1 DEF SensorTrace
<1> QED BY <1>5, <1>6

\* A fault that does not run, of another tag, or of a sensor: nothing happens.
LEMMA InertProcess ==
    ASSUME NEW f \in Fault, NEW s, NEW tag, NEW e,
           ~ (f.kind \in ProcessFaults /\ Reaches(f, s, tag))
    PROVE  Process(e, f, s, tag) = e
BY FaultFields DEF Process, ProcessFaults, SensorFaults

LEMMA InertSensor ==
    ASSUME NEW f \in Fault, NEW s, NEW tag, NEW e,
           ~ (f.kind \in SensorFaults /\ Reaches(f, s, tag))
    PROVE  Sensor(e, f, s, tag) = e
BY FaultFields DEF Sensor, ProcessFaults, SensorFaults

\* One draw on both machines, if the additional fault does not reach it: the
\* effects are equal, if the generators are where they were or no outlier draws.
LEMMA EffectsEqual ==
    ASSUME NEW s, NEW w, NEW a, Paired(w, s, a), NEW tag, NEW same \in BOOLEAN,
           same => w.faultPos = s.faultPos, same \/ ~ Holds(s, "Outlier", tag),
           ~ (a.kind \in ProcessFaults /\ Reaches(a, s, tag))
    PROVE  EqualEffects(ProcessEffect(s, tag), ProcessEffect(w, tag), same)
<1> DEFINE R == {q \in Effects \X Effects : EqualEffects(q[1], q[2], same)}
<1>1. a \in Fault /\ Scheduled(s) /\ Scheduled(w) /\ s.t \in Nat
  BY DEF Paired, Scheduled
<1>2. <<NoEffect(s), NoEffect(w)>> \in R
  BY <1>1 DEF NoEffect, Effects, EqualEffects, Scheduled
<1>3. ASSUME NEW e, NEW d, <<e, d>> \in R
      PROVE  <<e, Process(d, a, s, tag)>> \in R
  BY <1>1, <1>3, InertProcess
<1>4. ASSUME NEW k \in DOMAIN s.faults, NEW e, NEW d, <<e, d>> \in R
      PROVE  <<Process(e, s.faults[k], s, tag), Process(d, s.faults[k], s, tag)>> \in R
  <2> DEFINE f == s.faults[k]
  <2>1. f \in Fault /\ (same \/ ~ (f.kind = "Outlier" /\ f.tag = tag))
    BY <1>1, ScheduledFaults DEF Holds
  <2>2. e \in Effects /\ d \in Effects /\ EqualEffects(e, d, same)
    BY <1>4
  <2> HIDE DEF f
  <2>3. Process(e, f, s, tag) \in Effects /\ Process(d, f, s, tag) \in Effects
    BY <1>1, <2>1, <2>2, ProcessStays
  <2>4. EqualEffects(Process(e, f, s, tag), Process(d, f, s, tag), same)
    BY <1>1, <2>1, <2>2, ProcessKeeps
  <2> QED BY <2>3, <2>4 DEF f
<1> HIDE DEF R
<1>5. <<ProcessEffect(s, tag), ProcessEffect(w, tag)>> \in R
  BY <1>2, <1>3, <1>4, EffectsRelated
<1> QED BY <1>5 DEF R

\* If the additional fault is no outlier, it leaves the draws of the others.
LEMMA EffectsDraw ==
    ASSUME NEW s, NEW w, NEW a, Paired(w, s, a), NEW tag,
           w.faultPos = s.faultPos, a.kind # "Outlier"
    PROVE  ProcessEffect(s, tag).faultPos = ProcessEffect(w, tag).faultPos
<1> DEFINE R == {q \in Effects \X Effects : q[1].faultPos = q[2].faultPos}
<1>1. a \in Fault /\ Scheduled(s) /\ Scheduled(w) /\ s.t \in Nat
  BY DEF Paired, Scheduled
<1>2. <<NoEffect(s), NoEffect(w)>> \in R
  BY <1>1 DEF NoEffect, Effects, Scheduled
<1>3. ASSUME NEW e, NEW d, <<e, d>> \in R
      PROVE  <<e, Process(d, a, s, tag)>> \in R
  <2>1. e \in Effects /\ d \in Effects /\ e.faultPos = d.faultPos
    BY <1>3
  <2>2. Process(d, a, s, tag) \in Effects
    BY <1>1, <2>1, ProcessStays
  <2>3. Process(d, a, s, tag).faultPos = d.faultPos
    BY <1>1, <2>1, FaultFields DEF Process, ProcessFaults, SensorFaults, Effects
  <2> QED BY <2>1, <2>2, <2>3
<1>4. ASSUME NEW k \in DOMAIN s.faults, NEW e, NEW d, <<e, d>> \in R
      PROVE  <<Process(e, s.faults[k], s, tag), Process(d, s.faults[k], s, tag)>> \in R
  <2> DEFINE f == s.faults[k]
  <2>1. f \in Fault
    BY <1>1, ScheduledFaults
  <2>2. e \in Effects /\ d \in Effects /\ e.faultPos = d.faultPos
    BY <1>4
  <2> HIDE DEF f
  <2>3. Process(e, f, s, tag) \in Effects /\ Process(d, f, s, tag) \in Effects
    BY <1>1, <2>1, <2>2, ProcessStays
  <2>4. Process(e, f, s, tag).faultPos = Process(d, f, s, tag).faultPos
    BY <2>1, <2>2, ProcessDraws
  <2> QED BY <2>3, <2>4 DEF f
<1> HIDE DEF R
<1>5. <<ProcessEffect(s, tag), ProcessEffect(w, tag)>> \in R
  BY <1>2, <1>3, <1>4, EffectsRelated
<1> QED BY <1>5 DEF R

LEMMA ErrorsEqual ==
    ASSUME NEW s, NEW w, NEW a, Paired(w, s, a), NEW tag,
           ~ (a.kind \in SensorFaults /\ Reaches(a, s, tag))
    PROVE  SensorEffect(s, tag) = SensorEffect(w, tag)
<1> DEFINE R == {q \in Errors \X Errors : q[1] = q[2]}
<1>1. a \in Fault /\ Scheduled(s) /\ Scheduled(w) /\ s.t \in Nat
  BY DEF Paired, Scheduled
<1>2. <<NoError, NoError>> \in R
  <2>1. NoError \in Errors
    BY DEF NoError, Errors
  <2> QED BY <2>1
<1>3. ASSUME NEW e, NEW d, <<e, d>> \in R
      PROVE  <<e, Sensor(d, a, s, tag)>> \in R
  BY <1>1, <1>3, InertSensor
<1>4. ASSUME NEW k \in DOMAIN s.faults, NEW e, NEW d, <<e, d>> \in R
      PROVE  <<Sensor(e, s.faults[k], s, tag), Sensor(d, s.faults[k], s, tag)>> \in R
  <2>1. s.faults[k] \in Fault /\ e \in Errors /\ e = d
    BY <1>1, <1>4, ScheduledFaults
  <2>2. Sensor(e, s.faults[k], s, tag) \in Errors
    BY <1>1, <2>1, SensorStays
  <2> QED BY <2>1, <2>2
<1> HIDE DEF R
<1>5. <<SensorEffect(s, tag), SensorEffect(w, tag)>> \in R
  BY <1>2, <1>3, <1>4, ErrorsRelated
<1> QED BY <1>5 DEF R

\* Each kind of sensor fault changes one thing about the gauge.
LEMMA SensorKeeps ==
    ASSUME NEW e \in Errors, NEW d \in Errors, NEW f \in Fault, NEW s, NEW tag
    PROVE  /\ e.extra = d.extra =>
                Sensor(e, f, s, tag).extra = Sensor(d, f, s, tag).extra
           /\ e.frozen = d.frozen =>
                Sensor(e, f, s, tag).frozen = Sensor(d, f, s, tag).frozen
           /\ f.kind # "SensorNoise" => Sensor(e, f, s, tag).extra = e.extra
           /\ f.kind # "SensorStuck" => Sensor(e, f, s, tag).frozen = e.frozen
<1>1. CASE ~ Reaches(f, s, tag)
  BY <1>1 DEF Sensor
<1>2. CASE Reaches(f, s, tag) /\ f.kind \in ProcessFaults
  BY <1>2 DEF Sensor, ProcessFaults
<1>3. CASE Reaches(f, s, tag) /\ f.kind = "SensorDrift"
  BY <1>3 DEF Sensor, ProcessFaults, Errors
<1>4. CASE Reaches(f, s, tag) /\ f.kind = "SensorStuck"
  BY <1>4 DEF Sensor, ProcessFaults, Errors
<1>5. CASE Reaches(f, s, tag) /\ f.kind = "SensorNoise"
  BY <1>5 DEF Sensor, ProcessFaults, Errors
<1> QED BY <1>1, <1>2, <1>3, <1>4, <1>5, FaultFields DEF SensorFaults

LEMMA ExtraEqual ==
    ASSUME NEW s, NEW w, NEW a, Paired(w, s, a), NEW tag, a.kind # "SensorNoise"
    PROVE  SensorEffect(s, tag).extra = SensorEffect(w, tag).extra
<1> DEFINE R == {q \in Errors \X Errors : q[1].extra = q[2].extra}
<1>1. a \in Fault /\ Scheduled(s) /\ Scheduled(w) /\ s.t \in Nat
  BY DEF Paired, Scheduled
<1>2. <<NoError, NoError>> \in R
  <2>1. NoError \in Errors
    BY DEF NoError, Errors
  <2> QED BY <2>1
<1>3. ASSUME NEW e, NEW d, <<e, d>> \in R
      PROVE  <<e, Sensor(d, a, s, tag)>> \in R
  <2>1. e \in Errors /\ d \in Errors /\ e.extra = d.extra
    BY <1>3
  <2>2. Sensor(d, a, s, tag) \in Errors /\ Sensor(d, a, s, tag).extra = d.extra
    BY <1>1, <2>1, SensorStays, SensorKeeps
  <2> QED BY <2>1, <2>2
<1>4. ASSUME NEW k \in DOMAIN s.faults, NEW e, NEW d, <<e, d>> \in R
      PROVE  <<Sensor(e, s.faults[k], s, tag), Sensor(d, s.faults[k], s, tag)>> \in R
  <2> DEFINE f == s.faults[k]
  <2>1. f \in Fault /\ e \in Errors /\ d \in Errors /\ e.extra = d.extra
    BY <1>1, <1>4, ScheduledFaults
  <2> HIDE DEF f
  <2>2. Sensor(e, f, s, tag) \in Errors /\ Sensor(d, f, s, tag) \in Errors
    BY <1>1, <2>1, SensorStays
  <2>3. Sensor(e, f, s, tag).extra = Sensor(d, f, s, tag).extra
    BY <2>1, SensorKeeps
  <2> QED BY <2>2, <2>3 DEF f
<1> HIDE DEF R
<1>5. <<SensorEffect(s, tag), SensorEffect(w, tag)>> \in R
  BY <1>2, <1>3, <1>4, ErrorsRelated
<1> QED BY <1>5 DEF R

LEMMA FrozenEqual ==
    ASSUME NEW s, NEW w, NEW a, Paired(w, s, a), NEW tag, a.kind # "SensorStuck"
    PROVE  SensorEffect(s, tag).frozen = SensorEffect(w, tag).frozen
<1> DEFINE R == {q \in Errors \X Errors : q[1].frozen = q[2].frozen}
<1>1. a \in Fault /\ Scheduled(s) /\ Scheduled(w) /\ s.t \in Nat
  BY DEF Paired, Scheduled
<1>2. <<NoError, NoError>> \in R
  <2>1. NoError \in Errors
    BY DEF NoError, Errors
  <2> QED BY <2>1
<1>3. ASSUME NEW e, NEW d, <<e, d>> \in R
      PROVE  <<e, Sensor(d, a, s, tag)>> \in R
  <2>1. e \in Errors /\ d \in Errors /\ e.frozen = d.frozen
    BY <1>3
  <2>2. Sensor(d, a, s, tag) \in Errors /\ Sensor(d, a, s, tag).frozen = d.frozen
    BY <1>1, <2>1, SensorStays, SensorKeeps
  <2> QED BY <2>1, <2>2
<1>4. ASSUME NEW k \in DOMAIN s.faults, NEW e, NEW d, <<e, d>> \in R
      PROVE  <<Sensor(e, s.faults[k], s, tag), Sensor(d, s.faults[k], s, tag)>> \in R
  <2> DEFINE f == s.faults[k]
  <2>1. f \in Fault /\ e \in Errors /\ d \in Errors /\ e.frozen = d.frozen
    BY <1>1, <1>4, ScheduledFaults
  <2> HIDE DEF f
  <2>2. Sensor(e, f, s, tag) \in Errors /\ Sensor(d, f, s, tag) \in Errors
    BY <1>1, <2>1, SensorStays
  <2>3. Sensor(e, f, s, tag).frozen = Sensor(d, f, s, tag).frozen
    BY <2>1, SensorKeeps
  <2> QED BY <2>2, <2>3 DEF f
<1> HIDE DEF R
<1>5. <<SensorEffect(s, tag), SensorEffect(w, tag)>> \in R
  BY <1>2, <1>3, <1>4, ErrorsRelated
<1> QED BY <1>5 DEF R

\* One fault more moves the draws of a schedule: MovesDraws, for any machine.
Moves(a, s) ==
    \/ a.kind \in {"Outlier", "SensorNoise"}
    \/ a.kind = "SensorStuck" /\ Holds(s, "SensorNoise", a.tag)

\* A fault that moves no draws does not change which gauges draw.
LEMMA NoisyEqual ==
    ASSUME NEW s, NEW w, NEW a, Paired(w, s, a), NEW tag, ~ Moves(a, s)
    PROVE  Noisy(SensorEffect(s, tag)) <=> Noisy(SensorEffect(w, tag))
<1> DEFINE e == SensorEffect(s, tag)
           d == SensorEffect(w, tag)
<1>1. e \in Errors /\ d \in Errors /\ (e.extra > 0 => Holds(s, "SensorNoise", tag))
  BY ErrorType DEF Paired
<1>2. e.extra = d.extra
  BY ExtraEqual DEF Moves
<1>3. CASE a.kind = "SensorStuck" /\ a.tag = tag
  <2>1. ~ (e.extra > 0)
    BY <1>1, <1>3 DEF Moves
  <2>2. ~ Noisy(e) /\ ~ Noisy(d)
    BY <1>2, <2>1 DEF Noisy
  <2> QED BY <2>2
<1>4. CASE a.kind # "SensorStuck"
  <2>1. e.frozen = d.frozen
    BY <1>4, FrozenEqual
  <2> QED BY <1>2, <2>1 DEF Noisy
<1>5. CASE a.tag # tag
  <2>1. e = d
    BY <1>5, ErrorsEqual DEF Reaches
  <2> QED BY <2>1
<1> QED BY <1>3, <1>4, <1>5

-----------------------------------------------------------------------------
(* What the operations of a machine change *)

Shaped(s) ==
    s = [faults |-> s.faults, seed |-> s.seed, faultSeed |-> s.faultSeed,
         t |-> s.t, parts |-> s.parts, scrap |-> s.scrap,
         noisePos |-> s.noisePos, faultPos |-> s.faultPos, nextPart |-> s.nextPart,
         published |-> s.published, truth |-> s.truth]

\* Neither drawing nor publishing changes these.
SameRun(d, s) ==
    d.faults = s.faults /\ d.seed = s.seed /\ d.faultSeed = s.faultSeed /\ d.t = s.t
SameParts(d, s) ==
    d.parts = s.parts /\ d.scrap = s.scrap /\ d.nextPart = s.nextPart

LEMMA DrawFields ==
    ASSUME NEW s, Shaped(s), NEW tag
    PROVE  LET e == ProcessEffect(s, tag)
               d == Draw(s, tag)
           IN  /\ Shaped(d) /\ SameRun(d, s) /\ SameParts(d, s)
               /\ d.published = s.published /\ d.faultPos = e.faultPos
               /\ d.noisePos = IF Spread(tag) * e.spread > 0 THEN s.noisePos + 1 ELSE s.noisePos
               /\ d.truth = [s.truth EXCEPT ![tag] = Floored(tag, Value(s, tag, e))]
<1> DEFINE e == ProcessEffect(s, tag)
           v == Floored(tag, Value(s, tag, e))
           more == Spread(tag) * e.spread > 0
<1>1. Draw(s, tag) = [s EXCEPT !.faultPos = e.faultPos,
                               !.noisePos = IF more THEN @ + 1 ELSE @,
                               !.truth = [@ EXCEPT ![tag] = v]]
  BY DEF Draw
<1> HIDE DEF e, v, more
<1> DEFINE d == [faults |-> s.faults, seed |-> s.seed, faultSeed |-> s.faultSeed,
                 t |-> s.t, parts |-> s.parts, scrap |-> s.scrap,
                 noisePos |-> IF more THEN s.noisePos + 1 ELSE s.noisePos,
                 faultPos |-> e.faultPos, nextPart |-> s.nextPart,
                 published |-> s.published, truth |-> [s.truth EXCEPT ![tag] = v]]
<1>2. Draw(s, tag) = d
  BY <1>1 DEF Shaped
<1> QED BY <1>2 DEF Shaped, SameRun, SameParts, e, v, more

LEMMA PublishFields ==
    ASSUME NEW s, Shaped(s), NEW tag
    PROVE  LET e == SensorEffect(s, tag)
               d == Publish(s, tag)
           IN  /\ Shaped(d) /\ SameRun(d, s) /\ SameParts(d, s)
               /\ d.truth = s.truth /\ d.noisePos = s.noisePos
               /\ d.faultPos = IF Noisy(e) THEN s.faultPos + 1 ELSE s.faultPos
               /\ DOMAIN d.published = DOMAIN s.published \cup {tag}
               /\ \A other \in DOMAIN s.published :
                     other # tag => d.published[other] = s.published[other]
               /\ d.published[tag] = Reading(s, tag, e)
<1> DEFINE e == SensorEffect(s, tag)
           r == Reported(s, tag, Reading(s, tag, e))
           more == Noisy(e)
<1>0. /\ DOMAIN r = DOMAIN s.published \cup {tag} /\ r[tag] = Reading(s, tag, e)
      /\ \A other \in DOMAIN s.published : other # tag => r[other] = s.published[other]
  <2> DEFINE v == Reading(s, tag, e)
  <2> HIDE DEF v
  <2>1. r = Reported(s, tag, v)
    BY DEF v
  <2> HIDE DEF r
  <2> QED BY <2>1 DEF Reported, v
<1>1. Publish(s, tag) = [s EXCEPT !.published = r,
                                  !.faultPos = IF more THEN @ + 1 ELSE @]
  BY DEF Publish
<1> HIDE DEF e, r, more
<1> DEFINE d == [faults |-> s.faults, seed |-> s.seed, faultSeed |-> s.faultSeed,
                 t |-> s.t, parts |-> s.parts, scrap |-> s.scrap,
                 noisePos |-> s.noisePos,
                 faultPos |-> IF more THEN s.faultPos + 1 ELSE s.faultPos,
                 nextPart |-> s.nextPart, published |-> r, truth |-> s.truth]
<1>2. Publish(s, tag) = d
  BY <1>1 DEF Shaped
<1>3. /\ Shaped(d) /\ SameRun(d, s) /\ SameParts(d, s)
      /\ d.truth = s.truth /\ d.noisePos = s.noisePos /\ d.published = r
      /\ d.faultPos = IF more THEN s.faultPos + 1 ELSE s.faultPos
  BY DEF Shaped, SameRun, SameParts
<1> HIDE DEF d
<1>4. /\ DOMAIN d.published = DOMAIN s.published \cup {tag}
      /\ d.published[tag] = Reading(s, tag, e)
      /\ \A other \in DOMAIN s.published : other # tag => d.published[other] = s.published[other]
  BY <1>0, <1>3
<1> QED BY <1>2, <1>3, <1>4 DEF e, more

Typed(s) ==
    /\ Shaped(s) /\ Scheduled(s) /\ s.seed \in DOMAIN Stream
    /\ s.t \in 0 .. MaxSamples /\ s.parts \in Nat /\ s.scrap \in Nat
    /\ s.noisePos \in Nat /\ s.nextPart \in Int /\ s.truth \in [Measured -> Int]

\* What the generator of the machine still has to yield is whole.
LEMMA ValueIsInt ==
    ASSUME NEW s, Typed(s), s.noisePos <= 1 + 5 * MaxSamples, NEW tag \in Measured,
           NEW e \in Effects
    PROVE  Value(s, tag, e) \in Int
<1> DEFINE centre == Centre(s, tag)
           noise == Stream[s.seed][s.noisePos]
           wide == Spread(tag) * e.spread
           swing == wide * noise
<1>1. noise \in Int
  BY SimulatorAssumption DEF Typed
<1>2. Spread(tag) \in Nat
  BY SimulatorAssumption DEF Spread
<1>3. e.offset \in Int /\ e.spread \in Nat /\ e.spike \in Int
  BY DEF Effects
<1>4. swing \in Int
  <2>1. wide \in Int
    BY <1>2, <1>3
  <2> HIDE DEF wide, noise
  <2> QED BY <1>1, <2>1
<1>5. centre \in Int
  <2>1. CASE tag = "Temperature"
    BY <2>1, SimulatorAssumption DEF Typed, Centre, PartTags
  <2>2. CASE tag = "Vibration"
    <3> DEFINE excess == s.truth["Torque"] - Mean["Torque"]
    <3>1. excess \in Int /\ Coupling \in Int /\ Mean["Vibration"] \in Int
      BY SimulatorAssumption DEF Typed, Measured, SampledTags
    <3>2. Coupling * excess \in Int
      <4> HIDE DEF excess
      <4> QED BY <3>1
    <3>3. centre = Mean["Vibration"] + Coupling * excess
      BY <2>2 DEF Centre, PartTags
    <3> HIDE DEF excess, centre
    <3> QED BY <3>1, <3>2, <3>3
  <2>3. CASE tag \in PartTags \cup {"Torque"}
    BY <2>3, SimulatorAssumption DEF Centre, PartTags, Measured, SampledTags
  <2> QED BY <2>1, <2>2, <2>3 DEF Measured, SampledTags, PartTags
<1>6. Value(s, tag, e) = centre + e.offset + swing + e.spike
  BY DEF Value
<1> HIDE DEF centre, swing
<1> QED BY <1>3, <1>4, <1>5, <1>6

Drawn(tag) == IF Spread(tag) > 0 THEN 1 ELSE 0

LEMMA DrawTyped ==
    ASSUME NEW s, Typed(s), s.noisePos <= 1 + 5 * MaxSamples, NEW tag \in Measured
    PROVE  LET d == Draw(s, tag)
           IN  /\ Typed(d) /\ d.noisePos = s.noisePos + Drawn(tag)
               /\ tag = "CycleTime" => d.truth[tag] >= MinCycle
<1> DEFINE d == Draw(s, tag)
           e == ProcessEffect(s, tag)
           v == Value(s, tag, e)
           fv == Floored(tag, v)
           wide == Spread(tag) * e.spread
<1>1. e \in Effects
  BY EffectType DEF Typed
<1>2. v \in Int
  BY <1>1, ValueIsInt
<1>3. fv \in Int /\ (tag = "CycleTime" => fv >= MinCycle)
  <2> HIDE DEF v
  <2> QED BY <1>2, SimulatorAssumption DEF Floored
<1>4. wide > 0 <=> Spread(tag) > 0
  <2>1. Spread(tag) \in Nat /\ e.spread \in Nat \ {0}
    BY <1>1, SimulatorAssumption DEF Spread, Effects
  <2> DEFINE x == Spread(tag)
             y == e.spread
  <2>2. x \in Nat /\ y \in Nat \ {0}
    BY <2>1
  <2> HIDE DEF x, y
  <2>3. CASE x = 0
    BY <2>2, <2>3 DEF x, y
  <2>4. CASE x # 0
    <3>1. x * y \in Nat \ {0}
      BY <2>2, <2>4, ProductPositive
    <3>2. x * y > 0 /\ x > 0
      BY <2>2, <2>4, <3>1
    <3> QED BY <3>2 DEF x, y
  <2> QED BY <2>3, <2>4
<1> HIDE DEF wide
<1>5. /\ Shaped(d) /\ SameRun(d, s) /\ SameParts(d, s)
      /\ d.faultPos = e.faultPos
      /\ d.noisePos = IF wide > 0 THEN s.noisePos + 1 ELSE s.noisePos
      /\ d.truth = [s.truth EXCEPT ![tag] = fv]
  BY DrawFields DEF Typed, wide
<1> HIDE DEF d, e, fv
<1>6. d.truth \in [Measured -> Int] /\ d.truth[tag] = fv
  BY <1>3, <1>5 DEF Typed
<1>7. d.noisePos = s.noisePos + Drawn(tag) /\ d.noisePos \in Nat
  BY <1>4, <1>5 DEF Drawn, Typed
<1>8. Scheduled(d)
  BY <1>1, <1>5 DEF Typed, Scheduled, SameRun, Effects
<1>9. Typed(d)
  BY <1>5, <1>6, <1>7, <1>8 DEF Typed, SameRun, SameParts
<1> QED BY <1>3, <1>6, <1>7, <1>9 DEF d

LEMMA PublishTyped ==
    ASSUME NEW s, Typed(s), NEW tag
    PROVE  Typed(Publish(s, tag))
<1> DEFINE d == Publish(s, tag)
           more == Noisy(SensorEffect(s, tag))
<1>1. /\ Shaped(d) /\ SameRun(d, s) /\ SameParts(d, s)
      /\ d.truth = s.truth /\ d.noisePos = s.noisePos
      /\ d.faultPos = IF more THEN s.faultPos + 1 ELSE s.faultPos
  BY PublishFields DEF Typed
<1> HIDE DEF d, more
<1>2. Scheduled(d)
  BY <1>1 DEF Typed, Scheduled, SameRun
<1>3. Typed(d)
  BY <1>1, <1>2 DEF Typed, SameRun, SameParts
<1> QED BY <1>3 DEF d

\* d is s after some draws of these tags; what is left of s is as it was.
DrawsOnly(d, s, tags) ==
    /\ Typed(d) /\ SameRun(d, s) /\ SameParts(d, s) /\ d.published = s.published
    /\ \A tag \in Measured \ tags : d.truth[tag] = s.truth[tag]

LEMMA DrawsOneTag ==
    ASSUME NEW s, Typed(s), s.noisePos <= 1 + 5 * MaxSamples, NEW tag \in Measured
    PROVE  DrawsOnly(Draw(s, tag), s, {tag})
<1> DEFINE d == Draw(s, tag)
           v == Floored(tag, Value(s, tag, ProcessEffect(s, tag)))
<1>1. Typed(d)
  BY DrawTyped
<1>2. /\ SameRun(d, s) /\ SameParts(d, s) /\ d.published = s.published
      /\ d.truth = [s.truth EXCEPT ![tag] = v]
  BY DrawFields DEF Typed
<1> HIDE DEF d, v
<1>3. \A other \in Measured \ {tag} : d.truth[other] = s.truth[other]
  BY <1>2 DEF Typed
<1>4. DrawsOnly(d, s, {tag})
  BY <1>1, <1>2, <1>3 DEF DrawsOnly
<1> QED BY <1>4 DEF d

LEMMA DrawsCompose ==
    ASSUME NEW s, NEW d, NEW c, NEW S, NEW T, DrawsOnly(d, s, S), DrawsOnly(c, d, T)
    PROVE  DrawsOnly(c, s, S \cup T)
BY DEF DrawsOnly, SameRun, SameParts

LEMMA SampleDraws ==
    ASSUME NEW s, Typed(s), s.noisePos + 2 <= 1 + 5 * MaxSamples
    PROVE  /\ DrawsOnly(DrawSample(s), s, SampledTags)
           /\ DrawSample(s).noisePos = s.noisePos + 2 + Drawn("Vibration")
<1> DEFINE d1 == Draw(s, "Torque")
           d2 == Draw(d1, "Temperature")
           d3 == Draw(d2, "Vibration")
<1>0. /\ s.noisePos \in Nat /\ MaxSamples \in Nat
      /\ Drawn("Torque") = 1 /\ Drawn("Temperature") = 1 /\ Drawn("Vibration") \in 0 .. 1
      /\ "Torque" \in Measured /\ "Temperature" \in Measured /\ "Vibration" \in Measured
  BY SimulatorAssumption DEF Typed, Drawn, Spread, Measured, SampledTags
<1>1. DrawsOnly(d1, s, {"Torque"}) /\ Typed(d1) /\ d1.noisePos = s.noisePos + 1
  <2>1. s.noisePos <= 1 + 5 * MaxSamples
    BY <1>0
  <2> QED BY <1>0, <2>1, DrawsOneTag, DrawTyped
<1> HIDE DEF d1
<1>2. DrawsOnly(d2, d1, {"Temperature"}) /\ Typed(d2) /\ d2.noisePos = s.noisePos + 2
  <2>1. d1.noisePos <= 1 + 5 * MaxSamples /\ d1.noisePos + 1 = s.noisePos + 2
    BY <1>0, <1>1
  <2> QED BY <1>0, <1>1, <2>1, DrawsOneTag, DrawTyped
<1> HIDE DEF d2
<1>3. /\ DrawsOnly(d3, d2, {"Vibration"})
      /\ d3.noisePos = s.noisePos + 2 + Drawn("Vibration")
  <2>1. d2.noisePos <= 1 + 5 * MaxSamples
    BY <1>0, <1>2
  <2> QED BY <1>0, <1>2, <2>1, DrawsOneTag, DrawTyped
<1> HIDE DEF d3
<1>4. DrawsOnly(d3, s, ({"Torque"} \cup {"Temperature"}) \cup {"Vibration"})
  BY <1>1, <1>2, <1>3, DrawsCompose
<1>5. ({"Torque"} \cup {"Temperature"}) \cup {"Vibration"} = SampledTags
  BY DEF SampledTags
<1> QED BY <1>3, <1>4, <1>5 DEF DrawSample, d1, d2, d3

LEMMA PartDraws ==
    ASSUME NEW s, Typed(s), s.noisePos + 1 <= 1 + 5 * MaxSamples
    PROVE  LET d == DrawPart(s)
           IN  /\ DrawsOnly(d, s, PartTags) /\ d.noisePos = s.noisePos + 2
               /\ d.truth["CycleTime"] >= MinCycle
<1> DEFINE d1 == Draw(s, "BoreDiameter")
           d2 == Draw(d1, "CycleTime")
<1>0. /\ s.noisePos \in Nat /\ MaxSamples \in Nat
      /\ Drawn("BoreDiameter") = 1 /\ Drawn("CycleTime") = 1
      /\ "BoreDiameter" \in Measured /\ "CycleTime" \in Measured
  BY SimulatorAssumption DEF Typed, Drawn, Spread, Measured, PartTags
<1>1. DrawsOnly(d1, s, {"BoreDiameter"}) /\ Typed(d1) /\ d1.noisePos = s.noisePos + 1
  <2>1. s.noisePos <= 1 + 5 * MaxSamples
    BY <1>0
  <2> QED BY <1>0, <2>1, DrawsOneTag, DrawTyped
<1> HIDE DEF d1
<1>2. /\ DrawsOnly(d2, d1, {"CycleTime"}) /\ d2.noisePos = s.noisePos + 2
      /\ d2.truth["CycleTime"] >= MinCycle
  <2>1. d1.noisePos <= 1 + 5 * MaxSamples /\ d1.noisePos + 1 = s.noisePos + 2
    BY <1>0, <1>1
  <2> QED BY <1>0, <1>1, <2>1, DrawsOneTag, DrawTyped
<1> HIDE DEF d2
<1>3. DrawsOnly(d2, s, {"BoreDiameter"} \cup {"CycleTime"})
  BY <1>1, <1>2, DrawsCompose
<1>4. {"BoreDiameter"} \cup {"CycleTime"} = PartTags
  BY DEF PartTags
<1> QED BY <1>2, <1>3, <1>4 DEF DrawPart, d1, d2

LEMMA CompleteFields ==
    ASSUME NEW s, Typed(s)
    PROVE  LET c == CompletePart(s)
           IN  /\ Typed(c) /\ SameRun(c, s)
               /\ c.parts = s.parts + 1 /\ c.nextPart = s.t + s.truth["CycleTime"]
               /\ c.scrap = IF IsScrap(s.truth["BoreDiameter"]) THEN s.scrap + 1 ELSE s.scrap
               /\ c.noisePos = s.noisePos /\ c.faultPos = s.faultPos
               /\ c.published = s.published /\ c.truth = s.truth
<1> DEFINE bad == IsScrap(s.truth["BoreDiameter"])
           next == s.t + s.truth["CycleTime"]
           c == [faults |-> s.faults, seed |-> s.seed, faultSeed |-> s.faultSeed,
                 t |-> s.t, parts |-> s.parts + 1,
                 scrap |-> IF bad THEN s.scrap + 1 ELSE s.scrap,
                 noisePos |-> s.noisePos, faultPos |-> s.faultPos, nextPart |-> next,
                 published |-> s.published, truth |-> s.truth]
<1>1. next \in Int
  BY DEF Typed, Measured, PartTags
<1>2. CompletePart(s) = [s EXCEPT !.parts = @ + 1, !.nextPart = next,
                                  !.scrap = IF bad THEN @ + 1 ELSE @]
  BY DEF CompletePart
<1> HIDE DEF bad, next
<1>3. CompletePart(s) = c
  BY <1>2 DEF Typed, Shaped
<1>4. Typed(c) /\ SameRun(c, s)
  BY <1>1 DEF Typed, Shaped, Scheduled, SameRun
<1> QED BY <1>3, <1>4 DEF bad, next

\* d is s after some tags were published.
PublishesOnly(d, s, tags) ==
    /\ Typed(d) /\ SameRun(d, s) /\ SameParts(d, s)
    /\ d.truth = s.truth /\ d.noisePos = s.noisePos
    /\ DOMAIN d.published = DOMAIN s.published \cup tags
    /\ \A other \in DOMAIN s.published \ tags : d.published[other] = s.published[other]

LEMMA PublishesOneTag ==
    ASSUME NEW s, Typed(s), NEW tag
    PROVE  PublishesOnly(Publish(s, tag), s, {tag})
<1> DEFINE d == Publish(s, tag)
<1>1. Typed(d)
  BY PublishTyped
<1>2. /\ SameRun(d, s) /\ SameParts(d, s)
      /\ d.truth = s.truth /\ d.noisePos = s.noisePos
      /\ DOMAIN d.published = DOMAIN s.published \cup {tag}
      /\ \A other \in DOMAIN s.published :
            other # tag => d.published[other] = s.published[other]
  BY PublishFields DEF Typed
<1> HIDE DEF d
<1>3. PublishesOnly(d, s, {tag})
  BY <1>1, <1>2 DEF PublishesOnly
<1> QED BY <1>3 DEF d

LEMMA PublishesCompose ==
    ASSUME NEW s, NEW d, NEW c, NEW S, NEW T,
           PublishesOnly(d, s, S), PublishesOnly(c, d, T)
    PROVE  PublishesOnly(c, s, S \cup T)
<1>1. \A other \in DOMAIN s.published \ (S \cup T) : c.published[other] = s.published[other]
  BY DEF PublishesOnly
<1> QED BY <1>1 DEF PublishesOnly, SameRun, SameParts

LEMMA AllPublished ==
    ASSUME NEW s, Typed(s)
    PROVE  PublishesOnly(PublishAll(s), s, Measured)
<1> DEFINE p1 == Publish(s, "BoreDiameter")
           p2 == Publish(p1, "Torque")
           p3 == Publish(p2, "CycleTime")
           p4 == Publish(p3, "Temperature")
           p5 == Publish(p4, "Vibration")
<1>1. PublishesOnly(p1, s, {"BoreDiameter"}) /\ Typed(p1)
  BY PublishesOneTag DEF PublishesOnly
<1> HIDE DEF p1
<1>2. PublishesOnly(p2, p1, {"Torque"}) /\ Typed(p2)
  BY <1>1, PublishesOneTag DEF PublishesOnly
<1> HIDE DEF p2
<1>3. PublishesOnly(p3, p2, {"CycleTime"}) /\ Typed(p3)
  BY <1>2, PublishesOneTag DEF PublishesOnly
<1> HIDE DEF p3
<1>4. PublishesOnly(p4, p3, {"Temperature"}) /\ Typed(p4)
  BY <1>3, PublishesOneTag DEF PublishesOnly
<1> HIDE DEF p4
<1>5. PublishesOnly(p5, p4, {"Vibration"})
  BY <1>4, PublishesOneTag
<1> HIDE DEF p5
<1>6. PublishesOnly(p2, s, {"BoreDiameter"} \cup {"Torque"})
  BY <1>1, <1>2, PublishesCompose
<1>7. PublishesOnly(p3, s, ({"BoreDiameter"} \cup {"Torque"}) \cup {"CycleTime"})
  BY <1>3, <1>6, PublishesCompose
<1>8. PublishesOnly(p4, s, (({"BoreDiameter"} \cup {"Torque"}) \cup {"CycleTime"})
                            \cup {"Temperature"})
  BY <1>4, <1>7, PublishesCompose
<1>9. PublishesOnly(p5, s, ((({"BoreDiameter"} \cup {"Torque"}) \cup {"CycleTime"})
                            \cup {"Temperature"}) \cup {"Vibration"})
  BY <1>5, <1>8, PublishesCompose
<1>10. ((({"BoreDiameter"} \cup {"Torque"}) \cup {"CycleTime"})
          \cup {"Temperature"}) \cup {"Vibration"} = Measured
  BY DEF Measured, SampledTags, PartTags
<1> QED BY <1>9, <1>10 DEF PublishAll, p1, p2, p3, p4, p5

\* The machine between drawing and publishing.
Made(s) == IF Due(s) THEN CompletePart(DrawPart(DrawSample(s))) ELSE DrawSample(s)

LEMMA MadeFacts ==
    ASSUME NEW s, Typed(s), s.noisePos + 4 <= 1 + 5 * MaxSamples
    PROVE  LET d == Made(s)
           IN  /\ Typed(d) /\ SameRun(d, s) /\ d.published = s.published
               /\ ~ Due(s) =>
                     /\ SameParts(d, s) /\ d.noisePos = s.noisePos + 2 + Drawn("Vibration")
                     /\ \A tag \in PartTags : d.truth[tag] = s.truth[tag]
               /\ Due(s) =>
                     /\ d.parts = s.parts + 1 /\ d.nextPart = s.t + d.truth["CycleTime"]
                     /\ d.truth["CycleTime"] >= MinCycle
                     /\ d.scrap = IF IsScrap(d.truth["BoreDiameter"])
                                  THEN s.scrap + 1 ELSE s.scrap
                     /\ d.noisePos = s.noisePos + 4 + Drawn("Vibration")
<1> DEFINE d1 == DrawSample(s)
           d2 == DrawPart(d1)
           d3 == CompletePart(d2)
<1>0. s.noisePos \in Nat /\ MaxSamples \in Nat /\ Drawn("Vibration") \in 0 .. 1
  BY SimulatorAssumption DEF Typed, Drawn
<1>1. DrawsOnly(d1, s, SampledTags) /\ d1.noisePos = s.noisePos + 2 + Drawn("Vibration")
  BY <1>0, SampleDraws
<1> HIDE DEF d1
<1>2. Typed(d1) /\ d1.noisePos + 1 <= 1 + 5 * MaxSamples
  BY <1>0, <1>1 DEF DrawsOnly
<1>3. /\ DrawsOnly(d2, d1, PartTags) /\ d2.noisePos = d1.noisePos + 2
      /\ d2.truth["CycleTime"] >= MinCycle /\ Typed(d2)
  BY <1>2, PartDraws DEF DrawsOnly
<1> HIDE DEF d2
<1>4. /\ Typed(d3) /\ SameRun(d3, d2)
      /\ d3.parts = d2.parts + 1 /\ d3.nextPart = d2.t + d2.truth["CycleTime"]
      /\ d3.scrap = IF IsScrap(d2.truth["BoreDiameter"]) THEN d2.scrap + 1 ELSE d2.scrap
      /\ d3.noisePos = d2.noisePos /\ d3.published = d2.published /\ d3.truth = d2.truth
  BY <1>3, CompleteFields
<1> HIDE DEF d3
<1>5. CASE Due(s)
  <2>1. Made(s) = d3
    BY <1>5 DEF Made, d1, d2, d3
  <2>2. SameRun(d3, s) /\ d3.published = s.published
    BY <1>1, <1>3, <1>4 DEF DrawsOnly, SameRun
  <2>3. d3.parts = s.parts + 1 /\ d3.nextPart = s.t + d3.truth["CycleTime"]
    BY <1>1, <1>3, <1>4 DEF DrawsOnly, SameRun, SameParts
  <2>4. d3.scrap = IF IsScrap(d3.truth["BoreDiameter"]) THEN s.scrap + 1 ELSE s.scrap
    BY <1>1, <1>3, <1>4 DEF DrawsOnly, SameParts
  <2>5. d3.noisePos = s.noisePos + 4 + Drawn("Vibration")
    BY <1>0, <1>1, <1>3, <1>4
  <2> QED BY <1>3, <1>4, <1>5, <2>1, <2>2, <2>3, <2>4, <2>5
<1>6. CASE ~ Due(s)
  <2>1. Made(s) = d1
    BY <1>6 DEF Made, d1
  <2>2. \A tag \in PartTags : d1.truth[tag] = s.truth[tag]
    BY <1>1 DEF DrawsOnly, Measured, PartTags, SampledTags
  <2> QED BY <1>1, <1>6, <2>1, <2>2 DEF DrawsOnly
<1> QED BY <1>5, <1>6

LEMMA AdvancedFields ==
    ASSUME NEW s, Typed(s), s.t < MaxSamples, s.noisePos + 4 <= 1 + 5 * MaxSamples
    PROVE  LET d == Made(s)
               p == PublishAll(d)
               n == Advanced(s)
           IN  /\ Typed(d) /\ Typed(p) /\ Typed(n) /\ Stepped(s) = p
               /\ n.t = s.t + 1 /\ n.faults = s.faults
               /\ n.seed = s.seed /\ n.faultSeed = s.faultSeed
               /\ n.parts = d.parts /\ n.scrap = d.scrap /\ n.nextPart = d.nextPart
               /\ n.noisePos = d.noisePos /\ n.truth = d.truth
               /\ n.faultPos = p.faultPos /\ n.published = p.published
               /\ DOMAIN n.published = DOMAIN s.published \cup Measured
<1> DEFINE d == Made(s)
           p == PublishAll(d)
           n == Advanced(s)
<1>1. Typed(d) /\ SameRun(d, s) /\ d.published = s.published
  BY MadeFacts
<1>2. Stepped(s) = p
  BY DEF Stepped, Made
<1> HIDE DEF d
<1>3. PublishesOnly(p, d, Measured)
  BY <1>1, AllPublished
<1>4. n = [p EXCEPT !.t = @ + 1]
  BY <1>2 DEF Advanced
<1> HIDE DEF p, n
<1> DEFINE m == [faults |-> p.faults, seed |-> p.seed, faultSeed |-> p.faultSeed,
                 t |-> p.t + 1, parts |-> p.parts, scrap |-> p.scrap,
                 noisePos |-> p.noisePos, faultPos |-> p.faultPos, nextPart |-> p.nextPart,
                 published |-> p.published, truth |-> p.truth]
<1>5. Typed(p) /\ n = m
  BY <1>3, <1>4 DEF PublishesOnly, Typed, Shaped
<1>6. p.t = s.t /\ p.t + 1 \in 0 .. MaxSamples
  <2>1. p.t = s.t
    BY <1>1, <1>3 DEF PublishesOnly, SameRun
  <2>2. s.t \in 0 .. MaxSamples /\ MaxSamples \in Nat
    BY SimulatorAssumption DEF Typed
  <2> QED BY <2>1, <2>2
<1>7. Typed(m)
  BY <1>5, <1>6 DEF Typed, Shaped, Scheduled
<1>8. /\ n.t = s.t + 1 /\ n.faults = s.faults /\ n.seed = s.seed /\ n.faultSeed = s.faultSeed
  BY <1>1, <1>3, <1>5, <1>6 DEF PublishesOnly, SameRun
<1>9. /\ n.parts = d.parts /\ n.scrap = d.scrap /\ n.nextPart = d.nextPart
      /\ n.noisePos = d.noisePos /\ n.truth = d.truth
      /\ n.faultPos = p.faultPos /\ n.published = p.published
      /\ DOMAIN n.published = DOMAIN s.published \cup Measured
  BY <1>1, <1>3, <1>5 DEF PublishesOnly, SameParts
<1> QED BY <1>1, <1>2, <1>5, <1>7, <1>8, <1>9 DEF d, p, n

-----------------------------------------------------------------------------
(* One machine: its counts, clocks and generator *)

DrawsPerSample == IF VibrationStd > 0 THEN 3 ELSE 2

MachineInv(s) ==
    /\ Typed(s)
    /\ s.parts <= s.t /\ s.scrap <= s.parts
    /\ s.parts > 0 => s.nextPart >= s.t
    /\ s.noisePos = 2 + 2 * s.parts + DrawsPerSample * s.t
    /\ DOMAIN s.published = IF s.t = 0 THEN {} ELSE Measured

LEMMA FreshInv ==
    ASSUME NEW faults \in Seq(Fault), NEW seed \in DOMAIN Stream, NEW faultSeed
    PROVE  MachineInv(Fresh(faults, seed, faultSeed))
<1> DEFINE s == Fresh(faults, seed, faultSeed)
           noise == Stream[seed]
           cycle == Mean["CycleTime"] + StdDev["CycleTime"] * noise[1]
           bore == Mean["BoreDiameter"] + StdDev["BoreDiameter"] * noise[0]
           truth == [tag \in Measured |-> CASE tag = "BoreDiameter" -> bore
                                            [] tag = "CycleTime" -> cycle
                                            [] tag \in SampledTags -> 0]
<1>1. noise[0] \in Int /\ noise[1] \in Int
  <2>1. 0 \in 0 .. 1 + 5 * MaxSamples /\ 1 \in 0 .. 1 + 5 * MaxSamples
    BY SimulatorAssumption
  <2> QED BY <2>1, SimulatorAssumption
<1>2. /\ Mean["CycleTime"] \in Int /\ StdDev["CycleTime"] \in Int
      /\ Mean["BoreDiameter"] \in Int /\ StdDev["BoreDiameter"] \in Int
  BY SimulatorAssumption DEF Measured, PartTags
<1> DEFINE deviation == noise[1]
           other == noise[0]
<1> HIDE DEF noise, deviation, other
<1>3. cycle \in Int /\ bore \in Int
  <2>1. deviation \in Int /\ other \in Int
    BY <1>1 DEF deviation, other
  <2>2. StdDev["CycleTime"] * deviation \in Int /\ StdDev["BoreDiameter"] * other \in Int
    BY <1>2, <2>1
  <2> QED BY <1>2, <2>2 DEF deviation, other
<1> HIDE DEF cycle, bore
<1>4. truth \in [Measured -> Int]
  <2>1. \A tag \in Measured : truth[tag] \in Int
    BY <1>3 DEF Measured, PartTags, SampledTags
  <2> QED BY <2>1
<1> HIDE DEF truth
<1> DEFINE r == [faults |-> faults, seed |-> seed, faultSeed |-> faultSeed,
                 t |-> 0, parts |-> 0, scrap |-> 0, noisePos |-> 2, faultPos |-> 0,
                 nextPart |-> cycle, published |-> <<>>, truth |-> truth]
<1>5. s = r
  BY DEF Fresh, cycle, bore, truth, noise
<1>6. Typed(r)
  BY <1>3, <1>4, SimulatorAssumption DEF Typed, Shaped, Scheduled
<1>7. DOMAIN r.published = {}
  OBVIOUS
<1>8. r.noisePos = 2 + 2 * r.parts + DrawsPerSample * r.t
  BY DEF DrawsPerSample
<1>9. MachineInv(r)
  BY <1>6, <1>7, <1>8 DEF MachineInv
<1> QED BY <1>5, <1>9

\* A run does not exhaust what the generator is known to yield.
LEMMA DrawsLeft ==
    ASSUME NEW s, MachineInv(s), s.t < MaxSamples
    PROVE  s.noisePos + 4 <= 1 + 5 * MaxSamples
<1>1. s.t \in Nat /\ s.parts \in Nat /\ s.parts <= s.t /\ MaxSamples \in Nat
  BY SimulatorAssumption DEF MachineInv, Typed
<1>2. s.noisePos = 2 + 2 * s.parts + DrawsPerSample * s.t
  BY DEF MachineInv
<1>3. DrawsPerSample * s.t <= 3 * s.t
  BY <1>1 DEF DrawsPerSample
<1> QED BY <1>1, <1>2, <1>3 DEF DrawsPerSample

LEMMA AdvancedInv ==
    ASSUME NEW s, MachineInv(s), s.t < MaxSamples
    PROVE  MachineInv(Advanced(s))
<1> DEFINE d == Made(s)
           n == Advanced(s)
<1>1. Typed(s) /\ s.noisePos + 4 <= 1 + 5 * MaxSamples
  BY DrawsLeft DEF MachineInv
<1>2. /\ Typed(n) /\ n.t = s.t + 1 /\ n.parts = d.parts /\ n.scrap = d.scrap
      /\ n.nextPart = d.nextPart /\ n.noisePos = d.noisePos /\ n.truth = d.truth
      /\ DOMAIN n.published = DOMAIN s.published \cup Measured
  BY <1>1, AdvancedFields
<1>3. /\ ~ Due(s) => SameParts(d, s) /\ d.noisePos = s.noisePos + 2 + Drawn("Vibration")
      /\ Due(s) =>
            /\ d.parts = s.parts + 1 /\ d.nextPart = s.t + d.truth["CycleTime"]
            /\ d.truth["CycleTime"] >= MinCycle
            /\ d.scrap = IF IsScrap(d.truth["BoreDiameter"]) THEN s.scrap + 1 ELSE s.scrap
            /\ d.noisePos = s.noisePos + 4 + Drawn("Vibration")
  BY <1>1, MadeFacts
<1> HIDE DEF d, n
<1>4. /\ s.t \in Nat /\ s.parts \in Nat /\ s.scrap \in Nat /\ s.nextPart \in Int
      /\ s.parts <= s.t /\ s.scrap <= s.parts /\ (s.parts > 0 => s.nextPart >= s.t)
      /\ s.noisePos = 2 + 2 * s.parts + DrawsPerSample * s.t
      /\ DOMAIN s.published = IF s.t = 0 THEN {} ELSE Measured
  BY DEF MachineInv, Typed
<1>5. MinCycle \in Nat \ {0} /\ VibrationStd \in Nat
  BY SimulatorAssumption
<1>6. n.truth["CycleTime"] \in Int /\ n.t \in Nat
  BY <1>2 DEF Typed, Measured, PartTags
<1>7. DOMAIN n.published = IF n.t = 0 THEN {} ELSE Measured
  BY <1>2, <1>4
<1>8. n.parts <= n.t /\ n.scrap <= n.parts
  BY <1>2, <1>3, <1>4 DEF SameParts
<1>9. n.parts > 0 => n.nextPart >= n.t
  <2>1. CASE Due(s)
    BY <1>2, <1>3, <1>4, <1>5, <1>6, <2>1
  <2>2. CASE ~ Due(s)
    BY <1>2, <1>3, <1>4, <2>2 DEF Due, SameParts
  <2> QED BY <2>1, <2>2
<1>10. n.noisePos = 2 + 2 * n.parts + DrawsPerSample * n.t
  <2>1. DrawsPerSample = 2 + Drawn("Vibration") /\ Drawn("Vibration") \in 0 .. 1
    BY <1>5 DEF DrawsPerSample, Drawn, Spread
  <2>2. DrawsPerSample * n.t = DrawsPerSample * s.t + 2 + Drawn("Vibration")
    <3>1. DrawsPerSample \in {2, 3}
      BY DEF DrawsPerSample
    <3> QED BY <1>2, <1>4, <2>1, <3>1
  <2> DEFINE already == DrawsPerSample * s.t
  <2>3. already \in Nat
    BY <1>4 DEF DrawsPerSample
  <2> HIDE DEF already
  <2>4. s.noisePos = 2 + 2 * s.parts + already
    BY <1>4 DEF already
  <2>5. DrawsPerSample * n.t = already + 2 + Drawn("Vibration")
    BY <2>2 DEF already
  <2>6. s.parts \in Nat /\ n.parts = d.parts /\ n.noisePos = d.noisePos
    BY <1>2, <1>4
  <2>7. CASE Due(s)
    BY <1>3, <2>1, <2>3, <2>4, <2>5, <2>6, <2>7
  <2>8. CASE ~ Due(s)
    BY <1>3, <2>1, <2>3, <2>4, <2>5, <2>6, <2>8 DEF SameParts
  <2> QED BY <2>7, <2>8
<1>11. MachineInv(n)
  BY <1>2, <1>7, <1>8, <1>9, <1>10 DEF MachineInv
<1> QED BY <1>11 DEF n

-----------------------------------------------------------------------------
(* The two machines before the additional fault starts *)

\* Apart from their schedules and what that gives, the two are one machine.
Alike(w, s) ==
    /\ w.noisePos = s.noisePos /\ w.faultPos = s.faultPos /\ SameParts(w, s)
    /\ w.truth = s.truth /\ w.published = s.published

LEMMA PairedKept ==
    ASSUME NEW s, NEW w, NEW a, Paired(w, s, a),
           NEW d, Typed(d), SameRun(d, s), NEW c, Typed(c), SameRun(c, w)
    PROVE  Paired(c, d, a)
BY DEF Paired, Longer, SameRun, Typed

LEMMA AlikeDraw ==
    ASSUME NEW s, NEW w, NEW a, Paired(w, s, a), Typed(s), Typed(w), Alike(w, s),
           ~ Active(a, s.t), NEW tag \in Measured
    PROVE  Alike(Draw(w, tag), Draw(s, tag))
<1> DEFINE e == ProcessEffect(s, tag)
           g == ProcessEffect(w, tag)
           d == Draw(s, tag)
           c == Draw(w, tag)
<1>1. e \in Effects /\ g \in Effects
  BY EffectType DEF Paired
<1>2. EqualEffects(e, g, TRUE)
  BY EffectsEqual DEF Alike, Reaches
<1>3. e = g
  <2> HIDE DEF e, g
  <2> QED BY <1>1, <1>2 DEF Effects, EqualEffects
<1>4. Value(w, tag, g) = Value(s, tag, e)
  <2>1. Centre(w, tag) = Centre(s, tag)
    BY DEF Alike, Paired, Centre
  <2> HIDE DEF e, g
  <2> QED BY <1>3, <2>1 DEF Value, Alike, Paired
<1> DEFINE v == Floored(tag, Value(s, tag, e))
           u == Floored(tag, Value(w, tag, g))
<1>5. /\ SameParts(d, s) /\ d.published = s.published /\ d.faultPos = e.faultPos
      /\ d.noisePos = IF Spread(tag) * e.spread > 0 THEN s.noisePos + 1 ELSE s.noisePos
      /\ d.truth = [s.truth EXCEPT ![tag] = v]
  BY DrawFields DEF Typed
<1>6. /\ SameParts(c, w) /\ c.published = w.published /\ c.faultPos = g.faultPos
      /\ c.noisePos = IF Spread(tag) * g.spread > 0 THEN w.noisePos + 1 ELSE w.noisePos
      /\ c.truth = [w.truth EXCEPT ![tag] = u]
  BY DrawFields DEF Typed
<1>7. u = v
  BY <1>4
<1> HIDE DEF e, g, d, c, u, v
<1>8. Alike(c, d)
  BY <1>3, <1>5, <1>6, <1>7 DEF Alike, SameParts
<1> QED BY <1>8 DEF c, d

LEMMA AlikePublish ==
    ASSUME NEW s, NEW w, NEW a, Paired(w, s, a), Typed(s), Typed(w), Alike(w, s),
           ~ Active(a, s.t), NEW tag
    PROVE  Alike(Publish(w, tag), Publish(s, tag))
<1> DEFINE e == SensorEffect(s, tag)
           g == SensorEffect(w, tag)
<1>1. e = g
  BY ErrorsEqual DEF Reaches
<1>2. Reading(w, tag, g) = Reading(s, tag, e)
  <2> HIDE DEF e, g
  <2> QED BY <1>1 DEF Reading, Alike, Paired
<1>3. Reported(w, tag, Reading(w, tag, g)) = Reported(s, tag, Reading(s, tag, e))
  <2> DEFINE u == Reading(w, tag, g)
             v == Reading(s, tag, e)
  <2>1. u = v
    BY <1>2
  <2> HIDE DEF u, v
  <2>2. Reported(w, tag, u) = Reported(s, tag, v)
    BY <2>1 DEF Reported, Alike
  <2> QED BY <2>2 DEF u, v
<1>4. /\ Publish(s, tag).published = Reported(s, tag, Reading(s, tag, e))
      /\ Publish(w, tag).published = Reported(w, tag, Reading(w, tag, g))
  BY DEF Publish, Typed, Shaped
<1>5. /\ SameParts(Publish(s, tag), s) /\ SameParts(Publish(w, tag), w)
      /\ Publish(s, tag).truth = s.truth /\ Publish(w, tag).truth = w.truth
      /\ Publish(s, tag).noisePos = s.noisePos /\ Publish(w, tag).noisePos = w.noisePos
      /\ Publish(s, tag).faultPos = IF Noisy(e) THEN s.faultPos + 1 ELSE s.faultPos
      /\ Publish(w, tag).faultPos = IF Noisy(g) THEN w.faultPos + 1 ELSE w.faultPos
  BY PublishFields DEF Typed
<1> HIDE DEF e, g
<1> QED BY <1>1, <1>3, <1>4, <1>5 DEF Alike, SameParts

Untouched(w, s, a) ==
    Paired(w, s, a) /\ Typed(s) /\ Typed(w) /\ Alike(w, s) /\ ~ Active(a, s.t)

LEMMA UntouchedDraw ==
    ASSUME NEW s, NEW w, NEW a, Untouched(w, s, a), NEW tag \in Measured,
           s.noisePos <= 1 + 5 * MaxSamples
    PROVE  /\ Untouched(Draw(w, tag), Draw(s, tag), a)
           /\ Draw(s, tag).noisePos <= s.noisePos + 1 /\ SameRun(Draw(s, tag), s)
           /\ SameParts(Draw(s, tag), s)
<1> DEFINE d == Draw(s, tag)
           c == Draw(w, tag)
<1>1. s.noisePos \in Nat /\ w.noisePos <= 1 + 5 * MaxSamples
  BY DEF Untouched, Alike, Typed
<1>2. Typed(d) /\ Typed(c) /\ d.noisePos = s.noisePos + Drawn(tag)
  BY <1>1, DrawTyped DEF Untouched
<1>3. SameRun(d, s) /\ SameRun(c, w) /\ SameParts(d, s)
  BY DrawFields DEF Untouched, Typed
<1>4. Alike(c, d)
  BY AlikeDraw DEF Untouched
<1> HIDE DEF d, c
<1>5. Paired(c, d, a)
  BY <1>2, <1>3, PairedKept DEF Untouched
<1>6. ~ Active(a, d.t) /\ d.noisePos <= s.noisePos + 1
  BY <1>1, <1>2, <1>3 DEF SameRun, Drawn, Untouched
<1> QED BY <1>2, <1>3, <1>4, <1>5, <1>6 DEF d, c, Untouched

LEMMA UntouchedPublish ==
    ASSUME NEW s, NEW w, NEW a, Untouched(w, s, a), NEW tag
    PROVE  Untouched(Publish(w, tag), Publish(s, tag), a)
<1> DEFINE d == Publish(s, tag)
           c == Publish(w, tag)
<1>1. Typed(d) /\ Typed(c)
  BY PublishTyped DEF Untouched
<1>2. SameRun(d, s) /\ SameRun(c, w)
  BY PublishFields DEF Untouched, Typed
<1>3. Alike(c, d)
  BY AlikePublish DEF Untouched
<1> HIDE DEF d, c
<1>4. Paired(c, d, a)
  BY <1>1, <1>2, PairedKept DEF Untouched
<1>5. ~ Active(a, d.t)
  BY <1>2 DEF SameRun, Untouched
<1> QED BY <1>1, <1>3, <1>4, <1>5 DEF d, c, Untouched

LEMMA UntouchedComplete ==
    ASSUME NEW s, NEW w, NEW a, Untouched(w, s, a)
    PROVE  Untouched(CompletePart(w), CompletePart(s), a)
<1> DEFINE d == CompletePart(s)
           c == CompletePart(w)
<1>1. /\ Typed(d) /\ SameRun(d, s)
      /\ d.parts = s.parts + 1 /\ d.nextPart = s.t + s.truth["CycleTime"]
      /\ d.scrap = IF IsScrap(s.truth["BoreDiameter"]) THEN s.scrap + 1 ELSE s.scrap
      /\ d.noisePos = s.noisePos /\ d.faultPos = s.faultPos
      /\ d.published = s.published /\ d.truth = s.truth
  BY CompleteFields DEF Untouched
<1>2. /\ Typed(c) /\ SameRun(c, w)
      /\ c.parts = w.parts + 1 /\ c.nextPart = w.t + w.truth["CycleTime"]
      /\ c.scrap = IF IsScrap(w.truth["BoreDiameter"]) THEN w.scrap + 1 ELSE w.scrap
      /\ c.noisePos = w.noisePos /\ c.faultPos = w.faultPos
      /\ c.published = w.published /\ c.truth = w.truth
  BY CompleteFields DEF Untouched
<1> HIDE DEF d, c
<1>3. Alike(c, d)
  BY <1>1, <1>2 DEF Untouched, Alike, SameParts, Paired
<1>4. Paired(c, d, a)
  BY <1>1, <1>2, PairedKept DEF Untouched
<1>5. ~ Active(a, d.t)
  BY <1>1 DEF SameRun, Untouched
<1> QED BY <1>1, <1>2, <1>3, <1>4, <1>5 DEF d, c, Untouched

LEMMA UntouchedMade ==
    ASSUME NEW s, NEW w, NEW a, Untouched(w, s, a), s.noisePos + 4 <= 1 + 5 * MaxSamples
    PROVE  Untouched(Made(w), Made(s), a)
<1> DEFINE d1 == Draw(s, "Torque")       c1 == Draw(w, "Torque")
           d2 == Draw(d1, "Temperature") c2 == Draw(c1, "Temperature")
           d3 == Draw(d2, "Vibration")   c3 == Draw(c2, "Vibration")
           d4 == Draw(d3, "BoreDiameter") c4 == Draw(c3, "BoreDiameter")
           d5 == Draw(d4, "CycleTime")   c5 == Draw(c4, "CycleTime")
<1>0. s.noisePos \in Nat /\ MaxSamples \in Nat
      /\ Measured = {"Torque", "Temperature", "Vibration", "BoreDiameter", "CycleTime"}
  BY SimulatorAssumption DEF Typed, Untouched, Measured, SampledTags, PartTags
<1>1. Untouched(c1, d1, a) /\ d1.noisePos <= s.noisePos + 1
  BY <1>0, UntouchedDraw
<1> HIDE DEF d1, c1
<1>2. Untouched(c2, d2, a) /\ d2.noisePos <= s.noisePos + 2
  <2>1. d1.noisePos <= 1 + 5 * MaxSamples /\ d1.noisePos \in Nat
    BY <1>0, <1>1 DEF Untouched, Typed
  <2>2. Untouched(c2, d2, a) /\ d2.noisePos <= d1.noisePos + 1
    BY <1>0, <1>1, <2>1, UntouchedDraw
  <2>3. d2.noisePos \in Nat
    BY <2>2 DEF Untouched, Typed
  <2> QED BY <1>0, <1>1, <2>1, <2>2, <2>3
<1> HIDE DEF d2, c2
<1>3. Untouched(c3, d3, a) /\ d3.noisePos <= s.noisePos + 3
  <2>1. d2.noisePos <= 1 + 5 * MaxSamples /\ d2.noisePos \in Nat
    BY <1>0, <1>2 DEF Untouched, Typed
  <2>2. Untouched(c3, d3, a) /\ d3.noisePos <= d2.noisePos + 1
    BY <1>0, <1>2, <2>1, UntouchedDraw
  <2>3. d3.noisePos \in Nat
    BY <2>2 DEF Untouched, Typed
  <2> QED BY <1>0, <1>2, <2>1, <2>2, <2>3
<1> HIDE DEF d3, c3
<1>4. Untouched(c4, d4, a) /\ d4.noisePos <= s.noisePos + 4
  <2>1. d3.noisePos <= 1 + 5 * MaxSamples /\ d3.noisePos \in Nat
    BY <1>0, <1>3 DEF Untouched, Typed
  <2>2. Untouched(c4, d4, a) /\ d4.noisePos <= d3.noisePos + 1
    BY <1>0, <1>3, <2>1, UntouchedDraw
  <2>3. d4.noisePos \in Nat
    BY <2>2 DEF Untouched, Typed
  <2> QED BY <1>0, <1>3, <2>1, <2>2, <2>3
<1> HIDE DEF d4, c4
<1>5. Untouched(c5, d5, a)
  <2>1. d4.noisePos <= 1 + 5 * MaxSamples /\ d4.noisePos \in Nat
    BY <1>0, <1>4 DEF Untouched, Typed
  <2> QED BY <1>0, <1>4, <2>1, UntouchedDraw
<1> HIDE DEF d5, c5
<1>6. Untouched(CompletePart(c5), CompletePart(d5), a)
  BY <1>5, UntouchedComplete
<1>7. Due(w) <=> Due(s)
  BY DEF Due, Untouched, Paired, Alike, SameParts
<1>8. /\ Made(s) = IF Due(s) THEN CompletePart(d5) ELSE d3
      /\ Made(w) = IF Due(w) THEN CompletePart(c5) ELSE c3
  BY DEF Made, DrawSample, DrawPart, d1, d2, d3, d4, d5, c1, c2, c3, c4, c5
<1> QED BY <1>3, <1>6, <1>7, <1>8

LEMMA AlikeAdvanced ==
    ASSUME NEW s, NEW w, NEW a, Paired(w, s, a), MachineInv(s), MachineInv(w),
           Alike(w, s), s.t < MaxSamples, ~ Active(a, s.t)
    PROVE  Alike(Advanced(w), Advanced(s))
<1> DEFINE d == Made(s)
           c == Made(w)
           p1 == Publish(d, "BoreDiameter")  q1 == Publish(c, "BoreDiameter")
           p2 == Publish(p1, "Torque")       q2 == Publish(q1, "Torque")
           p3 == Publish(p2, "CycleTime")    q3 == Publish(q2, "CycleTime")
           p4 == Publish(p3, "Temperature")  q4 == Publish(q3, "Temperature")
           p5 == Publish(p4, "Vibration")    q5 == Publish(q4, "Vibration")
<1>1. s.noisePos + 4 <= 1 + 5 * MaxSamples /\ w.noisePos = s.noisePos /\ w.t = s.t
  BY DrawsLeft DEF Alike, Paired
<1>2. Typed(s) /\ Typed(w)
  BY DEF MachineInv
<1>3. Untouched(c, d, a)
  BY <1>1, <1>2, UntouchedMade DEF Untouched
<1>4. /\ PublishAll(d) = p5 /\ PublishAll(c) = q5
  BY DEF PublishAll
<1> HIDE DEF d, c
<1>5. Untouched(q1, p1, a)
  BY <1>3, UntouchedPublish
<1> HIDE DEF p1, q1
<1>6. Untouched(q2, p2, a)
  BY <1>5, UntouchedPublish
<1> HIDE DEF p2, q2
<1>7. Untouched(q3, p3, a)
  BY <1>6, UntouchedPublish
<1> HIDE DEF p3, q3
<1>8. Untouched(q4, p4, a)
  BY <1>7, UntouchedPublish
<1> HIDE DEF p4, q4
<1>9. Untouched(q5, p5, a)
  BY <1>8, UntouchedPublish
<1> HIDE DEF p5, q5
<1>10. LET n == Advanced(s)
       IN  /\ n.parts = d.parts /\ n.scrap = d.scrap /\ n.nextPart = d.nextPart
           /\ n.noisePos = d.noisePos /\ n.truth = d.truth
           /\ n.faultPos = p5.faultPos /\ n.published = p5.published
  BY <1>1, <1>2, <1>4, AdvancedFields DEF d
<1>11. LET n == Advanced(w)
       IN  /\ n.parts = c.parts /\ n.scrap = c.scrap /\ n.nextPart = c.nextPart
           /\ n.noisePos = c.noisePos /\ n.truth = c.truth
           /\ n.faultPos = q5.faultPos /\ n.published = q5.published
  BY <1>1, <1>2, <1>4, AdvancedFields DEF c
<1>12. Alike(c, d) /\ Alike(q5, p5)
  BY <1>3, <1>9 DEF Untouched
<1> DEFINE ns == Advanced(s)
           nw == Advanced(w)
<1> HIDE DEF ns, nw
<1>13. Alike(nw, ns)
  BY <1>10, <1>11, <1>12 DEF Alike, SameParts, ns, nw
<1> QED BY <1>13 DEF ns, nw

-----------------------------------------------------------------------------
(* The two machines once it has started, while it moves no part *)

\* The machines are at one place of their generator; and the schedules, unless
\* the additional fault moves their draws.
Level(w, s, a) ==
    /\ Paired(w, s, a) /\ Typed(s) /\ Typed(w)
    /\ w.noisePos = s.noisePos /\ (Moves(a, s) \/ w.faultPos = s.faultPos)

\* The additional fault reaches no true value of the tag, itself or by moving
\* the draws of an outlier.
Calm(a, s, tag) ==
    /\ ~ (a.kind \in ProcessFaults /\ Reaches(a, s, tag))
    /\ ~ (Moves(a, s) /\ Holds(s, "Outlier", tag))

LEMMA SameCalm ==
    ASSUME NEW s, NEW d, SameRun(d, s), NEW a, NEW tag
    PROVE  (Calm(a, d, tag) <=> Calm(a, s, tag)) /\ (Moves(a, d) <=> Moves(a, s))
BY DEF SameRun, Calm, Moves, Holds, Reaches

LEMMA LevelDraw ==
    ASSUME NEW s, NEW w, NEW a, Level(w, s, a), NEW tag \in Measured,
           s.noisePos <= 1 + 5 * MaxSamples
    PROVE  LET d == Draw(s, tag)
               c == Draw(w, tag)
           IN  /\ Level(c, d, a)
               /\ Calm(a, s, tag) /\ Centre(w, tag) = Centre(s, tag)
                     => c.truth[tag] = d.truth[tag]
<1> DEFINE e == ProcessEffect(s, tag)
           g == ProcessEffect(w, tag)
           d == Draw(s, tag)
           c == Draw(w, tag)
           v == Floored(tag, Value(s, tag, e))
           u == Floored(tag, Value(w, tag, g))
<1>0. /\ Paired(w, s, a) /\ Typed(s) /\ Typed(w) /\ w.noisePos = s.noisePos
      /\ w.seed = s.seed /\ w.noisePos <= 1 + 5 * MaxSamples
  BY DEF Level, Paired
<1>1. Typed(d) /\ Typed(c) /\ c.noisePos = d.noisePos
  BY <1>0, DrawTyped
<1>2. /\ SameRun(d, s) /\ d.faultPos = e.faultPos /\ d.truth = [s.truth EXCEPT ![tag] = v]
      /\ SameRun(c, w) /\ c.faultPos = g.faultPos /\ c.truth = [w.truth EXCEPT ![tag] = u]
  BY <1>0, DrawFields DEF Typed
<1>3. ASSUME ~ Moves(a, s)
      PROVE  g.faultPos = e.faultPos
  <2>1. w.faultPos = s.faultPos /\ a.kind # "Outlier"
    BY <1>3 DEF Level, Moves
  <2> QED BY <1>0, <2>1, EffectsDraw
<1>4. ASSUME Calm(a, s, tag), Centre(w, tag) = Centre(s, tag)
      PROVE  Value(w, tag, g) = Value(s, tag, e)
  <2>1. ~ (a.kind \in ProcessFaults /\ Reaches(a, s, tag))
    BY <1>4 DEF Calm
  <2>2. CASE Holds(s, "Outlier", tag)
    <3>1. w.faultPos = s.faultPos
      BY <1>4, <2>2 DEF Calm, Level
    <3>2. EqualEffects(e, g, TRUE)
      BY <1>0, <2>1, <3>1, EffectsEqual
    <3> HIDE DEF e, g
    <3> QED BY <1>0, <1>4, <3>2 DEF EqualEffects, Value
  <2>3. CASE ~ Holds(s, "Outlier", tag)
    <3>1. EqualEffects(e, g, FALSE)
      BY <1>0, <2>1, <2>3, EffectsEqual
    <3> HIDE DEF e, g
    <3> QED BY <1>0, <1>4, <3>1 DEF EqualEffects, Value
  <2> QED BY <2>2, <2>3
<1>5. ASSUME Calm(a, s, tag), Centre(w, tag) = Centre(s, tag)
      PROVE  c.truth[tag] = d.truth[tag]
  <2>1. u = v
    BY <1>4, <1>5
  <2> HIDE DEF u, v, c, d
  <2> QED BY <1>0, <1>2, <2>1 DEF Typed
<1>6. Paired(c, d, a)
  <2> HIDE DEF c, d
  <2> QED BY <1>0, <1>1, <1>2, PairedKept
<1>7. Level(c, d, a)
  <2>1. Moves(a, d) <=> Moves(a, s)
    BY <1>2, SameCalm
  <2> HIDE DEF c, d, e, g
  <2> QED BY <1>1, <1>2, <1>3, <1>6, <2>1 DEF Level
<1> QED BY <1>5, <1>7 DEF c, d

LEMMA LevelSample ==
    ASSUME NEW s, NEW w, NEW a, Level(w, s, a), s.noisePos + 2 <= 1 + 5 * MaxSamples
    PROVE  LET d == DrawSample(s)
               c == DrawSample(w)
           IN  /\ Level(c, d, a)
               /\ \A tag \in SampledTags :
                     Calm(a, s, tag) /\ (tag = "Vibration" => Calm(a, s, "Torque"))
                        => c.truth[tag] = d.truth[tag]
<1> DEFINE d1 == Draw(s, "Torque")       c1 == Draw(w, "Torque")
           d2 == Draw(d1, "Temperature") c2 == Draw(c1, "Temperature")
           d3 == Draw(d2, "Vibration")   c3 == Draw(c2, "Vibration")
<1>0. /\ s.noisePos \in Nat /\ MaxSamples \in Nat /\ Typed(s) /\ Typed(w)
      /\ w.noisePos = s.noisePos /\ w.t = s.t
      /\ "Torque" \in Measured /\ "Temperature" \in Measured /\ "Vibration" \in Measured
  BY SimulatorAssumption DEF Typed, Level, Paired, Measured, SampledTags
<1>1. s.noisePos <= 1 + 5 * MaxSamples
  BY <1>0
<1>2. /\ DrawsOnly(d1, s, {"Torque"}) /\ DrawsOnly(c1, w, {"Torque"})
      /\ d1.noisePos <= s.noisePos + 1
  BY <1>0, <1>1, DrawsOneTag, DrawTyped DEF Drawn
<1>3. Level(c1, d1, a) /\ (Calm(a, s, "Torque") => c1.truth["Torque"] = d1.truth["Torque"])
  <2>1. Centre(w, "Torque") = Centre(s, "Torque")
    BY DEF Centre, PartTags
  <2> QED BY <1>0, <1>1, <2>1, LevelDraw
<1> HIDE DEF d1, c1
<1>4. /\ Typed(d1) /\ Typed(c1) /\ d1.noisePos <= 1 + 5 * MaxSamples
      /\ c1.noisePos = d1.noisePos /\ d1.noisePos \in Nat /\ c1.t = d1.t
      /\ SameRun(d1, s)
  BY <1>0, <1>2, <1>3 DEF Level, DrawsOnly, Typed, SameRun
<1>5. /\ DrawsOnly(d2, d1, {"Temperature"}) /\ DrawsOnly(c2, c1, {"Temperature"})
      /\ d2.noisePos <= d1.noisePos + 1
  BY <1>0, <1>4, DrawsOneTag, DrawTyped DEF Drawn
<1>6. /\ Level(c2, d2, a)
      /\ Calm(a, s, "Temperature") => c2.truth["Temperature"] = d2.truth["Temperature"]
  <2>1. Centre(c1, "Temperature") = Centre(d1, "Temperature")
    BY <1>4 DEF Centre, PartTags
  <2>2. Calm(a, d1, "Temperature") <=> Calm(a, s, "Temperature")
    BY <1>4, SameCalm
  <2> QED BY <1>0, <1>3, <1>4, <2>1, <2>2, LevelDraw
<1> HIDE DEF d2, c2
<1>7. /\ Typed(d2) /\ Typed(c2) /\ d2.noisePos <= 1 + 5 * MaxSamples
      /\ c2.noisePos = d2.noisePos /\ SameRun(d2, s)
      /\ d2.truth["Torque"] = d1.truth["Torque"] /\ c2.truth["Torque"] = c1.truth["Torque"]
  <2>1. "Torque" \in Measured \ {"Temperature"}
    BY <1>0
  <2>2. d2.noisePos \in Nat /\ c2.noisePos = d2.noisePos
    BY <1>5, <1>6 DEF Level, DrawsOnly, Typed
  <2>3. d2.noisePos <= 1 + 5 * MaxSamples
    BY <1>0, <1>2, <1>4, <1>5, <2>2
  <2>4. SameRun(d2, s)
    BY <1>4, <1>5 DEF DrawsOnly, SameRun
  <2> QED BY <1>5, <2>1, <2>2, <2>3, <2>4 DEF DrawsOnly
<1>8. DrawsOnly(d3, d2, {"Vibration"}) /\ DrawsOnly(c3, c2, {"Vibration"})
  BY <1>0, <1>7, DrawsOneTag
<1>9. /\ Level(c3, d3, a)
      /\ Calm(a, s, "Vibration") /\ Calm(a, s, "Torque")
            => c3.truth["Vibration"] = d3.truth["Vibration"]
  <2>1. Calm(a, s, "Torque") => Centre(c2, "Vibration") = Centre(d2, "Vibration")
    BY <1>3, <1>7 DEF Centre, PartTags
  <2>2. Calm(a, d2, "Vibration") <=> Calm(a, s, "Vibration")
    BY <1>7, SameCalm
  <2>3. /\ Level(c3, d3, a)
        /\ Calm(a, d2, "Vibration") /\ Centre(c2, "Vibration") = Centre(d2, "Vibration")
              => c3.truth["Vibration"] = d3.truth["Vibration"]
    BY <1>0, <1>6, <1>7, LevelDraw
  <2> QED BY <2>1, <2>2, <2>3
<1> HIDE DEF d3, c3
<1>10. \A tag \in {"Torque", "Temperature"} :
          d3.truth[tag] = d2.truth[tag] /\ c3.truth[tag] = c2.truth[tag]
  BY <1>0, <1>8 DEF DrawsOnly
<1>11. Calm(a, s, "Torque") => c3.truth["Torque"] = d3.truth["Torque"]
  BY <1>3, <1>7, <1>10
<1>12. Calm(a, s, "Temperature") => c3.truth["Temperature"] = d3.truth["Temperature"]
  BY <1>6, <1>10
<1>13. DrawSample(s) = d3 /\ DrawSample(w) = c3
  BY DEF DrawSample, d1, d2, d3, c1, c2, c3
<1>14. \A tag \in SampledTags :
          Calm(a, s, tag) /\ (tag = "Vibration" => Calm(a, s, "Torque"))
             => c3.truth[tag] = d3.truth[tag]
  BY <1>9, <1>11, <1>12 DEF SampledTags
<1> QED BY <1>9, <1>13, <1>14

LEMMA LevelPart ==
    ASSUME NEW s, NEW w, NEW a, Level(w, s, a), s.noisePos + 1 <= 1 + 5 * MaxSamples
    PROVE  LET d == DrawPart(s)
               c == DrawPart(w)
           IN  /\ Level(c, d, a)
               /\ \A tag \in PartTags : Calm(a, s, tag) => c.truth[tag] = d.truth[tag]
<1> DEFINE d1 == Draw(s, "BoreDiameter") c1 == Draw(w, "BoreDiameter")
           d2 == Draw(d1, "CycleTime")   c2 == Draw(c1, "CycleTime")
<1>0. /\ s.noisePos \in Nat /\ MaxSamples \in Nat /\ Typed(s) /\ Typed(w)
      /\ w.noisePos = s.noisePos
      /\ "BoreDiameter" \in Measured /\ "CycleTime" \in Measured
  BY SimulatorAssumption DEF Typed, Level, Measured, PartTags
<1>1. s.noisePos <= 1 + 5 * MaxSamples
  BY <1>0
<1>2. /\ DrawsOnly(d1, s, {"BoreDiameter"}) /\ d1.noisePos <= s.noisePos + 1
  BY <1>0, <1>1, DrawsOneTag, DrawTyped DEF Drawn
<1>3. /\ Level(c1, d1, a)
      /\ Calm(a, s, "BoreDiameter") => c1.truth["BoreDiameter"] = d1.truth["BoreDiameter"]
  <2>1. Centre(w, "BoreDiameter") = Centre(s, "BoreDiameter")
    BY DEF Centre, PartTags
  <2> QED BY <1>0, <1>1, <2>1, LevelDraw
<1> HIDE DEF d1, c1
<1>4. /\ Typed(d1) /\ Typed(c1) /\ d1.noisePos <= 1 + 5 * MaxSamples
      /\ c1.noisePos = d1.noisePos /\ SameRun(d1, s)
  BY <1>0, <1>2, <1>3 DEF Level, DrawsOnly, Typed
<1>5. DrawsOnly(d2, d1, {"CycleTime"}) /\ DrawsOnly(c2, c1, {"CycleTime"})
  BY <1>0, <1>4, DrawsOneTag
<1>6. /\ Level(c2, d2, a)
      /\ Calm(a, s, "CycleTime") => c2.truth["CycleTime"] = d2.truth["CycleTime"]
  <2>1. Centre(c1, "CycleTime") = Centre(d1, "CycleTime")
    BY DEF Centre, PartTags
  <2>2. Calm(a, d1, "CycleTime") <=> Calm(a, s, "CycleTime")
    BY <1>4, SameCalm
  <2> QED BY <1>0, <1>3, <1>4, <2>1, <2>2, LevelDraw
<1> HIDE DEF d2, c2
<1>7. /\ d2.truth["BoreDiameter"] = d1.truth["BoreDiameter"]
      /\ c2.truth["BoreDiameter"] = c1.truth["BoreDiameter"]
  BY <1>0, <1>5 DEF DrawsOnly
<1>8. \A tag \in PartTags : Calm(a, s, tag) => c2.truth[tag] = d2.truth[tag]
  BY <1>3, <1>6, <1>7 DEF PartTags
<1>9. DrawPart(s) = d2 /\ DrawPart(w) = c2
  BY DEF DrawPart, d1, d2, c1, c2
<1> QED BY <1>6, <1>8, <1>9

LEMMA LevelComplete ==
    ASSUME NEW s, NEW w, NEW a, Level(w, s, a)
    PROVE  Level(CompletePart(w), CompletePart(s), a)
<1> DEFINE d == CompletePart(s)
           c == CompletePart(w)
<1>1. Typed(d) /\ SameRun(d, s) /\ d.noisePos = s.noisePos /\ d.faultPos = s.faultPos
  BY CompleteFields DEF Level
<1>2. Typed(c) /\ SameRun(c, w) /\ c.noisePos = w.noisePos /\ c.faultPos = w.faultPos
  BY CompleteFields DEF Level
<1> HIDE DEF d, c
<1>3. Paired(c, d, a)
  BY <1>1, <1>2, PairedKept DEF Level
<1>4. Moves(a, d) <=> Moves(a, s)
  BY <1>1, SameCalm
<1>5. Level(c, d, a)
  BY <1>1, <1>2, <1>3, <1>4 DEF Level
<1> QED BY <1>5 DEF c, d

LEMMA LevelMade ==
    ASSUME NEW s, NEW w, NEW a, Level(w, s, a), w.nextPart = s.nextPart,
           s.noisePos + 4 <= 1 + 5 * MaxSamples
    PROVE  LET d == Made(s)
               c == Made(w)
           IN  /\ Level(c, d, a)
               /\ \A tag \in SampledTags :
                     Calm(a, s, tag) /\ (tag = "Vibration" => Calm(a, s, "Torque"))
                        => c.truth[tag] = d.truth[tag]
               /\ Due(s) => \A tag \in PartTags :
                     Calm(a, s, tag) => c.truth[tag] = d.truth[tag]
<1> DEFINE d1 == DrawSample(s)      c1 == DrawSample(w)
           d2 == DrawPart(d1)       c2 == DrawPart(c1)
           d3 == CompletePart(d2)   c3 == CompletePart(c2)
           settled(tag) == Calm(a, s, tag) /\ (tag = "Vibration" => Calm(a, s, "Torque"))
<1>0. /\ s.noisePos \in Nat /\ MaxSamples \in Nat /\ Drawn("Vibration") \in 0 .. 1
      /\ Typed(s) /\ Typed(w) /\ w.noisePos = s.noisePos /\ w.t = s.t
  <2>1. Typed(s) /\ Typed(w) /\ w.noisePos = s.noisePos /\ w.t = s.t
    BY DEF Level, Paired
  <2>2. s.noisePos \in Nat
    BY <2>1 DEF Typed
  <2> QED BY <2>1, <2>2, SimulatorAssumption DEF Drawn
<1>1. s.noisePos + 2 <= 1 + 5 * MaxSamples
  BY <1>0
<1>2. /\ Level(c1, d1, a)
      /\ \A tag \in SampledTags : settled(tag) => c1.truth[tag] = d1.truth[tag]
  BY <1>1, LevelSample
<1>3. DrawsOnly(d1, s, SampledTags) /\ d1.noisePos = s.noisePos + 2 + Drawn("Vibration")
  BY <1>0, <1>1, SampleDraws
<1> HIDE DEF d1, c1, settled
<1>4. /\ d1.noisePos \in Nat /\ d1.noisePos + 1 <= 1 + 5 * MaxSamples
      /\ Typed(d1) /\ Typed(c1) /\ c1.noisePos = d1.noisePos /\ SameRun(d1, s)
  BY <1>0, <1>2, <1>3 DEF Level, DrawsOnly
<1>5. /\ Level(c2, d2, a)
      /\ \A tag \in PartTags : Calm(a, d1, tag) => c2.truth[tag] = d2.truth[tag]
  BY <1>2, <1>4, LevelPart
<1>6. DrawsOnly(d2, d1, PartTags) /\ DrawsOnly(c2, c1, PartTags)
  BY <1>4, PartDraws
<1>7. Typed(d2) /\ Typed(c2)
  BY <1>6 DEF DrawsOnly
<1> HIDE DEF d2, c2
<1>8. Level(c3, d3, a) /\ d3.truth = d2.truth /\ c3.truth = c2.truth
  BY <1>5, <1>7, LevelComplete, CompleteFields
<1> HIDE DEF d3, c3
<1>9. \A tag \in SampledTags : settled(tag) => c3.truth[tag] = d3.truth[tag]
  <2>1. \A tag \in SampledTags : d2.truth[tag] = d1.truth[tag] /\ c2.truth[tag] = c1.truth[tag]
    BY <1>6 DEF DrawsOnly, Measured, SampledTags, PartTags
  <2> QED BY <1>2, <1>8, <2>1
<1>10. \A tag \in PartTags : Calm(a, s, tag) => c3.truth[tag] = d3.truth[tag]
  <2>1. \A tag \in PartTags : Calm(a, d1, tag) <=> Calm(a, s, tag)
    BY <1>4, SameCalm
  <2> QED BY <1>5, <1>8, <2>1
<1>11. Due(w) <=> Due(s)
  BY <1>0 DEF Due
<1>12. CASE Due(s)
  <2>1. Made(s) = d3 /\ Made(w) = c3
    BY <1>11, <1>12 DEF Made, d1, d2, d3, c1, c2, c3
  <2> QED BY <1>8, <1>9, <1>10, <2>1 DEF settled
<1>13. CASE ~ Due(s)
  <2>1. Made(s) = d1 /\ Made(w) = c1
    BY <1>11, <1>13 DEF Made, d1, c1
  <2> QED BY <1>2, <1>13, <2>1 DEF settled
<1> QED BY <1>12, <1>13

\* The additional fault and the draws it moves leave the gauge alone; nor does
\* a stuck gauge show what they did before.
Quiet(a, s, tag) ==
    /\ ~ (a.kind \in SensorFaults /\ Reaches(a, s, tag))
    /\ ~ Holds(s, "SensorStuck", tag)
    /\ ~ (Moves(a, s) /\ Holds(s, "SensorNoise", tag))

\* p and q are d and c after these tags were published.
Shown(q, p, c, d, a, tags) ==
    /\ Level(q, p, a) /\ SameRun(p, d) /\ p.truth = d.truth /\ q.truth = c.truth
    /\ tags \subseteq DOMAIN p.published /\ tags \subseteq DOMAIN q.published
    /\ \A tag \in tags : Quiet(a, d, tag) /\ c.truth[tag] = d.truth[tag]
                            => q.published[tag] = p.published[tag]

LEMMA SameReading ==
    ASSUME NEW s, NEW w, NEW a, Level(w, s, a), NEW tag,
           Quiet(a, s, tag), w.truth[tag] = s.truth[tag]
    PROVE  Reading(w, tag, SensorEffect(w, tag)) = Reading(s, tag, SensorEffect(s, tag))
<1> DEFINE e == SensorEffect(s, tag)
           g == SensorEffect(w, tag)
<1>1. /\ e \in Errors /\ (e.extra > 0 => Holds(s, "SensorNoise", tag))
      /\ e.frozen => Holds(s, "SensorStuck", tag)
  BY ErrorType DEF Level, Paired
<1>2. e = g
  BY ErrorsEqual DEF Level, Quiet
<1> HIDE DEF e, g
<1>3. ~ e.frozen
  BY <1>1 DEF Quiet
<1>4. ~ Noisy(e) \/ w.faultPos = s.faultPos
  BY <1>1 DEF Quiet, Level, Noisy
<1>5. w.faultSeed = s.faultSeed
  BY DEF Level, Paired
<1>6. Reading(w, tag, g) = Reading(s, tag, e)
  BY <1>2, <1>3, <1>4, <1>5 DEF Reading
<1> QED BY <1>6 DEF e, g

LEMMA ShownPublish ==
    ASSUME NEW q, NEW p, NEW c, NEW d, NEW a, NEW tags, Shown(q, p, c, d, a, tags), NEW tag
    PROVE  Shown(Publish(q, tag), Publish(p, tag), c, d, a, tags \cup {tag})
<1> DEFINE p1 == Publish(p, tag)
           q1 == Publish(q, tag)
           e == SensorEffect(p, tag)
           g == SensorEffect(q, tag)
<1>0. Typed(p) /\ Typed(q) /\ Paired(q, p, a) /\ q.noisePos = p.noisePos
  BY DEF Shown, Level
<1>1. Typed(p1) /\ Typed(q1)
  BY <1>0, PublishTyped
<1>2. /\ SameRun(p1, p) /\ p1.truth = p.truth /\ p1.noisePos = p.noisePos
      /\ p1.faultPos = IF Noisy(e) THEN p.faultPos + 1 ELSE p.faultPos
      /\ DOMAIN p1.published = DOMAIN p.published \cup {tag}
      /\ \A other \in DOMAIN p.published :
            other # tag => p1.published[other] = p.published[other]
      /\ p1.published[tag] = Reading(p, tag, e)
  BY <1>0, PublishFields DEF Typed
<1>3. /\ SameRun(q1, q) /\ q1.truth = q.truth /\ q1.noisePos = q.noisePos
      /\ q1.faultPos = IF Noisy(g) THEN q.faultPos + 1 ELSE q.faultPos
      /\ DOMAIN q1.published = DOMAIN q.published \cup {tag}
      /\ \A other \in DOMAIN q.published :
            other # tag => q1.published[other] = q.published[other]
      /\ q1.published[tag] = Reading(q, tag, g)
  BY <1>0, PublishFields DEF Typed
<1>4. ~ Moves(a, p) => (Noisy(e) <=> Noisy(g))
  BY <1>0, NoisyEqual
<1>5. Quiet(a, p, tag) /\ q.truth[tag] = p.truth[tag] =>
        Reading(q, tag, g) = Reading(p, tag, e)
  BY SameReading DEF Shown
<1> HIDE DEF p1, q1, e, g
<1>6. Paired(q1, p1, a)
  BY <1>0, <1>1, <1>2, <1>3, PairedKept
<1>7. Level(q1, p1, a)
  <2>1. Moves(a, p1) <=> Moves(a, p)
    BY <1>2, SameCalm
  <2>2. Moves(a, p1) \/ q1.faultPos = p1.faultPos
    BY <1>2, <1>3, <1>4, <2>1 DEF Shown, Level
  <2> QED BY <1>0, <1>1, <1>2, <1>3, <1>6, <2>2 DEF Level
<1>8. Quiet(a, d, tag) => Quiet(a, p, tag)
  BY DEF Shown, SameRun, Quiet, Reaches, Holds, Moves
<1>9. ASSUME NEW other \in tags \cup {tag},
             Quiet(a, d, other), c.truth[other] = d.truth[other]
      PROVE  q1.published[other] = p1.published[other]
  <2>1. CASE other = tag
    <3>1. q.truth[tag] = p.truth[tag]
      BY <1>9, <2>1 DEF Shown
    <3> QED BY <1>2, <1>3, <1>5, <1>8, <1>9, <2>1, <3>1
  <2>2. CASE other # tag
    <3>1. /\ other \in tags /\ other \in DOMAIN p.published /\ other \in DOMAIN q.published
          /\ q.published[other] = p.published[other]
      BY <1>9, <2>2 DEF Shown
    <3> QED BY <1>2, <1>3, <2>2, <3>1
  <2> QED BY <2>1, <2>2
<1>10. SameRun(p1, d) /\ p1.truth = d.truth /\ q1.truth = c.truth
  BY <1>2, <1>3 DEF Shown, SameRun
<1>11. /\ tags \cup {tag} \subseteq DOMAIN p1.published
       /\ tags \cup {tag} \subseteq DOMAIN q1.published
  BY <1>2, <1>3 DEF Shown
<1>12. Shown(q1, p1, c, d, a, tags \cup {tag})
  BY <1>7, <1>9, <1>10, <1>11 DEF Shown
<1> QED BY <1>12 DEF p1, q1

LEMMA LevelPublishAll ==
    ASSUME NEW c, NEW d, NEW a, Level(c, d, a)
    PROVE  Shown(PublishAll(c), PublishAll(d), c, d, a, Measured)
<1> DEFINE p1 == Publish(d, "BoreDiameter")  q1 == Publish(c, "BoreDiameter")
           p2 == Publish(p1, "Torque")       q2 == Publish(q1, "Torque")
           p3 == Publish(p2, "CycleTime")    q3 == Publish(q2, "CycleTime")
           p4 == Publish(p3, "Temperature")  q4 == Publish(q3, "Temperature")
           p5 == Publish(p4, "Vibration")    q5 == Publish(q4, "Vibration")
<1>1. Shown(c, d, c, d, a, {})
  BY DEF Shown, SameRun
<1>2. Shown(q1, p1, c, d, a, {} \cup {"BoreDiameter"})
  BY <1>1, ShownPublish
<1> HIDE DEF p1, q1
<1>3. Shown(q2, p2, c, d, a, ({} \cup {"BoreDiameter"}) \cup {"Torque"})
  BY <1>2, ShownPublish
<1> HIDE DEF p2, q2
<1>4. Shown(q3, p3, c, d, a, (({} \cup {"BoreDiameter"}) \cup {"Torque"}) \cup {"CycleTime"})
  BY <1>3, ShownPublish
<1> HIDE DEF p3, q3
<1>5. Shown(q4, p4, c, d, a, ((({} \cup {"BoreDiameter"}) \cup {"Torque"})
                                  \cup {"CycleTime"}) \cup {"Temperature"})
  BY <1>4, ShownPublish
<1> HIDE DEF p4, q4
<1>6. Shown(q5, p5, c, d, a, (((({} \cup {"BoreDiameter"}) \cup {"Torque"})
                                  \cup {"CycleTime"}) \cup {"Temperature"})
                                  \cup {"Vibration"})
  BY <1>5, ShownPublish
<1>7. (((({} \cup {"BoreDiameter"}) \cup {"Torque"}) \cup {"CycleTime"})
          \cup {"Temperature"}) \cup {"Vibration"} = Measured
  BY DEF Measured, SampledTags, PartTags
<1> QED BY <1>6, <1>7 DEF PublishAll, p1, p2, p3, p4, p5, q1, q2, q3, q4, q5

-----------------------------------------------------------------------------
(* What couples the two machines: the inductive invariant *)

\* The additional fault moves every later draw of the tag: OutliersMoveTruth
\* and MovesParts, for any machine.
OutliersMove(a, s, tag) ==
    /\ Moves(a, s)
    /\ \/ Holds(s, "Outlier", tag)
       \/ Holds(s, "Outlier", "CycleTime")
       \/ tag = "Vibration" /\ Holds(s, "Outlier", "Torque")
Disturbs(a, s, tag) == MovesParts(a) \/ OutliersMove(a, s, tag)

\* It was running when the value that the tag shows was measured.
At(w, tag) == IF tag \in PartTags THEN w.nextPart - w.truth["CycleTime"] ELSE w.t - 1
Caused(w, a, tag) ==
    /\ a.kind \in ProcessFaults /\ Drives(a, tag) /\ Active(a, At(w, tag))
    /\ tag \in PartTags => w.parts > 0

Coupled(w, s, a) ==
    /\ ~ Disturbs(a, s, "CycleTime") =>
          w.parts = s.parts /\ w.nextPart = s.nextPart /\ w.noisePos = s.noisePos
    /\ ~ MovesParts(a) /\ ~ Moves(a, s) => w.faultPos = s.faultPos
    /\ \A tag \in Measured : w.truth[tag] # s.truth[tag] =>
          Disturbs(a, s, tag) \/ Caused(w, a, tag)
    /\ w.scrap # s.scrap =>
          \/ Disturbs(a, s, "BoreDiameter")
          \/ a.kind \in ProcessFaults /\ a.tag = "BoreDiameter"

\* Where the readings differ.
Read(w, s, a) ==
    w.t > 0 => \A tag \in Measured : w.published[tag] # s.published[tag] =>
       \/ Disturbs(a, s, tag) \/ Caused(w, a, tag)
       \/ a.kind \in SensorFaults /\ a.tag = tag /\ Active(a, w.t - 1)
       \/ Holds(s, "SensorStuck", tag)
       \/ Moves(a, s) /\ Holds(s, "SensorNoise", tag)

PairInv(w, s, a) ==
    /\ Paired(w, s, a) /\ MachineInv(s) /\ MachineInv(w)
    /\ a.start >= w.t => Alike(w, s)
    /\ Coupled(w, s, a) /\ Read(w, s, a)

\* A sample is the state that its step left.
Sampled(out, s) ==
    IF s.t = 0 THEN out = NoSample
    ELSE /\ out.index = s.t - 1 /\ out.values = s.published /\ out.truth = s.truth
         /\ out.part_index = s.parts /\ out.scrap = s.scrap

\* A step of both machines that the additional fault does not move apart.
LEMMA StepLevel ==
    ASSUME NEW s, NEW w, NEW a, Paired(w, s, a), MachineInv(s), MachineInv(w),
           Coupled(w, s, a), s.t < MaxSamples, ~ Disturbs(a, s, "CycleTime")
    PROVE  LET d == Made(s)
               c == Made(w)
           IN  /\ Level(c, d, a) /\ (Due(w) <=> Due(s)) /\ SameRun(d, s)
               /\ \A tag \in SampledTags :
                     Calm(a, s, tag) /\ (tag = "Vibration" => Calm(a, s, "Torque"))
                        => c.truth[tag] = d.truth[tag]
               /\ Due(s) => \A tag \in PartTags :
                     Calm(a, s, tag) => c.truth[tag] = d.truth[tag]
               /\ Shown(PublishAll(c), PublishAll(d), c, d, a, Measured)
               /\ c.parts = d.parts /\ c.nextPart = d.nextPart
<1> DEFINE d == Made(s)
           c == Made(w)
<1>1. /\ w.t = s.t /\ w.nextPart = s.nextPart /\ w.parts = s.parts
      /\ w.noisePos = s.noisePos /\ Typed(s) /\ Typed(w)
  BY DEF Paired, Coupled, MachineInv
<1>2. s.noisePos + 4 <= 1 + 5 * MaxSamples /\ w.noisePos + 4 <= 1 + 5 * MaxSamples
  BY <1>1, DrawsLeft
<1>3. Level(w, s, a)
  <2>1. Moves(a, s) \/ w.faultPos = s.faultPos
    BY DEF Coupled, Disturbs
  <2> QED BY <1>1, <2>1 DEF Level
<1>4. /\ Level(c, d, a)
      /\ \A tag \in SampledTags :
            Calm(a, s, tag) /\ (tag = "Vibration" => Calm(a, s, "Torque"))
               => c.truth[tag] = d.truth[tag]
      /\ Due(s) => \A tag \in PartTags : Calm(a, s, tag) => c.truth[tag] = d.truth[tag]
  BY <1>1, <1>2, <1>3, LevelMade
<1>5. /\ SameRun(d, s)
      /\ ~ Due(s) => SameParts(d, s)
      /\ Due(s) => d.parts = s.parts + 1 /\ d.nextPart = s.t + d.truth["CycleTime"]
  BY <1>1, <1>2, MadeFacts
<1>6. /\ ~ Due(w) => SameParts(c, w)
      /\ Due(w) => c.parts = w.parts + 1 /\ c.nextPart = w.t + c.truth["CycleTime"]
  BY <1>1, <1>2, MadeFacts
<1>7. Due(w) <=> Due(s)
  BY <1>1 DEF Due
<1> HIDE DEF d, c
<1>8. Shown(PublishAll(c), PublishAll(d), c, d, a, Measured)
  BY <1>4, LevelPublishAll
<1>9. Calm(a, s, "CycleTime")
  BY DEF Calm, Disturbs, OutliersMove, MovesParts, Reaches
<1>10. Due(s) => c.truth["CycleTime"] = d.truth["CycleTime"]
  BY <1>4, <1>9 DEF PartTags
<1>11. c.parts = d.parts /\ c.nextPart = d.nextPart
  BY <1>1, <1>5, <1>6, <1>7, <1>10 DEF SameParts
<1> QED BY <1>4, <1>5, <1>7, <1>8, <1>11 DEF d, c

LEMMA CoupledAdvanced ==
    ASSUME NEW s, NEW w, NEW a, Paired(w, s, a), MachineInv(s), MachineInv(w),
           Coupled(w, s, a), s.t < MaxSamples
    PROVE  Coupled(Advanced(w), Advanced(s), a) /\ Read(Advanced(w), Advanced(s), a)
<1> DEFINE d == Made(s)        c == Made(w)
           p == PublishAll(d)  q == PublishAll(c)
           n == Advanced(s)    m == Advanced(w)
<1>1. /\ w.t = s.t /\ w.t < MaxSamples /\ s.t \in Nat /\ Typed(s) /\ Typed(w)
      /\ s.noisePos + 4 <= 1 + 5 * MaxSamples /\ w.noisePos + 4 <= 1 + 5 * MaxSamples
  <2>1. w.t = s.t /\ w.t < MaxSamples /\ Typed(s) /\ Typed(w)
    BY DEF Paired, MachineInv
  <2> QED BY <2>1, DrawsLeft DEF Typed
<1>2. /\ n.faults = s.faults /\ n.t = s.t + 1 /\ n.parts = d.parts /\ n.scrap = d.scrap
      /\ n.nextPart = d.nextPart /\ n.noisePos = d.noisePos /\ n.truth = d.truth
      /\ n.faultPos = p.faultPos /\ n.published = p.published
  BY <1>1, AdvancedFields
<1>3. /\ m.t = w.t + 1 /\ m.parts = c.parts /\ m.scrap = c.scrap
      /\ m.nextPart = c.nextPart /\ m.noisePos = c.noisePos /\ m.truth = c.truth
      /\ m.faultPos = q.faultPos /\ m.published = q.published
  BY <1>1, AdvancedFields
<1>4. /\ ~ Due(s) =>
            /\ SameParts(d, s) /\ \A tag \in PartTags : d.truth[tag] = s.truth[tag]
      /\ Due(s) =>
            /\ d.parts = s.parts + 1 /\ d.nextPart = s.t + d.truth["CycleTime"]
            /\ d.scrap = IF IsScrap(d.truth["BoreDiameter"]) THEN s.scrap + 1 ELSE s.scrap
  BY <1>1, MadeFacts
<1>5. /\ ~ Due(w) =>
            /\ SameParts(c, w) /\ \A tag \in PartTags : c.truth[tag] = w.truth[tag]
      /\ Due(w) =>
            /\ c.parts = w.parts + 1 /\ c.nextPart = w.t + c.truth["CycleTime"]
            /\ c.scrap = IF IsScrap(c.truth["BoreDiameter"]) THEN w.scrap + 1 ELSE w.scrap
  BY <1>1, MadeFacts
<1>6. /\ Moves(a, n) <=> Moves(a, s)
      /\ \A kind, tag : Holds(n, kind, tag) <=> Holds(s, kind, tag)
      /\ \A tag : Disturbs(a, n, tag) <=> Disturbs(a, s, tag)
  <2> HIDE DEF n
  <2> QED BY <1>2 DEF Moves, Holds, Disturbs, OutliersMove
<1>7. c.truth["CycleTime"] \in Int /\ w.parts \in Nat
  BY <1>1, MadeFacts DEF Typed, Measured, PartTags
<1>8. \A tag : Disturbs(a, s, "CycleTime") => Disturbs(a, s, tag)
  BY DEF Disturbs, OutliersMove
<1>9. CASE Disturbs(a, s, "CycleTime")
  <2>1. \A tag : Disturbs(a, n, tag)
    BY <1>6, <1>8, <1>9
  <2>2. MovesParts(a) \/ Moves(a, n)
    BY <2>1 DEF Disturbs, OutliersMove
  <2> HIDE DEF n, m
  <2>3. Coupled(m, n, a)
    BY <2>1, <2>2 DEF Coupled
  <2>4. Read(m, n, a)
    BY <2>1 DEF Read
  <2> QED BY <2>3, <2>4 DEF n, m
<1>10. CASE ~ Disturbs(a, s, "CycleTime")
  <2>1. /\ Level(c, d, a) /\ (Due(w) <=> Due(s)) /\ SameRun(d, s)
        /\ \A tag \in SampledTags :
              Calm(a, s, tag) /\ (tag = "Vibration" => Calm(a, s, "Torque"))
                 => c.truth[tag] = d.truth[tag]
        /\ Due(s) => \A tag \in PartTags : Calm(a, s, tag) => c.truth[tag] = d.truth[tag]
        /\ Shown(q, p, c, d, a, Measured)
        /\ c.parts = d.parts /\ c.nextPart = d.nextPart
    BY <1>10, StepLevel
  <2> HIDE DEF d, c, p, q, n, m
  <2>2. ~ MovesParts(a) /\ ~ Moves(a, n) => m.faultPos = n.faultPos
    <3>1. Moves(a, p) \/ q.faultPos = p.faultPos
      BY <2>1 DEF Shown, Level
    <3>2. Moves(a, p) <=> Moves(a, s)
      BY <2>1 DEF Shown, SameRun, Moves, Holds
    <3> QED BY <1>2, <1>3, <1>6, <3>1, <3>2
  <2>3. m.parts = n.parts /\ m.nextPart = n.nextPart /\ m.noisePos = n.noisePos
    BY <1>2, <1>3, <2>1 DEF Level
  <2>4. ASSUME NEW tag \in Measured, ~ Disturbs(a, s, tag), c.truth[tag] # d.truth[tag]
        PROVE  Caused(m, a, tag)
    <3>1. ASSUME NEW other, ~ (Moves(a, s) /\ Holds(s, "Outlier", other)),
                 ~ Calm(a, s, other)
          PROVE  a.kind \in ProcessFaults /\ a.tag = other /\ Active(a, s.t)
      BY <3>1 DEF Calm, Reaches
    <3>2. ~ (Moves(a, s) /\ Holds(s, "Outlier", tag))
      BY <2>4 DEF Disturbs, OutliersMove
    <3>3. CASE tag \in SampledTags
      <4>1. At(m, tag) = s.t
        BY <1>1, <1>3, <3>3 DEF At, SampledTags, PartTags
      <4>2. tag \notin PartTags
        BY <3>3 DEF SampledTags, PartTags
      <4>3. CASE ~ Calm(a, s, tag)
        BY <3>1, <3>2, <4>1, <4>2, <4>3 DEF Caused, Drives
      <4>4. CASE tag = "Vibration" /\ ~ Calm(a, s, "Torque")
        <5>1. ~ (Moves(a, s) /\ Holds(s, "Outlier", "Torque"))
          BY <2>4, <4>4 DEF Disturbs, OutliersMove
        <5> QED BY <3>1, <4>1, <4>2, <4>4, <5>1 DEF Caused, Drives
      <4> QED BY <2>1, <2>4, <3>3, <4>3, <4>4
    <3>4. CASE tag \in PartTags /\ Due(s)
      <4>1. ~ Calm(a, s, tag)
        BY <2>1, <2>4, <3>4
      <4>2. At(m, tag) = s.t
        <5>1. m.nextPart = s.t + c.truth["CycleTime"] /\ m.truth = c.truth
          BY <1>1, <1>3, <1>5, <2>1, <3>4
        <5> QED BY <1>1, <1>7, <3>4, <5>1 DEF At
      <4>3. m.parts > 0
        BY <1>3, <1>5, <1>7, <2>1, <3>4
      <4> QED BY <3>1, <3>2, <4>1, <4>2, <4>3 DEF Caused, Drives
    <3>5. CASE tag \in PartTags /\ ~ Due(s)
      <4>1. w.truth[tag] # s.truth[tag]
        BY <1>4, <1>5, <2>1, <2>4, <3>5
      <4>2. Caused(w, a, tag)
        BY <2>4, <4>1 DEF Coupled
      <4>3. /\ m.nextPart = w.nextPart /\ m.parts = w.parts
            /\ m.truth["CycleTime"] = w.truth["CycleTime"]
        BY <1>3, <1>5, <2>1, <3>5 DEF SameParts, PartTags
      <4> QED BY <3>5, <4>2, <4>3 DEF Caused, At
    <3> QED BY <3>3, <3>4, <3>5 DEF Measured
  <2>5. ASSUME m.scrap # n.scrap, ~ Disturbs(a, s, "BoreDiameter"),
               ~ (a.kind \in ProcessFaults /\ a.tag = "BoreDiameter")
        PROVE  FALSE
    <3>1. w.scrap = s.scrap
      BY <2>5 DEF Coupled
    <3>2. Calm(a, s, "BoreDiameter")
      BY <2>5 DEF Calm, Reaches, Disturbs, OutliersMove
    <3>3. Due(s) => c.truth["BoreDiameter"] = d.truth["BoreDiameter"]
      BY <2>1, <3>2 DEF PartTags
    <3> QED BY <1>2, <1>3, <1>4, <1>5, <2>1, <2>5, <3>1, <3>3 DEF SameParts
  <2>6. Coupled(m, n, a)
    <3>1. \A tag \in Measured : m.truth[tag] # n.truth[tag] =>
             Disturbs(a, n, tag) \/ Caused(m, a, tag)
      BY <1>2, <1>3, <1>6, <2>4
    <3>2. m.scrap # n.scrap =>
            \/ Disturbs(a, n, "BoreDiameter")
            \/ a.kind \in ProcessFaults /\ a.tag = "BoreDiameter"
      BY <1>6, <2>5
    <3> QED BY <2>2, <2>3, <3>1, <3>2 DEF Coupled
  <2>7. ASSUME NEW tag \in Measured, m.published[tag] # n.published[tag],
               ~ Disturbs(a, s, tag), ~ Caused(m, a, tag)
        PROVE  \/ a.kind \in SensorFaults /\ a.tag = tag /\ Active(a, m.t - 1)
               \/ Holds(s, "SensorStuck", tag)
               \/ Moves(a, s) /\ Holds(s, "SensorNoise", tag)
    <3>1. c.truth[tag] = d.truth[tag]
      BY <2>4, <2>7
    <3>2. ~ Quiet(a, d, tag)
      BY <1>2, <1>3, <2>1, <2>7, <3>1 DEF Shown
    <3>3. ~ Quiet(a, s, tag)
      BY <2>1, <3>2 DEF SameRun, Quiet, Reaches, Holds, Moves
    <3>4. m.t - 1 = s.t
      BY <1>1, <1>3
    <3> QED BY <3>3, <3>4 DEF Quiet, Reaches
  <2>8. Read(m, n, a)
    BY <1>6, <2>7 DEF Read
  <2> QED BY <2>6, <2>8 DEF n, m
<1> QED BY <1>9, <1>10

LEMMA PairAdvanced ==
    ASSUME NEW s, NEW w, NEW a, PairInv(w, s, a), s.t < MaxSamples
    PROVE  PairInv(Advanced(w), Advanced(s), a)
<1> DEFINE n == Advanced(s)
           m == Advanced(w)
<1>1. /\ Paired(w, s, a) /\ MachineInv(s) /\ MachineInv(w) /\ Coupled(w, s, a)
      /\ a.start >= w.t => Alike(w, s)
  BY DEF PairInv
<1>2. w.t = s.t /\ s.t \in Nat /\ a.start \in Nat /\ w.t < MaxSamples
  BY <1>1, FaultFields DEF Paired, MachineInv, Typed
<1>3. MachineInv(n) /\ MachineInv(m)
  BY <1>1, <1>2, AdvancedInv
<1>4. Coupled(m, n, a) /\ Read(m, n, a)
  BY <1>1, CoupledAdvanced
<1>5. /\ Typed(n) /\ n.t = s.t + 1 /\ n.faults = s.faults
      /\ n.seed = s.seed /\ n.faultSeed = s.faultSeed
  BY <1>1, DrawsLeft, AdvancedFields DEF MachineInv
<1>6. /\ Typed(m) /\ m.t = w.t + 1 /\ m.faults = w.faults
      /\ m.seed = w.seed /\ m.faultSeed = w.faultSeed
  BY <1>1, <1>2, DrawsLeft, AdvancedFields DEF MachineInv
<1>7. a.start >= s.t + 1 => Alike(m, n)
  <2>1. a.start >= s.t + 1 => a.start >= w.t /\ ~ Active(a, s.t)
    BY <1>2 DEF Active
  <2> QED BY <1>1, <2>1, AlikeAdvanced
<1> HIDE DEF n, m
<1>8. Paired(m, n, a)
  BY <1>1, <1>5, <1>6 DEF Paired, Longer, Typed
<1>9. a.start >= m.t => Alike(m, n)
  BY <1>2, <1>6, <1>7
<1>10. PairInv(m, n, a)
  BY <1>3, <1>4, <1>8, <1>9 DEF PairInv
<1> QED BY <1>10 DEF n, m

LEMMA PairFresh ==
    ASSUME NEW faults \in Seq(Fault), NEW long \in Seq(Fault), NEW a \in Fault,
           \E p \in 1 .. Len(faults) + 1 : long = InsertAt(faults, p, a),
           NEW seed \in DOMAIN Stream, NEW faultSeed
    PROVE  PairInv(Fresh(long, seed, faultSeed), Fresh(faults, seed, faultSeed), a)
<1> DEFINE s == Fresh(faults, seed, faultSeed)
           w == Fresh(long, seed, faultSeed)
<1>1. MachineInv(s) /\ MachineInv(w)
  BY FreshInv
<1>2. /\ s.faults = faults /\ w.faults = long /\ w.t = 0 /\ s.t = 0
      /\ w.seed = s.seed /\ w.faultSeed = s.faultSeed
  BY DEF Fresh
<1>3. Alike(w, s)
  BY DEF Fresh, Alike, SameParts
<1> HIDE DEF s, w
<1>4. Paired(w, s, a)
  BY <1>1, <1>2 DEF Paired, MachineInv, Typed, Longer
<1>5. Coupled(w, s, a) /\ Read(w, s, a)
  BY <1>2, <1>3 DEF Coupled, Read, Alike, SameParts
<1>6. PairInv(w, s, a)
  BY <1>1, <1>3, <1>4, <1>5 DEF PairInv
<1> QED BY <1>6 DEF s, w

LEMMA SampleTaken ==
    ASSUME NEW s, MachineInv(s), s.t < MaxSamples
    PROVE  Sampled(SampleOf(s), Advanced(s))
<1> DEFINE p == Stepped(s)
           n == Advanced(s)
<1>1. Typed(s) /\ s.noisePos + 4 <= 1 + 5 * MaxSamples /\ s.t \in Nat
  <2>1. Typed(s) /\ s.t \in Nat
    BY DEF MachineInv, Typed
  <2> QED BY <2>1, DrawsLeft
<1>2. Typed(p) /\ n.t = s.t + 1
  BY <1>1, AdvancedFields
<1>3. n = [p EXCEPT !.t = @ + 1]
  BY DEF Advanced
<1>4. /\ SampleOf(s).index = s.t /\ SampleOf(s).values = p.published
      /\ SampleOf(s).truth = p.truth /\ SampleOf(s).part_index = p.parts
      /\ SampleOf(s).scrap = p.scrap
  BY DEF SampleOf
<1> HIDE DEF p, n
<1>5. n.published = p.published /\ n.truth = p.truth /\ n.parts = p.parts /\ n.scrap = p.scrap
  BY <1>2, <1>3 DEF Typed, Shaped
<1>6. Sampled(SampleOf(s), n)
  BY <1>1, <1>2, <1>4, <1>5 DEF Sampled
<1> QED BY <1>6 DEF n

-----------------------------------------------------------------------------
(* The theorems about what the additional fault changes *)

TwinsInv ==
    /\ PairInv(twinSim, sim, added)
    /\ Sampled(sample, sim) /\ Sampled(twinSample, twinSim)

LEMMA Beginning ==
    ASSUME NEW s, s.t = 0
    PROVE  Sampled(NoSample, s)
BY DEF Sampled

LEMMA TwinsInvInit == TwinsInit => TwinsInv
<1> SUFFICES ASSUME TwinsInit
             PROVE  TwinsInv
  OBVIOUS
<1>1. PICK faults \in Schedules, seed \in DOMAIN Stream, faultSeed \in DOMAIN Stream :
         sim = Fresh(faults, seed, faultSeed)
  BY DEF TwinsInit, Init
<1>2. sim.faults = faults /\ sim.seed = seed /\ sim.faultSeed = faultSeed /\ sim.t = 0
  BY <1>1 DEF Fresh
<1>3. PICK p \in 1 .. Len(faults) + 1 :
         twinSim = Fresh(InsertAt(faults, p, added), seed, faultSeed)
  BY <1>2 DEF TwinsInit
<1>4. faults \in Seq(Fault) /\ added \in Fault
  BY SimulatorAssumption, TwinsAssumption DEF TwinsInit
<1>5. InsertAt(faults, p, added) \in Seq(Fault)
  BY <1>4, Inserted
<1>6. PairInv(twinSim, sim, added)
  BY <1>1, <1>3, <1>4, <1>5, PairFresh
<1>7. twinSim.t = 0
  BY <1>3 DEF Fresh
<1>8. sample = NoSample /\ twinSample = NoSample
  BY DEF TwinsInit, Init
<1> QED BY <1>2, <1>6, <1>7, <1>8, Beginning DEF TwinsInv

LEMMA TwinsInvStep == TwinsInv /\ [TwinsNext]_twinVars => TwinsInv'
<1> SUFFICES ASSUME TwinsInv, [TwinsNext]_twinVars
             PROVE  TwinsInv'
  OBVIOUS
<1>1. CASE StepBoth
  <2>1. /\ sim.t < MaxSamples /\ sim' = Advanced(sim) /\ sample' = SampleOf(sim)
        /\ twinSim' = Advanced(twinSim) /\ twinSample' = SampleOf(twinSim) /\ added' = added
    BY <1>1 DEF StepBoth, Step
  <2>2. PairInv(twinSim, sim, added)
    BY DEF TwinsInv
  <2>3. /\ MachineInv(sim) /\ MachineInv(twinSim)
        /\ twinSim.t < MaxSamples
    BY <2>1, <2>2 DEF PairInv, Paired
  <2>4. PairInv(Advanced(twinSim), Advanced(sim), added)
    BY <2>1, <2>2, PairAdvanced
  <2>5. /\ Sampled(SampleOf(sim), Advanced(sim))
        /\ Sampled(SampleOf(twinSim), Advanced(twinSim))
    BY <2>1, <2>3, SampleTaken
  <2> QED BY <2>1, <2>4, <2>5 DEF TwinsInv
<1>2. CASE ResetBoth
  <2> DEFINE s == Fresh(sim.faults, sim.seed, sim.faultSeed)
             w == Fresh(twinSim.faults, twinSim.seed, twinSim.faultSeed)
  <2>1. /\ sim' = s /\ sample' = NoSample
        /\ twinSim' = w /\ twinSample' = NoSample /\ added' = added
    BY <1>2 DEF ResetBoth, Reset, Rewound
  <2>2. Paired(twinSim, sim, added) /\ Typed(sim) /\ Typed(twinSim)
    BY DEF TwinsInv, PairInv, MachineInv
  <2>3. /\ sim.faults \in Seq(Fault) /\ twinSim.faults \in Seq(Fault) /\ added \in Fault
        /\ \E p \in 1 .. Len(sim.faults) + 1 : twinSim.faults = InsertAt(sim.faults, p, added)
        /\ sim.seed \in DOMAIN Stream
        /\ twinSim.seed = sim.seed /\ twinSim.faultSeed = sim.faultSeed
    BY <2>2 DEF Paired, Longer, Scheduled, Typed
  <2>4. PairInv(w, s, added)
    BY <2>3, PairFresh
  <2>5. s.t = 0 /\ w.t = 0
    BY DEF Fresh
  <2> HIDE DEF s, w
  <2> QED BY <2>1, <2>4, <2>5, Beginning DEF TwinsInv
<1>3. CASE UNCHANGED twinVars
  BY <1>3 DEF twinVars, TwinsInv
<1> QED BY <1>1, <1>2, <1>3 DEF TwinsNext

LEMMA TwinsInvCounts == TwinsInv => TwinsTypeOK
<1> SUFFICES ASSUME TwinsInv
             PROVE  TwinsTypeOK
  OBVIOUS
<1>1. ASSUME NEW s, NEW out, MachineInv(s), Sampled(out, s)
      PROVE  CountsOK(s, out)
  <2>1. /\ s.t \in 0 .. MaxSamples /\ s.parts \in 0 .. s.t /\ s.scrap \in 0 .. s.parts
        /\ s.noisePos = 2 + 2 * s.parts + (IF VibrationStd > 0 THEN 3 ELSE 2) * s.t
    BY <1>1 DEF MachineInv, Typed, DrawsPerSample
  <2>2. out.index = s.t - 1
    BY <1>1 DEF Sampled, NoSample
  <2> QED BY <1>1, <2>1, <2>2 DEF CountsOK, MachineInv
<1>2. MachineInv(sim) /\ MachineInv(twinSim)
  BY DEF TwinsInv, PairInv
<1> QED BY <1>1, <1>2 DEF TwinsInv, TwinsTypeOK

\* What the properties of Twins say, in the terms of the invariant.
LEMMA Translation ==
    ASSUME TwinsInv, twinSample.index >= 0
    PROVE  /\ twinSample.index = twinSim.t - 1 /\ twinSim.t > 0
           /\ sample.truth = sim.truth /\ twinSample.truth = twinSim.truth
           /\ sample.values = sim.published /\ twinSample.values = twinSim.published
           /\ sample.part_index = sim.parts /\ twinSample.part_index = twinSim.parts
           /\ sample.scrap = sim.scrap /\ twinSample.scrap = twinSim.scrap
           /\ ~ Alike(twinSim, sim) => Started
           /\ \A tag : MeasuredAt(tag) = At(twinSim, tag)
<1>1. /\ twinSim.t \in Nat /\ sim.t = twinSim.t /\ added.start \in Nat
      /\ added.start >= twinSim.t => Alike(twinSim, sim)
  BY FaultFields DEF TwinsInv, PairInv, Paired, MachineInv, Typed
<1>2. Sampled(twinSample, twinSim) /\ Sampled(sample, sim)
  BY DEF TwinsInv
<1>3. twinSim.t # 0
  BY <1>2 DEF Sampled, NoSample
<1>4. /\ twinSample.index = twinSim.t - 1 /\ twinSim.t > 0
      /\ sample.truth = sim.truth /\ twinSample.truth = twinSim.truth
      /\ sample.values = sim.published /\ twinSample.values = twinSim.published
      /\ sample.part_index = sim.parts /\ twinSample.part_index = twinSim.parts
      /\ sample.scrap = sim.scrap /\ twinSample.scrap = twinSim.scrap
  BY <1>1, <1>2, <1>3 DEF Sampled
<1>5. ~ Alike(twinSim, sim) => Started
  BY <1>1, <1>4 DEF Started
<1>6. \A tag : MeasuredAt(tag) = At(twinSim, tag)
  BY <1>4 DEF MeasuredAt, At
<1> QED BY <1>4, <1>5, <1>6

LEMMA SameMoves ==
    /\ MovesDraws <=> Moves(added, sim)
    /\ \A kind, tag : Has(kind, tag) <=> Holds(sim, kind, tag)
    /\ \A tag : Disturbs(added, sim, tag) <=> MovesParts(added) \/ OutliersMoveTruth(tag)
BY DEF MovesDraws, Moves, Has, Holds, Disturbs, OutliersMove, OutliersMoveTruth

LEMMA TwinsInvTruth == TwinsInv => TruthIsExplained
<1> SUFFICES ASSUME TwinsInv, twinSample.index >= 0
             PROVE  /\ \A tag \in Measured :
                          sample.truth[tag] # twinSample.truth[tag] => TruthMayDiffer(tag)
                    /\ sample.part_index # twinSample.part_index
                          \/ sim.nextPart # twinSim.nextPart
                       => Started /\ (MovesParts(added) \/ OutliersMoveTruth("CycleTime"))
                    /\ sample.scrap # twinSample.scrap
                       => /\ Started
                          /\ \/ added.kind \in ProcessFaults /\ added.tag = "BoreDiameter"
                             \/ MovesParts(added) \/ OutliersMoveTruth("BoreDiameter")
  BY DEF TruthIsExplained
<1>1. /\ sample.truth = sim.truth /\ twinSample.truth = twinSim.truth
      /\ sample.part_index = sim.parts /\ twinSample.part_index = twinSim.parts
      /\ sample.scrap = sim.scrap /\ twinSample.scrap = twinSim.scrap
      /\ ~ Alike(twinSim, sim) => Started
      /\ \A tag : MeasuredAt(tag) = At(twinSim, tag)
  BY Translation
<1>2. Coupled(twinSim, sim, added)
  BY DEF TwinsInv, PairInv
<1>3. ASSUME NEW tag \in Measured, sample.truth[tag] # twinSample.truth[tag]
      PROVE  TruthMayDiffer(tag)
  <2>1. Started
    BY <1>1, <1>3 DEF Alike
  <2>2. Disturbs(added, sim, tag) \/ Caused(twinSim, added, tag)
    BY <1>1, <1>2, <1>3 DEF Coupled
  <2> QED BY <1>1, <2>1, <2>2, SameMoves DEF TruthMayDiffer, Caused
<1>4. ASSUME sample.part_index # twinSample.part_index \/ sim.nextPart # twinSim.nextPart
      PROVE  Started /\ (MovesParts(added) \/ OutliersMoveTruth("CycleTime"))
  <2>1. Started
    BY <1>1, <1>4 DEF Alike, SameParts
  <2>2. Disturbs(added, sim, "CycleTime")
    BY <1>1, <1>2, <1>4 DEF Coupled
  <2> QED BY <2>1, <2>2, SameMoves
<1>5. ASSUME sample.scrap # twinSample.scrap
      PROVE  /\ Started
             /\ \/ added.kind \in ProcessFaults /\ added.tag = "BoreDiameter"
                \/ MovesParts(added) \/ OutliersMoveTruth("BoreDiameter")
  <2>1. Started
    BY <1>1, <1>5 DEF Alike, SameParts
  <2> QED BY <1>1, <1>2, <1>5, <2>1, SameMoves DEF Coupled
<1> QED BY <1>3, <1>4, <1>5

LEMMA TwinsInvReadings == TwinsInv => ReadingsAreExplained
<1> SUFFICES ASSUME TwinsInv, twinSample.index >= 0,
                    NEW tag \in Measured, sample.values[tag] # twinSample.values[tag]
             PROVE  \/ TruthMayDiffer(tag)
                    \/ /\ added.kind \in SensorFaults /\ added.tag = tag
                       /\ Active(added, twinSample.index)
                    \/ /\ Started
                       /\ Has("SensorStuck", tag)
                          \/ (MovesDraws /\ Has("SensorNoise", tag))
  BY DEF ReadingsAreExplained
<1>1. /\ twinSample.index = twinSim.t - 1 /\ twinSim.t > 0
      /\ sample.values = sim.published /\ twinSample.values = twinSim.published
      /\ ~ Alike(twinSim, sim) => Started
      /\ \A other : MeasuredAt(other) = At(twinSim, other)
  BY Translation
<1>2. Started
  BY <1>1 DEF Alike
<1>3. Read(twinSim, sim, added)
  BY DEF TwinsInv, PairInv
<1>4. \/ Disturbs(added, sim, tag) \/ Caused(twinSim, added, tag)
      \/ added.kind \in SensorFaults /\ added.tag = tag /\ Active(added, twinSim.t - 1)
      \/ Holds(sim, "SensorStuck", tag)
      \/ Moves(added, sim) /\ Holds(sim, "SensorNoise", tag)
  BY <1>1, <1>3 DEF Read
<1>5. CASE Disturbs(added, sim, tag) \/ Caused(twinSim, added, tag)
  BY <1>1, <1>2, <1>5, SameMoves DEF TruthMayDiffer, Caused
<1> QED BY <1>1, <1>2, <1>4, <1>5, SameMoves

LEMMA TwinsInvariance == TwinsSpec => []TwinsInv
BY TwinsInvInit, TwinsInvStep, PTL DEF TwinsSpec

\* Every machine counts its parts and its scrap, keeps the time of its next
\* part ahead, and reads its generator by the sample and the part, whatever the
\* faults are (step, _complete_part, _draw).
THEOREM TwinsTypeCorrect == TwinsSpec => []TwinsTypeOK
BY TwinsInvariance, TwinsInvCounts, PTL

\* For every schedule and every fault more: a true value, a part or a scrap
\* count differs only where a process fault reached it (process_effect).
THEOREM TruthCorrect == TwinsSpec => []TruthIsExplained
BY TwinsInvariance, TwinsInvTruth, PTL

\* And a reading only with the truth, under a sensor fault that runs, or for a
\* gauge that is stuck or noisy without it too (sensor_effect, _publish).
THEOREM ReadingsCorrect == TwinsSpec => []ReadingsAreExplained
BY TwinsInvariance, TwinsInvReadings, PTL

-----------------------------------------------------------------------------
(* The theorem about reset *)

\* h is the run of the machine from its beginning, as far as the first run of
\* the behaviour went: what it went through, and what it returned.
Replays(h) ==
    /\ h[0] = Rewound(twinSim)
    /\ \A i \in 0 .. Len(firstRun) - 1 :
          h[i + 1] = Advanced(h[i]) /\ firstRun[i + 1] = SampleOf(h[i])
    /\ twinSim.t <= Len(firstRun) =>
          /\ twinSim = h[twinSim.t]
          /\ twinSim.t > 0 => twinSample = SampleOf(h[twinSim.t - 1])

ReplayInv ==
    /\ resets \in Nat /\ twinSim.t \in Nat /\ \E S : firstRun \in Seq(S)
    /\ resets = 0 => Len(firstRun) = twinSim.t
    /\ \E h : Replays(h)

LEMMA LargerSeq ==
    ASSUME NEW S, NEW s \in Seq(S), NEW x
    PROVE  s \in Seq(S \cup {x})
<1>1. Len(s) \in Nat /\ s = [i \in 1 .. Len(s) |-> s[i]]
      /\ \A i \in 1 .. Len(s) : s[i] \in S \cup {x}
  OBVIOUS
<1> DEFINE r == [i \in 1 .. Len(s) |-> s[i]]
<1>2. r \in Seq(S \cup {x})
  BY <1>1
<1> QED BY <1>1, <1>2

LEMMA SameBeginning ==
    ASSUME NEW s, NEW d, d.faults = s.faults, d.seed = s.seed, d.faultSeed = s.faultSeed
    PROVE  Rewound(d) = Rewound(s)
BY DEF Rewound

LEMMA RewoundOnce ==
    ASSUME NEW faults, NEW seed, NEW faultSeed
    PROVE  LET s == Fresh(faults, seed, faultSeed)
           IN  /\ s.t = 0 /\ Rewound(s) = s
               /\ s.faults = faults /\ s.seed = seed /\ s.faultSeed = faultSeed
<1> DEFINE s == Fresh(faults, seed, faultSeed)
<1>1. /\ s.t = 0 /\ s.faults = faults /\ s.seed = seed /\ s.faultSeed = faultSeed
  BY DEF Fresh
<1>2. Rewound(s) = Fresh(s.faults, s.seed, s.faultSeed)
  BY DEF Rewound
<1> HIDE DEF s
<1>3. Rewound(s) = Fresh(faults, seed, faultSeed)
  BY <1>1, <1>2
<1> QED BY <1>1, <1>3 DEF s

LEMMA ReplayInit == TwinsInit => ReplayInv
<1> SUFFICES ASSUME TwinsInit
             PROVE  ReplayInv
  OBVIOUS
<1>1. PICK p \in 1 .. Len(sim.faults) + 1 :
         twinSim = Fresh(InsertAt(sim.faults, p, added), sim.seed, sim.faultSeed)
  BY DEF TwinsInit
<1> DEFINE h == [i \in {0} |-> twinSim]
<1>2. twinSim.t = 0 /\ Rewound(twinSim) = twinSim
  BY <1>1, RewoundOnce
<1>4. firstRun = <<>> /\ resets = 0 /\ Len(firstRun) = 0
  BY DEF TwinsInit
<1>5. Replays(h)
  BY <1>2, <1>4 DEF Replays
<1>6. firstRun \in Seq({})
  BY <1>4
<1> QED BY <1>2, <1>4, <1>5, <1>6 DEF ReplayInv

LEMMA ReplayStep == TwinsInv /\ ReplayInv /\ [TwinsNext]_twinVars => ReplayInv'
<1> SUFFICES ASSUME TwinsInv, ReplayInv, [TwinsNext]_twinVars
             PROVE  ReplayInv'
  OBVIOUS
<1> DEFINE n == Len(firstRun)
           t == twinSim.t
<1>1. PICK h : Replays(h)
  BY DEF ReplayInv
<1>2. PICK S : firstRun \in Seq(S)
  BY DEF ReplayInv
<1>3. /\ n \in Nat /\ t \in Nat /\ resets \in Nat /\ (resets = 0 => n = t)
  BY <1>2 DEF ReplayInv
<1>4. /\ h[0] = Rewound(twinSim)
      /\ \A i \in 0 .. n - 1 : h[i + 1] = Advanced(h[i]) /\ firstRun[i + 1] = SampleOf(h[i])
      /\ t <= n => twinSim = h[t]
  BY <1>1 DEF Replays
<1>5. CASE StepBoth
  <2>1. /\ twinSim' = Advanced(twinSim) /\ twinSample' = SampleOf(twinSim)
        /\ resets' = resets /\ sim.t < MaxSamples
        /\ firstRun' = IF resets = 0 THEN Append(firstRun, SampleOf(twinSim)) ELSE firstRun
    BY <1>5 DEF StepBoth, Step
  <2>2. /\ Advanced(twinSim).t = t + 1 /\ Advanced(twinSim).faults = twinSim.faults
        /\ Advanced(twinSim).seed = twinSim.seed
        /\ Advanced(twinSim).faultSeed = twinSim.faultSeed
    <3>1. MachineInv(twinSim) /\ Typed(twinSim) /\ twinSim.t < MaxSamples
      BY <2>1 DEF TwinsInv, PairInv, Paired, MachineInv
    <3> QED BY <3>1, DrawsLeft, AdvancedFields
  <2>3. twinSim'.t = t + 1 /\ Rewound(twinSim') = Rewound(twinSim)
    BY <2>1, <2>2, SameBeginning
  <2> HIDE DEF n, t
  <2>4. CASE resets = 0
    <3> DEFINE x == SampleOf(twinSim)
    <3>0. PICK k : k = [i \in 0 .. n + 1 |-> IF i <= n THEN h[i] ELSE Advanced(twinSim)]
      OBVIOUS
    <3>1. firstRun \in Seq(S \cup {x}) /\ x \in S \cup {x}
      BY <1>2, LargerSeq
    <3>2. firstRun' = Append(firstRun, x)
      BY <2>1, <2>4
    <3> HIDE DEF x
    <3>3. /\ firstRun' \in Seq(S \cup {x}) /\ Len(firstRun') = n + 1
          /\ firstRun'[n + 1] = x /\ \A i \in 1 .. n : firstRun'[i] = firstRun[i]
      BY <3>1, <3>2 DEF n
    <3>4. n = t /\ twinSim = h[n]
      BY <1>3, <1>4, <2>4
    <3>5. k[0] = h[0] /\ k[n] = h[n] /\ k[n + 1] = Advanced(twinSim)
      BY <1>3, <3>0
    <3>6. ASSUME NEW i \in 0 .. n
          PROVE  k[i + 1] = Advanced(k[i]) /\ firstRun'[i + 1] = SampleOf(k[i])
      <4>1. CASE i = n
        <5>1. k[i] = twinSim /\ k[i + 1] = Advanced(twinSim)
          BY <3>4, <3>5, <4>1
        <5>2. firstRun'[i + 1] = x
          BY <3>3, <4>1
        <5> QED BY <5>1, <5>2 DEF x
      <4>2. CASE i # n
        <5>1. i \in 0 .. n - 1 /\ i + 1 \in 1 .. n /\ i + 1 \in 0 .. n + 1 /\ i \in 0 .. n + 1
          BY <1>3, <4>2
        <5>2. k[i] = h[i] /\ k[i + 1] = h[i + 1]
          BY <1>3, <3>0, <5>1
        <5>3. h[i + 1] = Advanced(h[i]) /\ firstRun[i + 1] = SampleOf(h[i])
          BY <1>4, <5>1
        <5>4. firstRun'[i + 1] = firstRun[i + 1]
          BY <3>3, <5>1
        <5> QED BY <5>2, <5>3, <5>4
      <4> QED BY <4>1, <4>2
    <3>7. twinSim' = k[n + 1] /\ twinSample' = SampleOf(k[n])
      BY <2>1, <3>4, <3>5
    <3>8. Replays(k)'
      <4>1. k[0] = Rewound(twinSim')
        BY <1>4, <2>3, <3>5
      <4>2. \A i \in 0 .. Len(firstRun') - 1 :
               k[i + 1] = Advanced(k[i]) /\ firstRun'[i + 1] = SampleOf(k[i])
        <5>1. Len(firstRun') - 1 = n
          BY <1>3, <3>3
        <5> QED BY <3>6, <5>1
      <4>3. twinSim' = k[twinSim'.t] /\ twinSample' = SampleOf(k[twinSim'.t - 1])
        <5>1. twinSim'.t = n + 1 /\ twinSim'.t - 1 = n
          BY <1>3, <2>3, <3>4
        <5> QED BY <3>7, <5>1
      <4> QED BY <4>1, <4>2, <4>3 DEF Replays
    <3>9. Len(firstRun') = twinSim'.t /\ twinSim'.t \in Nat
      BY <1>3, <2>3, <3>3, <3>4
    <3>10. resets' \in Nat /\ \E T : firstRun' \in Seq(T)
      BY <1>3, <2>1, <3>3
    <3>11. \E g : Replays(g)'
      BY <3>8
    <3> QED BY <3>9, <3>10, <3>11 DEF ReplayInv
  <2>5. CASE resets # 0
    <3>1. firstRun' = firstRun /\ Len(firstRun') = n
      BY <2>1, <2>5 DEF n
    <3>2. ASSUME t + 1 <= n
          PROVE  twinSim' = h[t + 1] /\ twinSample' = SampleOf(h[t])
      <4>1. t \in 0 .. n - 1 /\ t <= n
        BY <1>3, <3>2
      <4> QED BY <1>4, <2>1, <4>1
    <3>3. Replays(h)'
      <4>1. h[0] = Rewound(twinSim')
        BY <1>4, <2>3
      <4>2. \A i \in 0 .. Len(firstRun') - 1 :
               h[i + 1] = Advanced(h[i]) /\ firstRun'[i + 1] = SampleOf(h[i])
        BY <1>4, <3>1
      <4>3. twinSim'.t <= Len(firstRun') =>
              /\ twinSim' = h[twinSim'.t]
              /\ twinSample' = SampleOf(h[twinSim'.t - 1])
        <5>1. twinSim'.t = t + 1 /\ twinSim'.t - 1 = t /\ Len(firstRun') = n
          BY <1>3, <2>3, <3>1
        <5> QED BY <3>2, <5>1
      <4> QED BY <4>1, <4>2, <4>3 DEF Replays
    <3>4. resets' \in Nat /\ resets' # 0 /\ \E T : firstRun' \in Seq(T)
      BY <1>2, <1>3, <2>1, <2>5, <3>1
    <3>5. twinSim'.t \in Nat
      BY <1>3, <2>3
    <3>6. \E g : Replays(g)'
      BY <3>3
    <3> QED BY <3>4, <3>5, <3>6 DEF ReplayInv
  <2> QED BY <2>4, <2>5
<1>6. CASE ResetBoth
  <2>1. /\ twinSim' = Rewound(twinSim) /\ resets' = resets + 1 /\ firstRun' = firstRun
    BY <1>6 DEF ResetBoth
  <2>2. Rewound(twinSim).t = 0 /\ Rewound(Rewound(twinSim)) = Rewound(twinSim)
    BY RewoundOnce DEF Rewound
  <2>3. twinSim'.t = 0 /\ Rewound(twinSim') = Rewound(twinSim)
    BY <2>1, <2>2
  <2>4. Replays(h)'
    <3>1. \A i \in 0 .. Len(firstRun') - 1 :
             h[i + 1] = Advanced(h[i]) /\ firstRun'[i + 1] = SampleOf(h[i])
      BY <1>4, <2>1
    <3>2. twinSim' = h[twinSim'.t] /\ h[0] = Rewound(twinSim')
      BY <1>4, <2>1, <2>3
    <3> QED BY <2>3, <3>1, <3>2 DEF Replays
  <2>5. resets' \in Nat /\ resets' # 0 /\ \E T : firstRun' \in Seq(T)
    BY <1>2, <1>3, <2>1
  <2>6. \E g : Replays(g)'
    BY <2>4
  <2> QED BY <2>3, <2>5, <2>6 DEF ReplayInv
<1>7. CASE UNCHANGED twinVars
  BY <1>7 DEF twinVars, ReplayInv, Replays
<1> QED BY <1>5, <1>6, <1>7 DEF TwinsNext

LEMMA ReplayHolds == TwinsInv /\ ReplayInv => ResetReplays
<1> SUFFICES ASSUME TwinsInv, ReplayInv, twinSample.index \in 0 .. Len(firstRun) - 1
             PROVE  twinSample = firstRun[twinSample.index + 1]
  BY DEF ResetReplays
<1> DEFINE i == twinSample.index
<1>1. PICK h : Replays(h)
  BY DEF ReplayInv
<1>2. Len(firstRun) \in Nat
  BY DEF ReplayInv
<1>3. i = twinSim.t - 1 /\ twinSim.t \in Nat
  BY TwinsInvCounts DEF TwinsTypeOK, CountsOK, ReplayInv
<1>4. i \in 0 .. Len(firstRun) - 1 /\ twinSim.t > 0 /\ twinSim.t <= Len(firstRun)
  BY <1>2, <1>3
<1>5. twinSample = SampleOf(h[i])
  BY <1>1, <1>3, <1>4 DEF Replays
<1>6. firstRun[i + 1] = SampleOf(h[i])
  BY <1>1, <1>4 DEF Replays
<1> QED BY <1>5, <1>6

\* After any number of resets the machine runs as it did when it was built,
\* sample for sample (reset).
THEOREM ReplaysCorrect == TwinsSpec => []ResetReplays
<1>1. TwinsInit => ReplayInv
  BY ReplayInit
<1>2. TwinsInv /\ TwinsInv' /\ ReplayInv /\ [TwinsNext]_twinVars => ReplayInv'
  BY ReplayStep
<1>3. TwinsInv /\ ReplayInv => ResetReplays
  BY ReplayHolds
<1> QED BY <1>1, <1>2, <1>3, TwinsInvariance, PTL DEF TwinsSpec
=============================================================================
