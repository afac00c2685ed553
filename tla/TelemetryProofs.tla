------------------------- MODULE TelemetryProofs -------------------------
(***************************************************************************)
(* For any samples, device types and amounts of memory: what the monitor   *)
(* does not report is not significant, the composite never leaves its      *)
(* range nor rises with the load, and the plan made from the composites    *)
(* follows the sums of the shares and keeps its rounding in bounds.        *)
(***************************************************************************)
EXTENDS MCLayerPlan, LayerPlanProofs

LEMMA TypeOfIsType == \A n \in Nodes : TypeOf(n) \in DeviceTypes
BY DevicesAssumption, RamTotalAssumption, SMT DEF TypeOf, DetectType, DeviceTypes

LEMMA FactorRanges ==
  /\ \A t \in {"Nominal", "Warm", "Throttling", "Critical"} : ThermalFactor[t] \in 0 .. Full
  /\ \A x \in Nat : LatencyFactor(x) \in 0 .. Full
BY SMT DEF ThermalFactor, LatencyFactor, AtMostOf, Full

\* What a device gives is linear in the products of RamTotal, so they are named.
LEMMA RawRange ==
  ASSUME NEW type \in DeviceTypes, NEW s \in Statuses
  PROVE  RawComposite(type, s) \in 0 .. RawUnit
<1> DEFINE cpu == AtLeastZero(Full - CpuReserved[type] - s.cpu)
<1> DEFINE ram == AtLeastZero(s.ram - RamReserved[type])
<1>1. CpuReserved[type] \in Int /\ RamReserved[type] \in Int
  BY SMT DEF DeviceTypes, CpuReserved, RamReserved
<1>2. s.cpu \in Int /\ s.ram \in Int
  BY RamTotalAssumption, SMT DEF Statuses, Full
<1>3. cpu \in Nat /\ ram \in Nat
  BY <1>1, <1>2, SMT DEF AtLeastZero, Full
<1>4. RawComposite(type, s) = AtMostOf(3 * RamTotal * cpu + 40 * ram, RawUnit)
  BY DEF RawComposite
<1> HIDE DEF cpu, ram
<1>5. 3 * RamTotal * cpu \in Nat
  BY <1>3, RamTotalAssumption, SMT
<1>6. RawUnit \in Nat
  BY RamTotalAssumption, SMT DEF RawUnit
<1> QED
  BY <1>3, <1>4, <1>5, <1>6, SMT DEF AtMostOf

LEMMA ProductRange ==
  ASSUME NEW a \in Nat, NEW b \in Nat, NEW x \in 0 .. a, NEW y \in 0 .. b
  PROVE  x * y \in 0 .. (a * b)
<1>1. x * y \in Nat /\ x * b \in Nat /\ a * b \in Nat
  BY SMT
<1>2. x * y <= x * b
  BY SMT
<1>3. x * b <= a * b
  BY SMT
<1> QED
  BY <1>1, <1>2, <1>3, SMT

\* The composite of any status of any device is between 0 and 1: no margin or
\* penalty makes it negative, no idle device is worth more than a whole one.
THEOREM CompositeInRange ==
  ASSUME NEW type \in DeviceTypes, NEW s \in Statuses
  PROVE  CompositeOf(type, s) \in 0 .. Unit
<1> DEFINE raw == RawComposite(type, s)
<1> DEFINE heat == ThermalFactor[s.thermal]
<1> DEFINE lat == LatencyFactor(s.latency)
<1>1. raw \in 0 .. RawUnit
  BY RawRange
<1>2. heat \in 0 .. Full /\ lat \in 0 .. Full
  BY FactorRanges DEF Statuses
<1>3. RawUnit \in Nat /\ Full \in Nat
  BY RamTotalAssumption, SMT DEF RawUnit, Full
<1> HIDE DEF raw, heat, lat
<1>4. raw * heat \in 0 .. (RawUnit * Full)
  BY <1>1, <1>2, <1>3, ProductRange
<1>5. RawUnit * Full \in Nat
  BY <1>3, SMT
<1>6. (raw * heat) * lat \in 0 .. (RawUnit * Full * Full)
  BY <1>2, <1>3, <1>4, <1>5, ProductRange
<1> QED
  BY <1>6 DEF CompositeOf, Unit, raw, heat, lat

\* A load, a heat or a latency that rises, or memory that is taken, never
\* makes a device worth more: reporting a harder life wins no layers.
THEOREM CompositeIsMonotonic ==
  ASSUME NEW type \in DeviceTypes, NEW s \in Statuses, NEW t \in Statuses,
         t.cpu <= s.cpu, s.ram <= t.ram, t.latency <= s.latency,
         ThermalFactor[s.thermal] <= ThermalFactor[t.thermal]
  PROVE  CompositeOf(type, s) <= CompositeOf(type, t)
<1> DEFINE room(u) == AtLeastZero(Full - CpuReserved[type] - u.cpu)
           left(u) == AtLeastZero(u.ram - RamReserved[type])
           raw(u)  == RawComposite(type, u)
           heat(u) == ThermalFactor[u.thermal]
           lat(u)  == LatencyFactor(u.latency)
<1>1. /\ CpuReserved[type] \in Int /\ RamReserved[type] \in Int
      /\ s.cpu \in Int /\ s.ram \in Int /\ t.cpu \in Int /\ t.ram \in Int
      /\ s.latency \in Nat /\ t.latency \in Nat
  BY RamTotalAssumption, SMT DEF DeviceTypes, CpuReserved, RamReserved, Statuses, Full
<1>2. /\ room(s) \in Nat /\ room(t) \in Nat /\ room(s) <= room(t)
      /\ left(s) \in Nat /\ left(t) \in Nat /\ left(s) <= left(t)
  BY <1>1, SMT DEF AtLeastZero, Full
<1>3. raw(s) <= raw(t)
  <2>1. /\ raw(s) = AtMostOf(3 * RamTotal * room(s) + 40 * left(s), RawUnit)
        /\ raw(t) = AtMostOf(3 * RamTotal * room(t) + 40 * left(t), RawUnit)
    BY DEF RawComposite
  <2> HIDE DEF room, left, raw
  <2>2. 3 * RamTotal * room(s) <= 3 * RamTotal * room(t)
    <3>1. RamTotal * room(s) <= RamTotal * room(t)
      BY <1>2, RamTotalAssumption, SMT
    <3>2. /\ 3 * RamTotal * room(s) = 3 * (RamTotal * room(s))
          /\ 3 * RamTotal * room(t) = 3 * (RamTotal * room(t))
          /\ RamTotal * room(s) \in Int /\ RamTotal * room(t) \in Int
      BY <1>2, RamTotalAssumption, SMT
    <3> QED BY <3>1, <3>2, SMT
  <2>3. /\ 3 * RamTotal * room(s) \in Int /\ 3 * RamTotal * room(t) \in Int
        /\ RawUnit \in Int
    BY <1>2, RamTotalAssumption, SMT DEF RawUnit
  <2> QED BY <1>2, <2>1, <2>2, <2>3, SMT DEF AtMostOf
<1>4. raw(s) \in Nat /\ raw(t) \in Nat
  <2>1. RawUnit \in Nat
    BY RamTotalAssumption, SMT DEF RawUnit
  <2>2. raw(s) \in 0 .. RawUnit /\ raw(t) \in 0 .. RawUnit
    BY RawRange
  <2> QED BY <2>1, <2>2
<1>5. heat(s) \in Nat /\ heat(t) \in Nat /\ heat(s) <= heat(t)
  <2>1. heat(s) \in 0 .. Full /\ heat(t) \in 0 .. Full
    BY FactorRanges DEF Statuses
  <2> QED BY <2>1, SMT DEF Full
<1>6. lat(s) \in Nat /\ lat(t) \in Nat /\ lat(s) <= lat(t)
  BY <1>1, SMT DEF LatencyFactor, AtMostOf, Full
<1>7. CompositeOf(type, s) = raw(s) * heat(s) * lat(s)
  BY DEF CompositeOf
<1>8. CompositeOf(type, t) = raw(t) * heat(t) * lat(t)
  BY DEF CompositeOf
<1> HIDE DEF room, left, raw, heat, lat
<1>9. raw(s) * heat(s) \in 0 .. (raw(t) * heat(t)) /\ raw(t) * heat(t) \in Nat
  <2>1. raw(s) \in 0 .. raw(t) /\ heat(s) \in 0 .. heat(t)
    BY <1>3, <1>4, <1>5
  <2> QED BY <2>1, <1>4, <1>5, ProductRange
<1>10. raw(s) * heat(s) * lat(s) \in 0 .. (raw(t) * heat(t) * lat(t))
  <2>1. lat(s) \in 0 .. lat(t)
    BY <1>6
  <2> QED BY <2>1, <1>6, <1>9, ProductRange
<1>11. raw(t) * heat(t) * lat(t) \in Nat
  BY <1>6, <1>9
<1> QED BY <1>7, <1>8, <1>10, <1>11

------------------------------------------------------------------------
(* The threshold of the monitor against the one of the registry.           *)

LEMMA SampleFields ==
  ASSUME NEW s \in Samples
  PROVE  /\ s \in Statuses
         /\ s.thermal = "Nominal" /\ s.latency = 0
<1>1. PICK cpu \in CpuLevels, ram \in RamLevels : s = StatusOf(cpu, ram, "Nominal", 0)
  BY DEF Samples
<1>2. cpu \in 0 .. Full /\ ram \in 0 .. RamTotal
  BY DevicesAssumption
<1> QED
  BY <1>1, <1>2, SMT DEF StatusOf, Statuses

\* Cutting off at zero or at a maximum brings two numbers no further apart.
LEMMA CutsAreNonexpansive ==
  ASSUME NEW x \in Int, NEW y \in Int
  PROVE  /\ Distance(AtLeastZero(x), AtLeastZero(y)) <= Distance(x, y)
         /\ \A m \in Int : Distance(AtMostOf(x, m), AtMostOf(y, m)) <= Distance(x, y)
BY SMT DEF Distance, AtLeastZero, AtMostOf

LEMMA ScaledDistance ==
  ASSUME NEW k \in Nat, NEW x \in Int, NEW y \in Int, NEW d \in Int,
         Distance(x, y) <= d
  PROVE  Distance(k * x, k * y) <= k * d
<1>1. CASE x < y
  <2>1. y - x <= d
    BY <1>1, SMT DEF Distance
  <2>2. k * (y - x) <= k * d
    BY <2>1, SMT
  <2>3. k * (y - x) = k * y - k * x /\ k * x \in Int /\ k * y \in Int
    BY SMT
  <2>4. k * x <= k * y
    BY <1>1, SMT
  <2> QED
    BY <2>2, <2>3, <2>4, SMT DEF Distance
<1>2. CASE ~ (x < y)
  <2>1. x - y <= d
    BY <1>2, SMT DEF Distance
  <2>2. k * (x - y) <= k * d
    BY <2>1, SMT
  <2>3. k * (x - y) = k * x - k * y /\ k * x \in Int /\ k * y \in Int
    BY SMT
  <2>4. k * y <= k * x
    BY <1>2, SMT
  <2> QED
    BY <2>2, <2>3, <2>4, SMT DEF Distance
<1> QED
  BY <1>1, <1>2

\* A change below the monitor's threshold of 0.10 moves the composite by less
\* than 2/15, which is below the 0.15 of update_status.
LEMMA QuietIsInsignificant ==
  ASSUME NEW type \in DeviceTypes,
         NEW s \in Samples, NEW t \in Samples, ~ Exceeds(s, t)
  PROVE  ~ SignificantChange(CompositeOf(type, t), CompositeOf(type, s))
<1> DEFINE room(u) == AtLeastZero(Full - CpuReserved[type] - u.cpu)
<1> DEFINE left(u) == AtLeastZero(u.ram - RamReserved[type])
<1> DEFINE dc == Distance(s.cpu, t.cpu)
<1> DEFINE dr == Distance(s.ram, t.ram)
<1> DEFINE worth(u) == 3 * (RamTotal * room(u)) + 40 * left(u)
<1>1. CpuReserved[type] \in Int /\ RamReserved[type] \in Int
  BY SMT DEF DeviceTypes, CpuReserved, RamReserved
<1>2. /\ s.cpu \in Int /\ s.ram \in Int /\ t.cpu \in Int /\ t.ram \in Int
      /\ dc \in Nat /\ dr \in Nat
  BY SampleFields, RamTotalAssumption, SMT DEF Statuses, Full, Distance
<1>3. /\ room(s) \in Nat /\ room(t) \in Nat
      /\ left(s) \in Nat /\ left(t) \in Nat
  BY <1>1, <1>2, SMT DEF AtLeastZero, Full
<1>4. Distance(room(t), room(s)) <= dc
  <2> DEFINE x == Full - CpuReserved[type] - t.cpu
  <2> DEFINE y == Full - CpuReserved[type] - s.cpu
  <2>1. x \in Int /\ y \in Int /\ Distance(x, y) = dc
    BY <1>1, <1>2, SMT DEF Full, Distance
  <2> HIDE DEF x, y, dc
  <2>2. Distance(AtLeastZero(x), AtLeastZero(y)) <= Distance(x, y)
    BY <2>1, CutsAreNonexpansive
  <2> QED
    BY <2>1, <2>2 DEF x, y
<1>5. Distance(left(t), left(s)) <= dr
  <2> DEFINE x == t.ram - RamReserved[type]
  <2> DEFINE y == s.ram - RamReserved[type]
  <2>1. x \in Int /\ y \in Int /\ Distance(x, y) = dr
    BY <1>1, <1>2, SMT DEF Distance
  <2> HIDE DEF x, y, dr
  <2>2. Distance(AtLeastZero(x), AtLeastZero(y)) <= Distance(x, y)
    BY <2>1, CutsAreNonexpansive
  <2> QED
    BY <2>1, <2>2 DEF x, y
<1>6. 140 * (RamTotal * dc) + 1200 * dr < 400 * RamTotal
  <2>1. RamTotal * dc \in Nat
    BY <1>2, RamTotalAssumption, SMT
  <2>2. Delta(s, t) = 14 * (RamTotal * dc) + 120 * dr
    <3>1. Delta(s, t) = 14 * RamTotal * dc + 120 * dr
      BY DEF Delta
    <3> HIDE DEF dc, dr
    <3> QED
      BY <1>2, <3>1, RamTotalAssumption, SMT
  <2>3. ~ (10 * Delta(s, t) >= 4 * (100 * RamTotal))
    BY DEF Exceeds, RawUnit
  <2> HIDE DEF dc, dr
  <2> QED
    BY <1>2, <2>1, <2>2, <2>3, RamTotalAssumption, SMT
<1> HIDE DEF room, left, dc, dr
<1>7. Distance(RamTotal * room(t), RamTotal * room(s)) <= RamTotal * dc
  <2>1. /\ RamTotal \in Nat /\ dc \in Int
        /\ room(s) \in Int /\ room(t) \in Int
    BY <1>2, <1>3, RamTotalAssumption, SMT
  <2> QED
    BY <1>4, <2>1, ScaledDistance, Zenon
<1>8. /\ RamTotal * room(s) \in Nat /\ RamTotal * room(t) \in Nat
      /\ RamTotal * dc \in Nat
  BY <1>2, <1>3, RamTotalAssumption, SMT
<1>9. worth(s) \in Int /\ worth(t) \in Int
      /\ Distance(worth(t), worth(s)) <= 3 * (RamTotal * dc) + 40 * dr
  BY <1>2, <1>3, <1>5, <1>7, <1>8, SMT DEF Distance
<1>10. \A u \in {s, t} : RawComposite(type, u) = AtMostOf(worth(u), RawUnit)
  <2> SUFFICES ASSUME NEW u \in {s, t}
               PROVE  RawComposite(type, u) = AtMostOf(worth(u), RawUnit)
    OBVIOUS
  <2>1. RawComposite(type, u) = AtMostOf(3 * RamTotal * room(u) + 40 * left(u), RawUnit)
    BY DEF RawComposite, room, left
  <2>2. 3 * RamTotal * room(u) = 3 * (RamTotal * room(u))
    BY <1>3, RamTotalAssumption, SMT
  <2> QED
    BY <2>1, <2>2
<1>11. RawUnit \in Int
  BY RamTotalAssumption, SMT DEF RawUnit
<1> HIDE DEF worth
<1>12. Distance(AtMostOf(worth(t), RawUnit), AtMostOf(worth(s), RawUnit))
         <= Distance(worth(t), worth(s))
  BY <1>9, <1>11, CutsAreNonexpansive
<1>13. RawComposite(type, s) \in Int /\ RawComposite(type, t) \in Int
  BY RawRange, SampleFields, <1>11, SMT
<1>14. \A u \in {s, t} : CompositeOf(type, u) = RawComposite(type, u) * 20 * 20
  <2> SUFFICES ASSUME NEW u \in {s, t}
               PROVE  CompositeOf(type, u) = RawComposite(type, u) * 20 * 20
    OBVIOUS
  <2>1. u.thermal = "Nominal" /\ u.latency = 0
    BY SampleFields
  <2>2. LatencyFactor(0) = 20 /\ ThermalFactor["Nominal"] = 20
    BY SMT DEF LatencyFactor, ThermalFactor, AtMostOf, Full
  <2> QED
    BY <2>1, <2>2 DEF CompositeOf
<1>15. Distance(RawComposite(type, t), RawComposite(type, s))
         <= 3 * (RamTotal * dc) + 40 * dr
  BY <1>2, <1>8, <1>9, <1>10, <1>11, <1>12, SMT DEF Distance, AtMostOf
<1>16. 20 * Distance(RawComposite(type, t), RawComposite(type, s)) <= 3 * (100 * RamTotal)
  BY <1>2, <1>6, <1>8, <1>13, <1>15, RamTotalAssumption, SMT DEF Distance
<1>17. Unit = 40000 * RamTotal
  BY RamTotalAssumption, SMT DEF Unit, RawUnit, Full
<1> QED
  BY <1>13, <1>14, <1>16, <1>17, RamTotalAssumption, SMT
     DEF SignificantChange, Distance

------------------------------------------------------------------------
(* The invariant behind it: a device that has reported is known to the     *)
(* master by that report, and its samples since are quiet.                 *)

TelemetryInv ==
  /\ entry \in [Nodes -> FirstStatuses \cup Samples]
  /\ sampled \in [Nodes -> Samples]
  /\ reported \in [Nodes -> Samples \cup {Unknown}]
  /\ \A n \in Nodes : reported[n] # Unknown =>
       /\ entry[n] = reported[n]
       /\ ~ Exceeds(sampled[n], reported[n])

LEMMA SampleOfFirst ==
  ASSUME NEW s \in FirstStatuses
  PROVE  SampleIn(s) \in Samples
<1>1. PICK cpu \in CpuLevels, ram \in RamLevels, latency \in Latencies :
        s = StatusOf(cpu, ram, "Nominal", latency)
  BY DEF FirstStatuses
<1>2. SampleIn(s) = StatusOf(cpu, ram, "Nominal", 0)
  BY <1>1 DEF StatusOf, SampleIn
<1> QED
  BY <1>2 DEF Samples

LEMMA NoChangeIsQuiet ==
  ASSUME NEW s \in Samples
  PROVE  ~ Exceeds(s, s)
<1>1. s.cpu \in Int /\ s.ram \in Int
  BY SampleFields, RamTotalAssumption, SMT DEF Statuses, Full
<1>2. Distance(s.cpu, s.cpu) = 0 /\ Distance(s.ram, s.ram) = 0
  BY <1>1, SMT DEF Distance
<1> QED
  BY <1>2, RamTotalAssumption, SMT DEF Exceeds, Delta, RawUnit

LEMMA TelemetryInvInit == TelemetryInit => TelemetryInv
<1> SUFFICES ASSUME TelemetryInit PROVE TelemetryInv
  OBVIOUS
<1>1. \A n \in Nodes : sampled[n] \in Samples
  BY SampleOfFirst DEF TelemetryInit
<1> QED
  BY <1>1 DEF TelemetryInit, TelemetryInv

LEMMA TelemetryInvNext ==
  TelemetryInv /\ [TelemetryNext]_telemetryVars => TelemetryInv'
<1> SUFFICES ASSUME TelemetryInv, [TelemetryNext]_telemetryVars
             PROVE  TelemetryInv'
  OBVIOUS
<1> USE DEF TelemetryInv
<1>1. ASSUME NEW n \in Nodes, NEW s \in FirstStatuses, Reannounce(n, s)
      PROVE  TelemetryInv'
  <2>1. SampleIn(s) \in Samples
    BY SampleOfFirst
  <2> QED
    BY <1>1, <2>1 DEF Reannounce
<1>2. ASSUME NEW n \in Nodes, NEW s \in Samples, Monitor(n, s)
      PROVE  TelemetryInv'
  <2>1. CASE Exceeds(s, reported[n])
    BY <1>2, <2>1, NoChangeIsQuiet DEF Monitor
  <2>2. CASE ~ Exceeds(s, reported[n])
    BY <1>2, <2>2 DEF Monitor
  <2> QED
    BY <2>1, <2>2
<1>3. CASE UNCHANGED telemetryVars
  BY <1>3 DEF telemetryVars
<1> QED
  BY <1>1, <1>2, <1>3 DEF TelemetryNext

\* For any devices, levels and memory: what a device that has reported once does
\* not report is not a significant change of its composite.
THEOREM TelemetryReports == TelemetrySpec => []UnreportedIsInsignificant
<1>1. TelemetryInv => UnreportedIsInsignificant
  <2> SUFFICES ASSUME TelemetryInv, NEW n \in Nodes, reported[n] # Unknown
               PROVE  ~ SignificantChange(composite[n], CompositeOf(TypeOf(n), sampled[n]))
    BY DEF UnreportedIsInsignificant
  <2>1. /\ sampled[n] \in Samples /\ reported[n] \in Samples
        /\ ~ Exceeds(sampled[n], reported[n])
        /\ composite[n] = CompositeOf(TypeOf(n), reported[n])
    BY DEF TelemetryInv, composite
  <2>2. TypeOf(n) \in DeviceTypes
    BY TypeOfIsType
  <2> QED
    BY <2>1, <2>2, QuietIsInsignificant
<1> QED
  BY <1>1, TelemetryInvInit, TelemetryInvNext, PTL DEF TelemetrySpec

------------------------------------------------------------------------
(* The plan for the composites that the telemetry produces.                *)

LEMMA FirstStatusFields == FirstStatuses \subseteq Statuses
<1> SUFFICES ASSUME NEW s \in FirstStatuses PROVE s \in Statuses
  OBVIOUS
<1>1. PICK cpu \in CpuLevels, ram \in RamLevels, latency \in Latencies :
        s = StatusOf(cpu, ram, "Nominal", latency)
  BY DEF FirstStatuses
<1>2. cpu \in 0 .. Full /\ ram \in 0 .. RamTotal /\ latency \in Nat
  BY DevicesAssumption
<1> QED
  BY <1>1, <1>2, SMT DEF StatusOf, Statuses

\* Every score the master plans with is a natural number.
LEMMA CompositesAreNat == TelemetryInv => \A n \in Nodes : composite[n] \in Nat
<1> SUFFICES ASSUME TelemetryInv, NEW n \in Nodes PROVE composite[n] \in Nat
  OBVIOUS
<1>1. entry[n] \in Statuses
  BY FirstStatusFields, SampleFields DEF TelemetryInv
<1>2. CompositeOf(TypeOf(n), entry[n]) \in 0 .. Unit
  BY <1>1, TypeOfIsType, CompositeInRange
<1>3. Unit \in Nat
  BY RamTotalAssumption, SMT DEF Unit, RawUnit, Full
<1> QED
  BY <1>2, <1>3, SMT DEF composite

\* For any devices, whatever they report and in whatever order: the loop of
\* rebalance_layers hands out the slices that the sums of the shares define.
THEOREM TelemetryPlanIsBySums == TelemetrySpec => []PlanIsBySums
<1>1. TelemetryInv => PlanIsBySums
  <2> SUFFICES ASSUME TelemetryInv PROVE IsBySums(Nodes, composite, Plan(Nodes, composite))
    BY DEF PlanIsBySums
  <2>1. \A n \in Nodes : composite[n] \in Nat
    BY CompositesAreNat
  <2>2. Nodes \in SUBSET Nat /\ IsFiniteSet(Nodes)
    BY DevicesAssumption, FiniteNodesAssumption
  <2> QED
    BY <2>1, <2>2, PlanFollowsSums
<1> QED
  BY <1>1, TelemetryInvInit, TelemetryInvNext, PTL DEF TelemetrySpec

\* For any devices, whatever they report: where a slice begins is within k / 2
\* layers of its exact proportional place, k being the nodes ahead.
THEOREM TelemetryRoundingIsBounded == TelemetrySpec => []RoundingIsBounded
<1>1. TelemetryInv => RoundingIsBounded
  <2> SUFFICES ASSUME TelemetryInv
               PROVE  IsProportional(Nodes, composite, Plan(Nodes, composite))
    BY DEF RoundingIsBounded
  <2>1. \A n \in Nodes : composite[n] \in Nat
    BY CompositesAreNat
  <2>2. Nodes \in SUBSET Nat /\ IsFiniteSet(Nodes)
    BY DevicesAssumption, FiniteNodesAssumption
  <2> QED
    BY <2>1, <2>2, PlanIsProportional
<1> QED
  BY <1>1, TelemetryInvInit, TelemetryInvNext, PTL DEF TelemetrySpec

========================================================================
