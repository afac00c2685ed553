---------------------------- MODULE Capacity ----------------------------
(***************************************************************************)
(* What a device is worth to the swarm: the profile, status and effective  *)
(* capacity of src/src/compute.  CPU usage is counted in twentieths (5 %), *)
(* memory in units of 256 MB, latency in units of 100 ms; every margin and *)
(* penalty of the code is a whole number of these.  The composite score is *)
(* exact, as a number of 1 / Unit; all devices have the same total memory, *)
(* so that they share the unit.                                            *)
(***************************************************************************)
EXTENDS Integers

CONSTANT RamTotal       \* NodeProfile.ram_total_mb

ASSUME RamTotalAssumption == RamTotal \in Nat \ {0}

Full == 20              \* 1.0, of CPU usage and of a penalty factor

\* DeviceType::detect, by cores and memory.
DetectType(cores) ==
  CASE RamTotal < 8                    -> "Embedded"
    [] RamTotal < 16 /\ cores <= 4     -> "Mobile"
    [] RamTotal >= 128 /\ cores >= 16  -> "Server"
    [] OTHER                           -> "Desktop"

DeviceTypes == {"Server", "Desktop", "Laptop", "Mobile", "Embedded"}

\* ResourceReservation::for_device
CpuReserved == [Server |-> 1, Desktop |-> 4, Laptop |-> 6, Mobile |-> 8, Embedded |-> 2]
RamReserved == [Server |-> 2, Desktop |-> 8, Laptop |-> 8, Mobile |-> 4, Embedded |-> 1]

\* NodeStatus, of which ram_used_mb is what is not available.  A latency of 0
\* stands for None too: neither is a penalty.
StatusOf(cpu, ram, thermal, latency) ==
  [cpu |-> cpu, ram |-> ram, thermal |-> thermal, latency |-> latency]

\* NodeStatus::unknown
Unknown == StatusOf(0, 0, "Nominal", 0)

Statuses == [cpu : 0 .. Full, ram : 0 .. RamTotal,
             thermal : {"Nominal", "Warm", "Throttling", "Critical"}, latency : Nat]

AtLeastZero(x) == IF x < 0 THEN 0 ELSE x
AtMostOf(x, most) == IF x > most THEN most ELSE x
Distance(x, y) == IF x < y THEN y - x ELSE x - y

\* ThermalState::penalty_factor
ThermalFactor == [Nominal |-> 20, Warm |-> 17, Throttling |-> 8, Critical |-> 0]

\* One minus the latency penalty: 1000 ms and more cost a half.
LatencyFactor(latency) == Full - AtMostOf(latency, 10)

\* The score before the penalties, of RawUnit: 0.6 of the CPU and 0.4 of the
\* memory that are left of what is not reserved.
RawUnit == 100 * RamTotal
RawComposite(type, s) ==
  LET cpu == AtLeastZero(Full - CpuReserved[type] - s.cpu)
      ram == AtLeastZero(s.ram - RamReserved[type])
  IN  AtMostOf(3 * RamTotal * cpu + 40 * ram, RawUnit)

\* EffectiveCapacity::compute
Unit == RawUnit * Full * Full
CompositeOf(type, s) ==
  RawComposite(type, s) * ThermalFactor[s.thermal] * LatencyFactor(s.latency)

\* NodeStatus::delta, of 4 * RawUnit: 0.7 of the CPU's change and 0.3 of the
\* memory's.  Neither heat nor latency counts.
Delta(s, t) == 14 * RamTotal * Distance(s.cpu, t.cpu) + 120 * Distance(s.ram, t.ram)

\* change_threshold of the default MonitorConfig, 0.10.
Exceeds(s, t) == 10 * Delta(s, t) >= 4 * RawUnit
=========================================================================
