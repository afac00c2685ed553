---------------------------- MODULE Telemetry ----------------------------
(***************************************************************************)
(* How the master learns what a device is worth: the first status comes    *)
(* with the announce, later ones when the ComputeMonitor of the device     *)
(* (src/src/compute/monitor.rs) finds that its sample moved far enough     *)
(* from the one it reported last.  The monitor publishes through a watch   *)
(* channel, which keeps the newest status; an application that forwards it *)
(* is not part of the crate and is taken to do so at once.                 *)
(***************************************************************************)
EXTENDS Capacity

CONSTANTS
  Nodes,          \* the devices
  Forwarding,     \* those whose application forwards the monitor's statuses
  CpuLevels,      \* the CPU usages sampled, in twentieths
  RamLevels,      \* the available memory sampled, in units of 256 MB
  Latencies       \* the latencies measured by connect_to_cluster

ASSUME DevicesAssumption ==
  /\ Nodes \subseteq Nat /\ Forwarding \subseteq Nodes
  /\ CpuLevels \subseteq 0 .. Full /\ RamLevels \subseteq 0 .. RamTotal
  /\ Latencies \subseteq Nat

VARIABLES
  sampled,        \* the newest sample
  reported,       \* the monitor's last_reported
  entry           \* NodeEntry.status at the master

telemetryVars == <<sampled, reported, entry>>

\* sample: the platform's thermal state is not read.
Samples == {StatusOf(cpu, ram, "Nominal", 0) : cpu \in CpuLevels, ram \in RamLevels}

\* The statuses of an announce: a sample, with the latency of the connection.
FirstStatuses ==
  {StatusOf(cpu, ram, "Nominal", latency) :
     cpu \in CpuLevels, ram \in RamLevels, latency \in Latencies}

SampleIn(s) == StatusOf(s.cpu, s.ram, s.thermal, 0)

\* The profiles: six cores more from device to device.
TypeOf(n) == DetectType(6 * n)

\* NodeEntry.capacity.composite.
composite == [n \in Nodes |-> CompositeOf(TypeOf(n), entry[n])]

\* Every device has announced itself; its monitor is new.
TelemetryInit ==
  /\ entry \in [Nodes -> FirstStatuses]
  /\ sampled  = [n \in Nodes |-> SampleIn(entry[n])]
  /\ reported = [n \in Nodes |-> Unknown]

\* A device starts again and announces itself with the status s.
Reannounce(n, s) ==
  /\ entry'    = [entry EXCEPT ![n] = s]
  /\ sampled'  = [sampled EXCEPT ![n] = SampleIn(s)]
  /\ reported' = [reported EXCEPT ![n] = Unknown]

\* Mutant: the change is taken to the previous sample.
MonitorStepwise(n, s) ==
  /\ n \in Forwarding
  /\ sampled'  = [sampled EXCEPT ![n] = s]
  /\ reported' = [reported EXCEPT ![n] = s]
  /\ entry'    = IF Exceeds(s, reported[n]) THEN [entry EXCEPT ![n] = s] ELSE entry

\* One round of run: the sample s, and the report if it is due, which becomes a
\* StatusUpdate.
Monitor(n, s) ==
  /\ n \in Forwarding
  /\ sampled' = [sampled EXCEPT ![n] = s]
  /\ IF Exceeds(s, reported[n])
       THEN /\ reported' = [reported EXCEPT ![n] = s]
            /\ entry'    = [entry EXCEPT ![n] = s]
       ELSE UNCHANGED <<reported, entry>>

TelemetryNext ==
  \E n \in Nodes :
    \/ \E s \in FirstStatuses : Reannounce(n, s)
    \/ \E s \in Samples : Monitor(n, s)

TelemetrySpec == TelemetryInit /\ [][TelemetryNext]_telemetryVars

------------------------------------------------------------------------
(* Properties.                                                             *)

\* The significance of update_status: more than 0.15.
SignificantChange(old, new) == 20 * Distance(old, new) > 3 * Unit

\* What the monitor keeps to itself would not have caused a rebalance: once it
\* has reported at all, the device's composite is never significantly away from
\* the one the master plans with, however many small changes came in between.
\* The weights of delta are not those of the composite, and 0.10 of the one is
\* up to 0.133 of the other.
UnreportedIsInsignificant ==
  \A n \in Nodes : reported[n] # Unknown =>
    ~ SignificantChange(composite[n], CompositeOf(TypeOf(n), sampled[n]))
========================================================================
