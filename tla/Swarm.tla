----------------------------- MODULE Swarm -----------------------------
(***************************************************************************)
(* The control plane of the master: the node registry of                   *)
(* src/src/node/registry.rs under the handlers of src/src/orchestrator.rs, *)
(* with the stage list of the inference pipeline that every rebalance      *)
(* rewrites.                                                               *)
(*                                                                         *)
(* Every handler holds the registry's write lock from its first line to    *)
(* its last and takes the pipeline's lock inside it, so a handler is one   *)
(* action: what it reads, changes and rebalances happens at once.          *)
(***************************************************************************)
EXTENDS FairShares, NodeLifecycle

CONSTANTS
  Nodes,          \* the node identifiers that may connect
  PeerNodes,      \* those that parse as a libp2p PeerId
  Composites,     \* the composite scores a status may yield, in twentieths
  PruneAfter      \* timeout_secs of prune_dead_nodes, in ticks

ASSUME NodesAssumption ==
  /\ Nodes \subseteq Nat /\ IsFiniteSet(Nodes)
  /\ PeerNodes \subseteq Nodes
ASSUME CompositesAssumption == Composites \subseteq Nat
ASSUME PruneAfterAssumption == PruneAfter \in Nat

VARIABLES
  state,          \* NodeEntry.state, or Unregistered when there is no entry
  composite,      \* NodeEntry.capacity.composite
  assigned,       \* NodeEntry.assigned_layers
  age,            \* ticks since NodeEntry.last_heartbeat
  stages          \* InferencePipeline.pipeline_stages

swarmVars == <<state, composite, assigned, age, stages>>

Unregistered == "Unregistered"
Registered   == {n \in Nodes : state[n] # Unregistered}

\* The thresholds of update_status, in twentieths: < 0.1, >= 0.15, > 0.15.
DegradeBelow     == 2
RecoverAt        == 3
SignificantDelta == 3

\* A node's age is not counted past the point where it is dead.
AgeBound == PruneAfter + 1

------------------------------------------------------------------------
(* NodeRegistry::new and InferencePipeline::new.                           *)
Init ==
  /\ state     = [n \in Nodes |-> Unregistered]
  /\ composite = [n \in Nodes |-> 0]
  /\ assigned  = [n \in Nodes |-> {}]
  /\ age       = [n \in Nodes |-> 0]
  /\ stages    = <<>>

\* Mutant: a Degraded node still accepts tasks.
AcceptingOrDegraded(st) ==
  {n \in Nodes : CanAcceptTasks(st[n]) \/ st[n] = "Degraded"}

\* active_nodes over the entries whose states are st.
AcceptingTasks(st) == {n \in Nodes : CanAcceptTasks(st[n])}

\* Mutant: a rebalance clears the layers of the nodes it leaves out.
LayersAfterClearing(active, comp, lay) ==
  LET plan == Plan(active, comp)
  IN  [n \in Nodes |-> IF n \in active THEN plan[n] ELSE {}]

\* The layers after a rebalance over the nodes of active.
LayersAfter(active, comp, lay) ==
  LET plan == Plan(active, comp)
  IN  [n \in Nodes |-> IF n \in active THEN plan[n] ELSE lay[n]]

\* A rebalance with the stage list newStages, and as much of it as activates
\* the nodes of activated.
RebalanceTo(st, comp, lay, activated, newStages) ==
  /\ state'    = [n \in Nodes |-> IF n \in activated /\ st[n] = "Ready"
                                    THEN "Active" ELSE st[n]]
  /\ assigned' = LayersAfter(AcceptingTasks(st), comp, lay)
  /\ stages'   = newStages

\* Mutant: a node that gets no layers is not moved to Active.
RebalanceSkippingEmpty(st, comp, lay) ==
  LET active == AcceptingTasks(st)
      given  == {n \in active : LayersAfter(active, comp, lay)[n] # {}}
  IN  RebalanceTo(st, comp, lay, given, SortedByCapacity(active \cap PeerNodes, comp))

\* Mutant: update_stages is called only by the first rebalance.
RebalanceKeepingStages(st, comp, lay) ==
  LET active == AcceptingTasks(st)
  IN  RebalanceTo(st, comp, lay, active,
        IF stages = <<>> THEN SortedByCapacity(active \cap PeerNodes, comp) ELSE stages)

\* Mutant: the stage list keeps identifiers that are not PeerIds.
RebalanceUnfiltered(st, comp, lay) ==
  LET active == AcceptingTasks(st)
  IN  RebalanceTo(st, comp, lay, active, SortedByCapacity(active, comp))

\* Mutant: the stage list is in the order of the identifiers.
RebalanceUnsorted(st, comp, lay) ==
  LET active == AcceptingTasks(st)
  IN  RebalanceTo(st, comp, lay, active,
        SortedByCapacity(active \cap PeerNodes, [n \in Nodes |-> 0]))

\* rebalance_layers on a registry with states st, composites comp and layers
\* lay.  Only active nodes are sorted and given layers; the others keep what
\* they have.  assign_layers moves a Ready node to Active.  The stage list
\* keeps the order and drops the identifiers that are not PeerIds; an empty
\* swarm of active nodes leaves an empty one.
Rebalance(st, comp, lay) ==
  LET active == AcceptingTasks(st)
  IN  /\ state'    = [n \in Nodes |->
                        IF n \in active /\ st[n] = "Ready"
                          THEN TransitionOrStay("Ready", "Active") ELSE st[n]]
      /\ assigned' = LayersAfter(active, comp, lay)
      /\ stages'   = SortedByCapacity(active \cap PeerNodes, comp)

\* Mutant: the entry is replaced and activated, and nobody rebalances.
AnnounceAlone(n, c) ==
  /\ composite' = [composite EXCEPT ![n] = c]
  /\ age'       = [age EXCEPT ![n] = 0]
  /\ state'     = [state EXCEPT ![n] = "Active"]
  /\ assigned'  = [assigned EXCEPT ![n] = {}]
  /\ UNCHANGED stages

------------------------------------------------------------------------
(* handle_announce: register replaces whatever entry the identifier had,   *)
(* mark_ready computes the capacity, and the layers are rebalanced.        *)
Announce(n, c) ==
  LET joining == [state EXCEPT ![n] = "Joining"]
      ready   == [joining EXCEPT ![n] = TransitionOrStay(@, "Ready")]
  IN  /\ composite' = [composite EXCEPT ![n] = c]
      /\ age'       = [age EXCEPT ![n] = 0]
      /\ Rebalance(ready, composite', [assigned EXCEPT ![n] = {}])

\* update_status: the state an entry takes when its composite becomes c.
StateAfterStatus(s, c) ==
  CASE s = "Active"   /\ c < DegradeBelow -> TransitionOrStay(s, "Degraded")
    [] s = "Degraded" /\ c >= RecoverAt   -> TransitionOrStay(s, "Active")
    [] OTHER -> s

\* update_status's answer: the composite moved by more than the threshold
\* since the previous status.
Significant(old, new) ==
  new - old > SignificantDelta \/ old - new > SignificantDelta

\* Mutant: a node that degrades gives its layers back at once.
StatusUpdateReleasing(n, c) ==
  LET updated == [state EXCEPT ![n] = StateAfterStatus(@, c)]
  IN  /\ n \in Registered
      /\ composite' = [composite EXCEPT ![n] = c]
      /\ age'       = [age EXCEPT ![n] = 0]
      /\ state'     = updated
      /\ assigned'  = [assigned EXCEPT ![n] = IF updated[n] = "Degraded" THEN {} ELSE @]
      /\ UNCHANGED stages

\* Mutant: the rebalance plans with the scores of before the update.
StatusUpdateStale(n, c) ==
  LET updated == [state EXCEPT ![n] = StateAfterStatus(@, c)]
  IN  /\ n \in Registered
      /\ composite' = [composite EXCEPT ![n] = c]
      /\ age'       = [age EXCEPT ![n] = 0]
      /\ IF Significant(composite[n], c)
           THEN Rebalance(updated, composite, assigned)
           ELSE state' = updated /\ UNCHANGED <<assigned, stages>>

\* handle_status_update of a registered node; it fails on an unknown one.
StatusUpdate(n, c) ==
  LET updated == [state EXCEPT ![n] = StateAfterStatus(@, c)]
  IN  /\ n \in Registered
      /\ composite' = [composite EXCEPT ![n] = c]
      /\ age'       = [age EXCEPT ![n] = 0]
      /\ IF Significant(composite[n], c)
           THEN Rebalance(updated, composite', assigned)
           ELSE state' = updated /\ UNCHANGED <<assigned, stages>>

\* Mutant: the nodes are removed and nobody rebalances.
RemoveOnly(gone) ==
  /\ state'     = [n \in Nodes |-> IF n \in gone THEN Unregistered ELSE state[n]]
  /\ assigned'  = [n \in Nodes |-> IF n \in gone THEN {} ELSE assigned[n]]
  /\ composite' = [n \in Nodes |-> IF n \in gone THEN 0 ELSE composite[n]]
  /\ age'       = [n \in Nodes |-> IF n \in gone THEN 0 ELSE age[n]]
  /\ UNCHANGED stages

\* NodeRegistry::remove of every node of gone, and the rebalance that follows
\* unless the registry is then empty; in that case the stage list stays.
RemoveAndRebalance(gone) ==
  LET left == [n \in Nodes |-> IF n \in gone THEN Unregistered ELSE state[n]]
      kept == [n \in Nodes |-> IF n \in gone THEN {} ELSE assigned[n]]
  IN  /\ composite' = [n \in Nodes |-> IF n \in gone THEN 0 ELSE composite[n]]
      /\ age'       = [n \in Nodes |-> IF n \in gone THEN 0 ELSE age[n]]
      /\ IF \E n \in Nodes : left[n] # Unregistered
           THEN Rebalance(left, composite', kept)
           ELSE state' = left /\ assigned' = kept /\ UNCHANGED stages

\* Mutant: the node is marked, and stays in the registry.
DrainMarksOnly(n) ==
  /\ state' = [state EXCEPT ![n] = TransitionOrStay(@, "Draining")]
  /\ UNCHANGED <<composite, assigned, age, stages>>

\* handle_drain: the move to Draining and the removal are one step, so nobody
\* sees the node Draining.  Draining an unknown node still rebalances.
Drain(n) == RemoveAndRebalance({n})

\* handle_heartbeat; an unknown identifier is ignored.
Heartbeat(n) ==
  /\ n \in Registered
  /\ age' = [age EXCEPT ![n] = 0]
  /\ UNCHANGED <<state, composite, assigned, stages>>

\* Mutant: the dead are removed and nobody rebalances.
PruneOnly ==
  LET dead == {n \in Registered : age[n] > PruneAfter}
  IN  dead # {} /\ RemoveOnly(dead)

\* prune_dead_nodes: every entry older than the timeout goes at once.
PruneDeadNodes ==
  LET dead == {n \in Registered : age[n] > PruneAfter}
  IN  dead # {} /\ RemoveAndRebalance(dead)

\* The clock: every entry grows older together.
Tick ==
  /\ \E n \in Registered : age[n] < AgeBound
  /\ age' = [n \in Nodes |->
               IF n \in Registered /\ age[n] < AgeBound THEN age[n] + 1 ELSE age[n]]
  /\ UNCHANGED <<state, composite, assigned, stages>>

Next ==
  \/ \E n \in Nodes, c \in Composites : Announce(n, c)
  \/ \E n \in Nodes, c \in Composites : StatusUpdate(n, c)
  \/ \E n \in Nodes : Drain(n)
  \/ \E n \in Nodes : Heartbeat(n)
  \/ PruneDeadNodes
  \/ Tick

Spec == Init /\ [][Next]_swarmVars

------------------------------------------------------------------------
(* Properties.                                                             *)

\* Every variable holds a value of its kind; a stage is an identifier that
\* parses as a PeerId.
TypeOK ==
  /\ state \in [Nodes -> NodeStates \cup {Unregistered}]
  /\ composite \in [Nodes -> Nat]
  /\ assigned \in [Nodes -> SUBSET Layers]
  /\ age \in [Nodes -> 0 .. AgeBound]
  /\ stages \in Seq(PeerNodes)

\* Between two handlers every registered node is Active or Degraded: no
\* announce leaves a node Joining or Ready without layers, whatever the state
\* and capacity of the others, and no drain leaves one Draining.
SettledStates ==
  \A n \in Nodes : state[n] \in {Unregistered, "Active", "Degraded"}

\* While anybody is registered, every pipeline stage is a registered node: no
\* drain or prune leaves a departed peer on the list that start_sequence and
\* handle_task_result route by.
StagesRegistered ==
  Registered # {} => \A i \in DOMAIN stages : stages[i] \in Registered

\* Along the stage list the assigned layers never overlap and never run
\* backwards, although status changes, recoveries and departures touch the
\* registry without rewriting the list, and whether or not some active nodes
\* are missing from it because their identifiers are not PeerIds.
RouteInOrder == InOrder(stages, assigned)

\* When every identifier is a PeerId, a stage list that is not empty covers
\* the whole model: its nodes' layers are 0 .. TotalLayers - 1 in order.
RouteTiles ==
  PeerNodes = Nodes /\ Registered # {} /\ stages # <<>>
    => Tiles(stages, assigned)

\* A registered node's layers change only together with everybody's: in the
\* same step the stage list becomes the sorted list of the nodes that are
\* active after it.  No handler moves the layers of one node alone.
LayersMoveTogether ==
  [][ (\E n \in Registered : n \in Registered' /\ assigned'[n] # assigned[n])
        => stages' = SortedByCapacity(AcceptingTasks(state') \cap PeerNodes,
                                      composite') ]_swarmVars

\* No handler plans with scores or members of before: whenever the stage list or
\* a registered node's layers change, the layers of the nodes that are active
\* after the step are those that their composites after the step earn them, by
\* the sums of FairShares and up to half a layer of rounding per node.
LayersFollowCapacity ==
  [][ (stages' # stages \/ \E n \in Registered' : assigned'[n] # assigned[n])
        => LET active == AcceptingTasks(state')
           IN  /\ IsBySums(active, composite', assigned')
               /\ IsProportional(active, composite', assigned') ]_swarmVars

\* "Keeps current tasks" (src/src/node/state.rs:52): while a node stays
\* Degraded no rebalance, whoever caused it, takes its layers away.
DegradedKeepsLayers ==
  [][ \A n \in Nodes :
        state[n] = "Degraded" /\ state'[n] = "Degraded"
          => assigned'[n] = assigned[n] ]_swarmVars

------------------------------------------------------------------------
(* Refinement: the registry and the stage list implement LayerRoute when   *)
(* every identifier is a PeerId.  With nobody registered the stale stage   *)
(* list that the code keeps counts as no route.                            *)

RouteOfStages ==
  IF Registered = {} THEN <<>>
  ELSE [i \in DOMAIN stages |->
          [node |-> stages[i], layers |-> assigned[stages[i]]]]

Abstract == INSTANCE LayerRoute WITH members <- Registered, route <- RouteOfStages

\* Every handler implements a join, a departure, a new plan or nothing.
ImplementsLayerRoute == Abstract!Spec

========================================================================
