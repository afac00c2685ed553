-------------------------- MODULE SwarmProofs --------------------------
(***************************************************************************)
(* The safety of the control plane for every finite set of nodes, every    *)
(* number of layers, every set of composites and every timeout.            *)
(*                                                                         *)
(* The inductive invariant IInv is the conjunction of the invariants: the  *)
(* handlers that rebalance establish the route's part anew from the plan   *)
(* (LayerPlanProofs!PlanTiles), the others leave stages and layers alone;  *)
(* what the route's part needs of the state before the step is that nodes  *)
(* have natural composites and that nobody is Joining or Ready.            *)
(***************************************************************************)
EXTENDS Swarm, LayerPlanProofs

IInv ==
  /\ TypeOK
  /\ SettledStates
  /\ StagesRegistered
  /\ RouteInOrder
  /\ RouteTiles

------------------------------------------------------------------------
(* What one rebalance leaves behind.                                       *)

\* A function from 1 .. c is a sequence of c elements.
LEMMA ListIsSequence ==
  ASSUME NEW c \in Nat, NEW X, NEW f \in [1 .. c -> X]
  PROVE  f \in Seq(X)
OBVIOUS

\* The layers and the stage list of a rebalance over the active nodes A are
\* well-typed; the list holds only nodes of A; along it the layers are in
\* order; and it covers the model when no active node is missing from it.
LEMMA PlanOverNodes ==
  ASSUME NEW A \in SUBSET Nodes, NEW comp \in [Nodes -> Nat],
         NEW lay \in [Nodes -> SUBSET Layers]
  PROVE  LET asg == LayersAfter(A, comp, lay)
             stg == SortedByCapacity(A \cap PeerNodes, comp)
         IN
         /\ asg \in [Nodes -> SUBSET Layers]
         /\ stg \in Seq(PeerNodes)
         /\ \A i \in DOMAIN stg : stg[i] \in A
         /\ InOrder(stg, asg)
         /\ PeerNodes = Nodes /\ stg # <<>> => Tiles(stg, asg)
<1> DEFINE P   == A \cap PeerNodes
           asg == LayersAfter(A, comp, lay)
           stg == SortedByCapacity(P, comp)
<1>1. /\ A \in SUBSET Nat /\ P \in SUBSET Nat
      /\ \A n \in A : comp[n] \in Nat
      /\ \A n \in P : comp[n] \in Nat /\ n \in A
      /\ IsFiniteSet(A) /\ IsFiniteSet(P)
  BY NodesAssumption, FS_Subset
<1>2. stg \in [1 .. Cardinality(P) -> P] /\ IsSorted(P, comp, stg)
  BY <1>1, SortedByCapacityIsSorted
<1>3. Cardinality(P) \in Nat
  BY <1>1, FS_CardinalityType
<1>4. /\ Plan(A, comp) \in [A -> SUBSET Layers]
      /\ \A a, b \in A : Before(comp, a, b) =>
           \A k \in Plan(A, comp)[a], l \in Plan(A, comp)[b] : k < l
  BY <1>1, PlanInOrder
<1> HIDE DEF asg, stg
<1>0. asg = [n \in Nodes |-> IF n \in A THEN Plan(A, comp)[n] ELSE lay[n]]
  BY DEF asg, LayersAfter
<1>5. asg \in [Nodes -> SUBSET Layers]
  BY <1>0, <1>4
<1>6. stg \in Seq(PeerNodes) /\ \A i \in DOMAIN stg : stg[i] \in P
  <2> DEFINE c == Cardinality(P)
  <2>1. c \in Nat /\ stg \in [1 .. c -> P] /\ P \subseteq PeerNodes
    BY <1>2, <1>3
  <2> HIDE DEF c, P
  <2>2. stg \in [1 .. c -> PeerNodes] /\ \A i \in DOMAIN stg : stg[i] \in P
    BY <2>1
  <2>3. stg \in Seq(PeerNodes)
    BY <2>1, <2>2, ListIsSequence
  <2>4. \A i \in DOMAIN stg : stg[i] \in P
    BY <2>2
  <2> QED BY <2>3, <2>4
<1>7. InOrder(stg, asg)
  <2> SUFFICES ASSUME NEW i \in DOMAIN stg, NEW j \in DOMAIN stg, i < j,
                      NEW k \in asg[stg[i]], NEW l \in asg[stg[j]]
               PROVE  k < l
    BY DEF InOrder
  <2>1. Before(comp, stg[i], stg[j])
    BY <1>2 DEF IsSorted
  <2>2. stg[i] \in A /\ stg[j] \in A
    BY <1>6
  <2>3. k \in Plan(A, comp)[stg[i]] /\ l \in Plan(A, comp)[stg[j]]
    BY <1>0, <2>2
  <2> QED BY <2>1, <2>2, <2>3, <1>4
<1>8. ASSUME PeerNodes = Nodes, stg # <<>> PROVE Tiles(stg, asg)
  <2>1. P = A
    BY <1>8
  <2>2. A # {}
    <3> SUFFICES ASSUME A = {} PROVE FALSE
      OBVIOUS
    <3>1. Cardinality(P) = 0
      BY <2>1, FS_EmptySet
    <3>2. Len(stg) = 0
      BY <3>1, <1>2
    <3> QED BY <3>2, <1>6, <1>8
  <2>3. Tiles(stg, Plan(A, comp))
    BY <1>1, <2>1, <2>2, PlanTiles DEF stg
  <2>4. \A i \in DOMAIN stg : asg[stg[i]] = Plan(A, comp)[stg[i]]
    BY <1>0, <1>6
  <2> QED BY <2>3, <2>4, <1>7 DEF Tiles, Complete
<1> QED BY <1>5, <1>6, <1>7, <1>8 DEF asg, stg

\* A rebalance of a registry without Joining nodes makes the Ready ones
\* Active, changes no other state, and leaves a route among the active ones.
LEMMA RebalanceRoute ==
  ASSUME NEW st \in [Nodes -> NodeStates \cup {Unregistered}],
         NEW comp \in [Nodes -> Nat],
         NEW lay \in [Nodes -> SUBSET Layers],
         Rebalance(st, comp, lay)
  PROVE  /\ state' = [n \in Nodes |-> IF st[n] = "Ready" THEN "Active" ELSE st[n]]
         /\ assigned' \in [Nodes -> SUBSET Layers]
         /\ stages' \in Seq(PeerNodes)
         /\ \A i \in DOMAIN stages' : stages'[i] \in Nodes /\ CanAcceptTasks(st[stages'[i]])
         /\ InOrder(stages', assigned')
         /\ PeerNodes = Nodes /\ stages' # <<>> => Tiles(stages', assigned')
<1> DEFINE A == AcceptingTasks(st)
<1>1. A \in SUBSET Nodes /\ \A n \in A : CanAcceptTasks(st[n])
  BY DEF AcceptingTasks
<1>2. state' = [n \in Nodes |-> IF st[n] = "Ready" THEN "Active" ELSE st[n]]
  BY DEF Rebalance, AcceptingTasks, CanAcceptTasks, TransitionOrStay,
         CanTransition, LegalTransitions
<1>3. /\ assigned' = LayersAfter(A, comp, lay)
      /\ stages' = SortedByCapacity(A \cap PeerNodes, comp)
  BY DEF Rebalance
<1> HIDE DEF A
<1>4. /\ assigned' \in [Nodes -> SUBSET Layers]
      /\ stages' \in Seq(PeerNodes)
      /\ \A i \in DOMAIN stages' : stages'[i] \in A
      /\ InOrder(stages', assigned')
      /\ PeerNodes = Nodes /\ stages' # <<>> => Tiles(stages', assigned')
  BY <1>1, <1>3, PlanOverNodes
<1>5. \A i \in DOMAIN stages' : stages'[i] \in Nodes /\ CanAcceptTasks(st[stages'[i]])
  BY <1>1, <1>4
<1> QED BY <1>2, <1>4, <1>5

------------------------------------------------------------------------
(* The invariant.                                                          *)

\* What a handler that ends in a rebalance has to show: the registry it hands
\* over is settled but for Ready nodes, and its ages are in range.
LEMMA RebalanceEstablishes ==
  ASSUME NEW st \in [Nodes -> {Unregistered, "Ready", "Active", "Degraded"}],
         NEW lay \in [Nodes -> SUBSET Layers],
         composite' \in [Nodes -> Nat], age' \in [Nodes -> 0 .. AgeBound],
         Rebalance(st, composite', lay)
  PROVE  IInv'
<1> DEFINE comp == composite'
<1>1. st \in [Nodes -> NodeStates \cup {Unregistered}]
  BY DEF NodeStates
<1>2. /\ state' = [n \in Nodes |-> IF st[n] = "Ready" THEN "Active" ELSE st[n]]
      /\ assigned' \in [Nodes -> SUBSET Layers]
      /\ stages' \in Seq(PeerNodes)
      /\ \A i \in DOMAIN stages' : stages'[i] \in Nodes /\ CanAcceptTasks(st[stages'[i]])
      /\ InOrder(stages', assigned')
      /\ PeerNodes = Nodes /\ stages' # <<>> => Tiles(stages', assigned')
  BY <1>1, RebalanceRoute
<1>3. \A n \in Nodes : state'[n] \in {Unregistered, "Active", "Degraded"}
  BY <1>2
<1>4. TypeOK'
  BY <1>2, <1>3 DEF TypeOK, NodeStates
<1>5. \A i \in DOMAIN stages' : stages'[i] \in Nodes /\ state'[stages'[i]] # Unregistered
  BY <1>2 DEF CanAcceptTasks, Unregistered
<1>6. StagesRegistered'
  BY <1>5 DEF StagesRegistered, Registered
<1>7. RouteInOrder' /\ RouteTiles'
  BY <1>2 DEF RouteInOrder, RouteTiles
<1> QED BY <1>3, <1>4, <1>6, <1>7 DEF IInv, SettledStates

\* An empty registry and an empty stage list satisfy the invariant.
LEMMA InitEstablishes == Init => IInv
<1> SUFFICES ASSUME Init PROVE IInv
  OBVIOUS
<1>1. TypeOK
  BY PruneAfterAssumption DEF Init, TypeOK, AgeBound
<1>2. SettledStates /\ Registered = {}
  BY DEF Init, SettledStates, Registered
<1>3. RouteInOrder
  BY DEF Init, RouteInOrder, InOrder
<1> QED BY <1>1, <1>2, <1>3 DEF IInv, StagesRegistered, RouteTiles

\* A step that neither registers nor removes anybody and moves no layers and
\* no stages keeps the route.
LEMMA QuietStep ==
  ASSUME IInv, UNCHANGED <<assigned, stages>>, TypeOK',
         \A n \in Nodes : /\ state'[n] \in {Unregistered, "Active", "Degraded"}
                          /\ state'[n] = Unregistered <=> state[n] = Unregistered
  PROVE  IInv'
<1>1. Registered' = Registered
  BY DEF Registered
<1> QED BY <1>1 DEF IInv, SettledStates, StagesRegistered, RouteInOrder, RouteTiles

\* Removing nodes keeps the invariant: either a rebalance over the others
\* follows, or nobody is left and no layers are either.
LEMMA RemovalKeeps ==
  ASSUME IInv, NEW gone, RemoveAndRebalance(gone)
  PROVE  IInv'
<1> DEFINE left == [n \in Nodes |-> IF n \in gone THEN Unregistered ELSE state[n]]
           kept == [n \in Nodes |-> IF n \in gone THEN {} ELSE assigned[n]]
<1>1. /\ left \in [Nodes -> {Unregistered, "Ready", "Active", "Degraded"}]
      /\ kept \in [Nodes -> SUBSET Layers]
  BY DEF IInv, TypeOK, SettledStates
<1>2. composite' \in [Nodes -> Nat] /\ age' \in [Nodes -> 0 .. AgeBound]
  BY PruneAfterAssumption DEF IInv, TypeOK, RemoveAndRebalance, AgeBound
<1>3. CASE \E n \in Nodes : left[n] # Unregistered
  <2>1. Rebalance(left, composite', kept)
    BY <1>3 DEF RemoveAndRebalance
  <2> HIDE DEF left, kept
  <2> QED BY <2>1, <1>1, <1>2, RebalanceEstablishes
<1>4. CASE ~ \E n \in Nodes : left[n] # Unregistered
  <2>1. state' = left /\ assigned' = kept /\ stages' = stages
    BY <1>4 DEF RemoveAndRebalance
  <2>2. \A n \in Nodes : state'[n] = Unregistered
    BY <2>1, <1>4
  <2>3. TypeOK'
    BY <2>1, <1>1, <1>2 DEF TypeOK, NodeStates, IInv
  <2>4. Registered' = {} /\ SettledStates'
    BY <2>2 DEF Registered, SettledStates
  <2>5. RouteInOrder'
    <3> SUFFICES ASSUME NEW i \in DOMAIN stages, NEW j \in DOMAIN stages, i < j,
                        NEW k \in assigned'[stages[i]], NEW l \in assigned'[stages[j]]
                 PROVE  k < l
      BY <2>1 DEF RouteInOrder, InOrder
    <3>1. stages[i] \in Nodes /\ stages[j] \in Nodes
      <4>1. stages \in Seq(PeerNodes) /\ PeerNodes \subseteq Nodes
        BY NodesAssumption DEF IInv, TypeOK
      <4>2. \A m \in DOMAIN stages : stages[m] \in PeerNodes
        BY <4>1
      <4> QED BY <4>1, <4>2
    <3>2. k \in assigned[stages[i]] /\ l \in assigned[stages[j]]
      BY <3>1, <2>1
    <3> QED BY <3>2 DEF IInv, RouteInOrder, InOrder
  <2> QED BY <2>3, <2>4, <2>5 DEF IInv, StagesRegistered, RouteTiles
<1> QED BY <1>3, <1>4

\* Every handler keeps the invariant.
LEMMA StepKeeps == IInv /\ [Next]_swarmVars => IInv'
<1> SUFFICES ASSUME IInv, [Next]_swarmVars PROVE IInv'
  OBVIOUS
<1>1. ASSUME NEW n \in Nodes, NEW c \in Composites, Announce(n, c) PROVE IInv'
  <2> DEFINE ready == [[state EXCEPT ![n] = "Joining"] EXCEPT ![n] = TransitionOrStay(@, "Ready")]
             lay   == [assigned EXCEPT ![n] = {}]
  <2>1. ready = [state EXCEPT ![n] = "Ready"]
    BY DEF TransitionOrStay, CanTransition, LegalTransitions, IInv, TypeOK
  <2>2. /\ ready \in [Nodes -> {Unregistered, "Ready", "Active", "Degraded"}]
        /\ lay \in [Nodes -> SUBSET Layers]
    BY <2>1 DEF IInv, TypeOK, SettledStates
  <2>3. composite' \in [Nodes -> Nat] /\ age' \in [Nodes -> 0 .. AgeBound]
    BY <1>1, CompositesAssumption, PruneAfterAssumption
    DEF Announce, IInv, TypeOK, AgeBound
  <2>4. Rebalance(ready, composite', lay)
    BY <1>1 DEF Announce
  <2> HIDE DEF ready, lay
  <2> QED BY <2>2, <2>3, <2>4, RebalanceEstablishes
<1>2. ASSUME NEW n \in Nodes, NEW c \in Composites, StatusUpdate(n, c) PROVE IInv'
  <2> DEFINE updated == [state EXCEPT ![n] = StateAfterStatus(@, c)]
  <2>1. /\ state[n] \in {"Active", "Degraded"}
        /\ StateAfterStatus(state[n], c) \in {"Active", "Degraded"}
    BY <1>2 DEF StatusUpdate, Registered, IInv, SettledStates, StateAfterStatus,
                TransitionOrStay, CanTransition, LegalTransitions, Unregistered
  <2>2. updated \in [Nodes -> {Unregistered, "Ready", "Active", "Degraded"}]
    BY <2>1 DEF IInv, TypeOK, SettledStates
  <2>3. composite' \in [Nodes -> Nat] /\ age' \in [Nodes -> 0 .. AgeBound]
    BY <1>2, CompositesAssumption, PruneAfterAssumption
    DEF StatusUpdate, IInv, TypeOK, AgeBound
  <2>4. assigned \in [Nodes -> SUBSET Layers]
    BY DEF IInv, TypeOK
  <2>5. CASE Significant(composite[n], c)
    <3>1. Rebalance(updated, composite', assigned)
      BY <1>2, <2>5 DEF StatusUpdate
    <3> HIDE DEF updated
    <3> QED BY <3>1, <2>2, <2>3, <2>4, RebalanceEstablishes
  <2>6. CASE ~ Significant(composite[n], c)
    <3>1. state' = updated /\ UNCHANGED <<assigned, stages>>
      BY <1>2, <2>6 DEF StatusUpdate
    <3>2. \A m \in Nodes : /\ state'[m] \in {Unregistered, "Active", "Degraded"}
                           /\ state'[m] = Unregistered <=> state[m] = Unregistered
      BY <3>1, <2>1 DEF IInv, TypeOK, SettledStates, Unregistered
    <3>3. TypeOK'
      BY <3>1, <2>2, <2>3 DEF IInv, TypeOK, NodeStates
    <3> QED BY <3>1, <3>2, <3>3, QuietStep
  <2> QED BY <2>5, <2>6
<1>3. ASSUME NEW n \in Nodes, Drain(n) PROVE IInv'
  BY <1>3, RemovalKeeps DEF Drain
<1>4. ASSUME NEW n \in Nodes, Heartbeat(n) PROVE IInv'
  <2>1. TypeOK'
    BY <1>4, PruneAfterAssumption DEF Heartbeat, IInv, TypeOK, AgeBound
  <2> QED BY <2>1, <1>4, QuietStep DEF Heartbeat, IInv, SettledStates
<1>5. CASE PruneDeadNodes
  BY <1>5, RemovalKeeps DEF PruneDeadNodes
<1>6. CASE Tick
  <2>1. age' \in [Nodes -> 0 .. AgeBound]
    BY <1>6, PruneAfterAssumption DEF Tick, IInv, TypeOK, AgeBound
  <2>2. TypeOK'
    BY <2>1, <1>6 DEF Tick, IInv, TypeOK
  <2> QED BY <2>2, <1>6, QuietStep DEF Tick, IInv, SettledStates
<1>7. CASE UNCHANGED swarmVars
  BY <1>7 DEF swarmVars, IInv, TypeOK, SettledStates, StagesRegistered, Registered,
              RouteInOrder, RouteTiles
<1> QED BY <1>1, <1>2, <1>3, <1>4, <1>5, <1>6, <1>7 DEF Next

------------------------------------------------------------------------
(* What a step may never do.                                               *)

\* A rebalance writes the sorted list of the nodes that are active after it,
\* and leaves the layers of every node that is then Degraded.
LEMMA RebalanceTogether ==
  ASSUME NEW st \in [Nodes -> NodeStates \cup {Unregistered}],
         NEW lay \in [Nodes -> SUBSET Layers],
         composite' \in [Nodes -> Nat],
         Rebalance(st, composite', lay)
  PROVE  /\ stages' = SortedByCapacity(AcceptingTasks(state') \cap PeerNodes, composite')
         /\ \A n \in Nodes : state'[n] = "Degraded" => assigned'[n] = lay[n]
<1>1. state' = [n \in Nodes |-> IF st[n] = "Ready" THEN "Active" ELSE st[n]]
  BY RebalanceRoute
<1>2. \A n \in Nodes : CanAcceptTasks(state'[n]) <=> CanAcceptTasks(st[n])
  BY <1>1 DEF CanAcceptTasks
<1>3. AcceptingTasks(state') = AcceptingTasks(st)
  BY <1>2 DEF AcceptingTasks
<1>4. /\ stages' = SortedByCapacity(AcceptingTasks(st) \cap PeerNodes, composite')
      /\ assigned' = LayersAfter(AcceptingTasks(st), composite', lay)
  BY DEF Rebalance
<1>5. ASSUME NEW n \in Nodes, state'[n] = "Degraded" PROVE assigned'[n] = lay[n]
  <2>1. n \notin AcceptingTasks(st)
    BY <1>1, <1>5 DEF AcceptingTasks, CanAcceptTasks
  <2> QED BY <2>1, <1>4 DEF LayersAfter
<1> QED BY <1>3, <1>4, <1>5

\* The layers of a node move only when everybody's do, and a node that stays
\* Degraded keeps its own.
Together ==
  (\E n \in Registered : n \in Registered' /\ assigned'[n] # assigned[n])
    => stages' = SortedByCapacity(AcceptingTasks(state') \cap PeerNodes, composite')
Kept ==
  \A n \in Nodes :
    state[n] = "Degraded" /\ state'[n] = "Degraded" => assigned'[n] = assigned[n]

\* A removal does both: the departed are not registered afterwards, and when
\* nobody is left there is nobody whose layers could have moved.
LEMMA RemovalMovesTogether ==
  ASSUME IInv, NEW gone, RemoveAndRebalance(gone)
  PROVE  Together /\ Kept
<1> DEFINE left == [n \in Nodes |-> IF n \in gone THEN Unregistered ELSE state[n]]
           kept == [n \in Nodes |-> IF n \in gone THEN {} ELSE assigned[n]]
<1>1. /\ left \in [Nodes -> NodeStates \cup {Unregistered}]
      /\ kept \in [Nodes -> SUBSET Layers]
      /\ composite' \in [Nodes -> Nat]
  BY DEF IInv, TypeOK, RemoveAndRebalance
<1>2. CASE \E n \in Nodes : left[n] # Unregistered
  <2>1. Rebalance(left, composite', kept)
    BY <1>2 DEF RemoveAndRebalance
  <2>2. state' = [n \in Nodes |-> IF left[n] = "Ready" THEN "Active" ELSE left[n]]
    <3> HIDE DEF left, kept
    <3> QED BY <2>1, <1>1, RebalanceRoute
  <2>3. /\ stages' = SortedByCapacity(AcceptingTasks(state') \cap PeerNodes, composite')
        /\ \A n \in Nodes : state'[n] = "Degraded" => assigned'[n] = kept[n]
    <3> HIDE DEF left, kept
    <3> QED BY <2>1, <1>1, RebalanceTogether
  <2>4. \A n \in Nodes : state'[n] = "Degraded" => n \notin gone
    BY <2>2 DEF Unregistered
  <2> QED BY <2>3, <2>4 DEF Together, Kept
<1>3. CASE ~ \E n \in Nodes : left[n] # Unregistered
  <2>1. \A n \in Nodes : state'[n] = Unregistered
    BY <1>3 DEF RemoveAndRebalance
  <2> QED BY <2>1 DEF Together, Kept, Registered, Unregistered
<1> QED BY <1>2, <1>3

\* Every handler moves layers together and leaves the degraded nodes theirs.
LEMMA StepMovesTogether == IInv /\ [Next]_swarmVars => Together /\ Kept
<1> SUFFICES ASSUME IInv, [Next]_swarmVars PROVE Together /\ Kept
  OBVIOUS
<1>1. ASSUME NEW n \in Nodes, NEW c \in Composites, Announce(n, c) PROVE Together /\ Kept
  <2> DEFINE ready == [[state EXCEPT ![n] = "Joining"] EXCEPT ![n] = TransitionOrStay(@, "Ready")]
             lay   == [assigned EXCEPT ![n] = {}]
  <2>1. ready = [state EXCEPT ![n] = "Ready"]
    BY DEF TransitionOrStay, CanTransition, LegalTransitions, IInv, TypeOK
  <2>2. /\ ready \in [Nodes -> NodeStates \cup {Unregistered}]
        /\ lay \in [Nodes -> SUBSET Layers]
    BY <2>1 DEF IInv, TypeOK, NodeStates
  <2>3. composite' \in [Nodes -> Nat]
    BY <1>1, CompositesAssumption DEF Announce, IInv, TypeOK
  <2>4. Rebalance(ready, composite', lay)
    BY <1>1 DEF Announce
  <2>5. state' = [m \in Nodes |-> IF ready[m] = "Ready" THEN "Active" ELSE ready[m]]
    <3> HIDE DEF ready, lay
    <3> QED BY <2>2, <2>3, <2>4, RebalanceRoute
  <2>6. /\ stages' = SortedByCapacity(AcceptingTasks(state') \cap PeerNodes, composite')
        /\ \A m \in Nodes : state'[m] = "Degraded" => assigned'[m] = lay[m]
    <3> HIDE DEF ready, lay
    <3> QED BY <2>2, <2>3, <2>4, RebalanceTogether
  <2>7. state'[n] = "Active"
    BY <2>1, <2>5 DEF IInv, TypeOK
  <2>8. \A m \in Nodes : m # n => lay[m] = assigned[m]
    BY DEF IInv, TypeOK
  <2> QED BY <2>6, <2>7, <2>8 DEF Together, Kept
<1>2. ASSUME NEW n \in Nodes, NEW c \in Composites, StatusUpdate(n, c) PROVE Together /\ Kept
  <2> DEFINE updated == [state EXCEPT ![n] = StateAfterStatus(@, c)]
  <2>1. /\ state[n] \in {"Active", "Degraded"}
        /\ StateAfterStatus(state[n], c) \in {"Active", "Degraded"}
    BY <1>2 DEF StatusUpdate, Registered, IInv, SettledStates, StateAfterStatus,
                TransitionOrStay, CanTransition, LegalTransitions, Unregistered
  <2>2. updated \in [Nodes -> NodeStates \cup {Unregistered}]
    BY <2>1 DEF IInv, TypeOK, NodeStates
  <2>3. composite' \in [Nodes -> Nat] /\ assigned \in [Nodes -> SUBSET Layers]
    BY <1>2, CompositesAssumption DEF StatusUpdate, IInv, TypeOK
  <2>4. CASE Significant(composite[n], c)
    <3>1. Rebalance(updated, composite', assigned)
      BY <1>2, <2>4 DEF StatusUpdate
    <3> HIDE DEF updated
    <3> QED BY <3>1, <2>2, <2>3, RebalanceTogether DEF Together, Kept
  <2>5. CASE ~ Significant(composite[n], c)
    BY <1>2, <2>5 DEF StatusUpdate, Together, Kept
  <2> QED BY <2>4, <2>5
<1>3. ASSUME NEW n \in Nodes, Drain(n) PROVE Together /\ Kept
  BY <1>3, RemovalMovesTogether DEF Drain
<1>4. CASE PruneDeadNodes
  BY <1>4, RemovalMovesTogether DEF PruneDeadNodes
<1>5. ASSUME UNCHANGED assigned PROVE Together /\ Kept
  BY <1>5 DEF Together, Kept
<1> QED BY <1>1, <1>2, <1>3, <1>4, <1>5 DEF Next, Heartbeat, Tick, swarmVars

------------------------------------------------------------------------
(* Layers follow capacity.                                                 *)

\* What a plan says of its nodes depends on nobody else's layers.
LEMMA FairAfterPlan ==
  ASSUME NEW A \in SUBSET Nodes, NEW comp \in [Nodes -> Nat], NEW lay
  PROVE  /\ IsBySums(A, comp, LayersAfter(A, comp, lay))
         /\ IsProportional(A, comp, LayersAfter(A, comp, lay))
<1> DEFINE asg  == LayersAfter(A, comp, lay)
           plan == Plan(A, comp)
<1>1. A \in SUBSET Nat /\ IsFiniteSet(A) /\ \A n \in A : comp[n] \in Nat
  BY NodesAssumption, FS_Subset
<1>2. IsBySums(A, comp, plan)
  BY <1>1, PlanFollowsSums
<1>3. IsProportional(A, comp, plan)
  BY <1>1, PlanIsProportional
<1>4. \A n \in A : asg[n] = plan[n]
  BY DEF LayersAfter
<1> HIDE DEF asg, plan
<1>5. IsBySums(A, comp, asg)
  BY <1>2, <1>4 DEF IsBySums
<1>6. \A n \in A : LeftAhead(A, comp, asg, n) = LeftAhead(A, comp, plan, n)
  <2> SUFFICES ASSUME NEW n \in A
               PROVE  LeftAhead(A, comp, asg, n) = LeftAhead(A, comp, plan, n)
    OBVIOUS
  <2>1. {asg[m] : m \in A \ Ahead(A, comp, n)} = {plan[m] : m \in A \ Ahead(A, comp, n)}
    BY <1>4
  <2> QED BY <2>1 DEF LeftAhead
<1>7. IsProportional(A, comp, asg)
  BY <1>3, <1>6 DEF IsProportional
<1> QED BY <1>5, <1>7 DEF asg

\* After a rebalance the layers of the nodes that are then active are those
\* their composites earn.
LEMMA RebalanceIsFair ==
  ASSUME NEW st \in [Nodes -> NodeStates \cup {Unregistered}],
         NEW lay \in [Nodes -> SUBSET Layers],
         composite' \in [Nodes -> Nat],
         Rebalance(st, composite', lay)
  PROVE  /\ IsBySums(AcceptingTasks(state'), composite', assigned')
         /\ IsProportional(AcceptingTasks(state'), composite', assigned')
<1>1. state' = [n \in Nodes |-> IF st[n] = "Ready" THEN "Active" ELSE st[n]]
  BY RebalanceRoute
<1>2. \A n \in Nodes : CanAcceptTasks(state'[n]) <=> CanAcceptTasks(st[n])
  BY <1>1 DEF CanAcceptTasks
<1>3. AcceptingTasks(state') = AcceptingTasks(st)
  BY <1>2 DEF AcceptingTasks
<1>4. assigned' = LayersAfter(AcceptingTasks(st), composite', lay)
  BY DEF Rebalance
<1>5. AcceptingTasks(st) \in SUBSET Nodes
  BY DEF AcceptingTasks
<1>6. /\ IsBySums(AcceptingTasks(st), composite', LayersAfter(AcceptingTasks(st), composite', lay))
      /\ IsProportional(AcceptingTasks(st), composite', LayersAfter(AcceptingTasks(st), composite', lay))
  BY <1>5, FairAfterPlan
<1> QED BY <1>3, <1>4, <1>6

\* A step that rewrites the route leaves it fair.
Fairly ==
  (stages' # stages \/ \E n \in Registered' : assigned'[n] # assigned[n])
    => LET active == AcceptingTasks(state')
       IN  /\ IsBySums(active, composite', assigned')
           /\ IsProportional(active, composite', assigned')

\* A removal that leaves somebody rebalances; one that leaves nobody keeps the
\* stage list.
LEMMA RemovalIsFair ==
  ASSUME IInv, NEW gone, RemoveAndRebalance(gone)
  PROVE  Fairly
<1> DEFINE left == [n \in Nodes |-> IF n \in gone THEN Unregistered ELSE state[n]]
           kept == [n \in Nodes |-> IF n \in gone THEN {} ELSE assigned[n]]
<1>1. /\ left \in [Nodes -> NodeStates \cup {Unregistered}]
      /\ kept \in [Nodes -> SUBSET Layers]
      /\ composite' \in [Nodes -> Nat]
  BY DEF IInv, TypeOK, RemoveAndRebalance
<1>2. CASE \E n \in Nodes : left[n] # Unregistered
  <2>1. Rebalance(left, composite', kept)
    BY <1>2 DEF RemoveAndRebalance
  <2> HIDE DEF left, kept
  <2> QED BY <2>1, <1>1, RebalanceIsFair DEF Fairly
<1>3. CASE ~ \E n \in Nodes : left[n] # Unregistered
  <2>1. (\A n \in Nodes : state'[n] = Unregistered) /\ stages' = stages
    BY <1>3 DEF RemoveAndRebalance
  <2> QED BY <2>1 DEF Fairly, Registered
<1> QED BY <1>2, <1>3

\* Every handler that moves layers or stages plans with the scores and the
\* states it leaves behind.
LEMMA StepIsFair == IInv /\ [Next]_swarmVars => Fairly
<1> SUFFICES ASSUME IInv, [Next]_swarmVars PROVE Fairly
  OBVIOUS
<1>1. ASSUME NEW n \in Nodes, NEW c \in Composites, Announce(n, c) PROVE Fairly
  <2> DEFINE ready == [[state EXCEPT ![n] = "Joining"] EXCEPT ![n] = TransitionOrStay(@, "Ready")]
             lay   == [assigned EXCEPT ![n] = {}]
  <2>1. ready = [state EXCEPT ![n] = "Ready"]
    BY DEF TransitionOrStay, CanTransition, LegalTransitions, IInv, TypeOK
  <2>2. /\ ready \in [Nodes -> NodeStates \cup {Unregistered}]
        /\ lay \in [Nodes -> SUBSET Layers]
    BY <2>1 DEF IInv, TypeOK, NodeStates
  <2>3. composite' \in [Nodes -> Nat]
    BY <1>1, CompositesAssumption DEF Announce, IInv, TypeOK
  <2>4. Rebalance(ready, composite', lay)
    BY <1>1 DEF Announce
  <2> HIDE DEF ready, lay
  <2> QED BY <2>2, <2>3, <2>4, RebalanceIsFair DEF Fairly
<1>2. ASSUME NEW n \in Nodes, NEW c \in Composites, StatusUpdate(n, c) PROVE Fairly
  <2> DEFINE updated == [state EXCEPT ![n] = StateAfterStatus(@, c)]
  <2>1. /\ state[n] \in {"Active", "Degraded"}
        /\ StateAfterStatus(state[n], c) \in {"Active", "Degraded"}
    BY <1>2 DEF StatusUpdate, Registered, IInv, SettledStates, StateAfterStatus,
                TransitionOrStay, CanTransition, LegalTransitions, Unregistered
  <2>2. updated \in [Nodes -> NodeStates \cup {Unregistered}]
    BY <2>1 DEF IInv, TypeOK, NodeStates
  <2>3. composite' \in [Nodes -> Nat] /\ assigned \in [Nodes -> SUBSET Layers]
    BY <1>2, CompositesAssumption DEF StatusUpdate, IInv, TypeOK
  <2>4. CASE Significant(composite[n], c)
    <3>1. Rebalance(updated, composite', assigned)
      BY <1>2, <2>4 DEF StatusUpdate
    <3> HIDE DEF updated
    <3> QED BY <3>1, <2>2, <2>3, RebalanceIsFair DEF Fairly
  <2>5. CASE ~ Significant(composite[n], c)
    BY <1>2, <2>5 DEF StatusUpdate, Fairly
  <2> QED BY <2>4, <2>5
<1>3. ASSUME NEW n \in Nodes, Drain(n) PROVE Fairly
  BY <1>3, RemovalIsFair DEF Drain
<1>4. CASE PruneDeadNodes
  BY <1>4, RemovalIsFair DEF PruneDeadNodes
<1>5. ASSUME UNCHANGED <<assigned, stages>> PROVE Fairly
  BY <1>5 DEF Fairly
<1> QED BY <1>1, <1>2, <1>3, <1>4, <1>5 DEF Next, Heartbeat, Tick, swarmVars

------------------------------------------------------------------------
(* The theorems.                                                           *)

\* In every reachable state: the types, no half-registered node, no stage of a
\* departed peer, and a stage list that is in order and covers the model.
THEOREM SwarmInvariant == Spec => []IInv
  BY InitEstablishes, StepKeeps, PTL DEF Spec

\* Type correctness of the registry and the stage list.
THEOREM SwarmTypeOK == Spec => []TypeOK
<1>1. IInv => TypeOK
  BY DEF IInv
<1> QED BY <1>1, SwarmInvariant, PTL

\* No handler leaves a node Joining, Ready, Draining or Left behind.
THEOREM SwarmSettled == Spec => []SettledStates
<1>1. IInv => SettledStates
  BY DEF IInv
<1> QED BY <1>1, SwarmInvariant, PTL

\* While anybody is registered, every stage is.
THEOREM SwarmStagesRegistered == Spec => []StagesRegistered
<1>1. IInv => StagesRegistered
  BY DEF IInv
<1> QED BY <1>1, SwarmInvariant, PTL

\* Layers along the stage list never overlap and never run backwards.
THEOREM SwarmRouteInOrder == Spec => []RouteInOrder
<1>1. IInv => RouteInOrder
  BY DEF IInv
<1> QED BY <1>1, SwarmInvariant, PTL

\* With PeerId identifiers a stage list that is not empty covers the model.
THEOREM SwarmRouteTiles == Spec => []RouteTiles
<1>1. IInv => RouteTiles
  BY DEF IInv
<1> QED BY <1>1, SwarmInvariant, PTL

\* A registered node's layers change only when the stage list is rewritten as
\* the sorted list of the active nodes.
THEOREM SwarmLayersMoveTogether == Spec => LayersMoveTogether
<1>1. IInv /\ [Next]_swarmVars => [Together]_swarmVars
  BY StepMovesTogether
<1> QED BY <1>1, SwarmInvariant, PTL DEF Spec, LayersMoveTogether, Together

\* No rebalance takes the layers of a node that stays Degraded.
THEOREM SwarmDegradedKeepsLayers == Spec => DegradedKeepsLayers
<1>1. IInv /\ [Next]_swarmVars => [Kept]_swarmVars
  BY StepMovesTogether
<1> QED BY <1>1, SwarmInvariant, PTL DEF Spec, DegradedKeepsLayers, Kept

\* Whenever the route or a registered node's layers change, the active nodes
\* have what their composites after the step earn them, up to the rounding.
THEOREM SwarmLayersFollowCapacity == Spec => LayersFollowCapacity
<1>1. IInv /\ [Next]_swarmVars => [Fairly]_swarmVars
  BY StepIsFair
<1> QED BY <1>1, SwarmInvariant, PTL DEF Spec, LayersFollowCapacity, Fairly

========================================================================
