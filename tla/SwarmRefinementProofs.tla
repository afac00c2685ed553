--------------------- MODULE SwarmRefinementProofs ---------------------
(***************************************************************************)
(* When every identifier is a PeerId, the control plane implements         *)
(* LayerRoute, for every finite set of nodes and every model.              *)
(*                                                                         *)
(* What IInv does not say is that no node is on the stage list twice: two  *)
(* stages without layers would be in order whichever nodes they are.  The  *)
(* invariant is therefore strengthened by StagesDistinct.                  *)
(***************************************************************************)
EXTENDS SwarmProofs

StagesDistinct ==
  \A i, j \in DOMAIN stages : stages[i] = stages[j] => i = j

RInv == IInv /\ StagesDistinct

absVars == <<Registered, RouteOfStages>>

------------------------------------------------------------------------
(* The stage list of a rebalance.                                          *)

\* Sorted lists of nodes hold every node, each once.
LEMMA SortedStages ==
  ASSUME NEW P \in SUBSET Nodes, NEW comp \in [Nodes -> Nat]
  PROVE  LET stg == SortedByCapacity(P, comp)
         IN  /\ \A i, j \in DOMAIN stg : stg[i] = stg[j] => i = j
             /\ \A n \in P : \E i \in DOMAIN stg : stg[i] = n
<1> DEFINE stg == SortedByCapacity(P, comp)
<1>1. P \in SUBSET Nat /\ IsFiniteSet(P) /\ \A n \in P : n \in Nat /\ comp[n] \in Nat
  BY NodesAssumption, FS_Subset
<1>2. stg \in [1 .. Cardinality(P) -> P] /\ IsSorted(P, comp, stg)
  BY <1>1, SortedByCapacityIsSorted
<1> HIDE DEF stg
<1>3. ASSUME NEW i \in DOMAIN stg, NEW j \in DOMAIN stg, stg[i] = stg[j]
      PROVE  i = j
  <2>1. i \in Int /\ j \in Int /\ stg[i] \in P
    BY <1>2
  <2>2. \A n \in P : ~ Before(comp, n, n)
    BY <1>1 DEF Before
  <2>3. ~ (i < j) /\ ~ (j < i)
    BY <1>3, <2>1, <2>2, <1>2 DEF IsSorted
  <2> QED BY <2>1, <2>3
<1>4. \A n \in P : \E i \in DOMAIN stg : stg[i] = n
  BY <1>2 DEF IsSorted
<1> QED BY <1>3, <1>4 DEF stg

\* A rebalance puts every node that may take tasks and is a peer on the list,
\* once.
LEMMA RebalanceStages ==
  ASSUME NEW st \in [Nodes -> NodeStates \cup {Unregistered}], NEW lay,
         composite' \in [Nodes -> Nat], Rebalance(st, composite', lay)
  PROVE  /\ StagesDistinct'
         /\ \A n \in AcceptingTasks(st) \cap PeerNodes :
              \E i \in DOMAIN stages' : stages'[i] = n
<1> DEFINE P == AcceptingTasks(st) \cap PeerNodes
<1>1. stages' = SortedByCapacity(P, composite')
  BY DEF Rebalance
<1>2. P \in SUBSET Nodes
  BY DEF AcceptingTasks
<1> HIDE DEF P
<1>3. /\ \A i, j \in DOMAIN stages' : stages'[i] = stages'[j] => i = j
      /\ \A n \in P : \E i \in DOMAIN stages' : stages'[i] = n
  BY <1>1, <1>2, SortedStages
<1> QED BY <1>3 DEF P, StagesDistinct

------------------------------------------------------------------------
(* The strengthened invariant.                                             *)

\* What the actions do to the mapped variables: nothing; or the registry
\* empties under an old list; or a rebalance after a node joined as Ready, or
\* after nodes departed or stayed.
LEMMA ActionsRebalance ==
  ASSUME IInv, [Next]_swarmVars
  PROVE  \/ UNCHANGED <<assigned, stages>> /\ Registered' = Registered
         \/ Registered' = {} /\ stages' = stages
         \/ \E st \in [Nodes -> NodeStates \cup {Unregistered}],
               lay \in [Nodes -> SUBSET Layers] :
              /\ composite' \in [Nodes -> Nat]
              /\ Rebalance(st, composite', lay)
              /\ \/ \E n \in Nodes : /\ Registered' = Registered \cup {n}
                                     /\ st[n] = "Ready"
                 \/ Registered' \subseteq Registered
<1> USE DEF IInv
<1>1. ASSUME NEW n \in Nodes, NEW c \in Composites, Announce(n, c)
      PROVE  \E st \in [Nodes -> NodeStates \cup {Unregistered}],
                lay \in [Nodes -> SUBSET Layers] :
               /\ composite' \in [Nodes -> Nat]
               /\ Rebalance(st, composite', lay)
               /\ Registered' = Registered \cup {n}
               /\ st[n] = "Ready"
  <2> DEFINE ready == [[state EXCEPT ![n] = "Joining"] EXCEPT ![n] = TransitionOrStay(@, "Ready")]
             lay   == [assigned EXCEPT ![n] = {}]
  <2>1. ready = [state EXCEPT ![n] = "Ready"]
    BY DEF TransitionOrStay, CanTransition, LegalTransitions, TypeOK
  <2>2. /\ ready \in [Nodes -> NodeStates \cup {Unregistered}] /\ ready[n] = "Ready"
        /\ lay \in [Nodes -> SUBSET Layers]
    BY <2>1 DEF TypeOK, NodeStates
  <2>3. composite' \in [Nodes -> Nat]
    BY <1>1, CompositesAssumption DEF Announce, TypeOK
  <2>4. Rebalance(ready, composite', lay)
    BY <1>1 DEF Announce
  <2>5. state' = [m \in Nodes |-> IF ready[m] = "Ready" THEN "Active" ELSE ready[m]]
    <3> HIDE DEF ready, lay
    <3> QED BY <2>2, <2>3, <2>4, RebalanceRoute
  <2>6. Registered' = Registered \cup {n}
    BY <2>1, <2>5 DEF Registered, Unregistered, TypeOK
  <2> HIDE DEF ready, lay
  <2> QED BY <2>2, <2>3, <2>4, <2>6
<1>2. ASSUME NEW n \in Nodes, NEW c \in Composites, StatusUpdate(n, c)
      PROVE  \/ UNCHANGED <<assigned, stages>> /\ Registered' = Registered
             \/ \E st \in [Nodes -> NodeStates \cup {Unregistered}],
                   lay \in [Nodes -> SUBSET Layers] :
                  /\ composite' \in [Nodes -> Nat]
                  /\ Rebalance(st, composite', lay)
                  /\ Registered' = Registered
  <2> DEFINE updated == [state EXCEPT ![n] = StateAfterStatus(@, c)]
  <2>1. /\ state[n] \in {"Active", "Degraded"}
        /\ StateAfterStatus(state[n], c) \in {"Active", "Degraded"}
    BY <1>2 DEF StatusUpdate, Registered, SettledStates, StateAfterStatus,
                TransitionOrStay, CanTransition, LegalTransitions, Unregistered
  <2>2. updated \in [Nodes -> NodeStates \cup {Unregistered}]
    BY <2>1 DEF TypeOK, NodeStates
  <2>3. composite' \in [Nodes -> Nat] /\ assigned \in [Nodes -> SUBSET Layers]
    BY <1>2, CompositesAssumption DEF StatusUpdate, TypeOK
  <2>4. \A m \in Nodes : updated[m] = Unregistered <=> state[m] = Unregistered
    BY <2>1 DEF Unregistered, TypeOK
  <2>5. CASE Significant(composite[n], c)
    <3>1. Rebalance(updated, composite', assigned)
      BY <1>2, <2>5 DEF StatusUpdate
    <3> HIDE DEF updated
    <3>2. state' = [m \in Nodes |-> IF updated[m] = "Ready" THEN "Active" ELSE updated[m]]
      BY <2>2, <2>3, <3>1, RebalanceRoute
    <3>3. Registered' = Registered
      BY <3>2, <2>4 DEF Registered, Unregistered
    <3> QED BY <2>2, <2>3, <3>1, <3>3
  <2>6. CASE ~ Significant(composite[n], c)
    <3>1. state' = updated /\ UNCHANGED <<assigned, stages>>
      BY <1>2, <2>6 DEF StatusUpdate
    <3>2. Registered' = Registered
      BY <3>1, <2>4 DEF Registered
    <3> QED BY <3>1, <3>2
  <2> QED BY <2>5, <2>6
<1>3. ASSUME NEW gone, RemoveAndRebalance(gone)
      PROVE  \/ Registered' = {} /\ stages' = stages
             \/ \E st \in [Nodes -> NodeStates \cup {Unregistered}],
                   lay \in [Nodes -> SUBSET Layers] :
                  /\ composite' \in [Nodes -> Nat]
                  /\ Rebalance(st, composite', lay)
                  /\ Registered' \subseteq Registered
  <2> DEFINE left == [n \in Nodes |-> IF n \in gone THEN Unregistered ELSE state[n]]
             kept == [n \in Nodes |-> IF n \in gone THEN {} ELSE assigned[n]]
  <2>1. /\ left \in [Nodes -> NodeStates \cup {Unregistered}]
        /\ kept \in [Nodes -> SUBSET Layers]
        /\ composite' \in [Nodes -> Nat]
    BY <1>3 DEF TypeOK, RemoveAndRebalance
  <2>2. CASE \E n \in Nodes : left[n] # Unregistered
    <3>1. Rebalance(left, composite', kept)
      BY <1>3, <2>2 DEF RemoveAndRebalance
    <3>2. state' = [m \in Nodes |-> IF left[m] = "Ready" THEN "Active" ELSE left[m]]
      <4> HIDE DEF left, kept
      <4> QED BY <2>1, <3>1, RebalanceRoute
    <3>3. Registered' \subseteq Registered
      BY <3>2 DEF Registered, Unregistered
    <3> HIDE DEF left, kept
    <3> QED BY <2>1, <3>1, <3>3
  <2>3. CASE ~ \E n \in Nodes : left[n] # Unregistered
    BY <1>3, <2>3 DEF RemoveAndRebalance, Registered
  <2> QED BY <2>2, <2>3
<1>4. ASSUME UNCHANGED <<state, assigned, stages>>
      PROVE  UNCHANGED <<assigned, stages>> /\ Registered' = Registered
  BY <1>4 DEF Registered
<1>5. CASE \E n \in Nodes, c \in Composites : Announce(n, c)
  BY <1>1, <1>5
<1>6. CASE \E n \in Nodes, c \in Composites : StatusUpdate(n, c)
  BY <1>2, <1>6
<1>7. CASE (\E n \in Nodes : Drain(n)) \/ PruneDeadNodes
  BY <1>3, <1>7 DEF Drain, PruneDeadNodes
<1>8. CASE (\E n \in Nodes : Heartbeat(n)) \/ Tick \/ UNCHANGED swarmVars
  BY <1>4, <1>8 DEF Heartbeat, Tick, swarmVars
<1> QED BY <1>5, <1>6, <1>7, <1>8 DEF Next

\* No step puts a node on the list twice.
LEMMA StepKeepsDistinct == RInv /\ [Next]_swarmVars => RInv'
<1> SUFFICES ASSUME RInv, [Next]_swarmVars PROVE RInv'
  OBVIOUS
<1>1. IInv /\ IInv'
  BY StepKeeps DEF RInv
<1>2. stages' = stages => StagesDistinct'
  BY DEF RInv, StagesDistinct
<1>3. ASSUME NEW st \in [Nodes -> NodeStates \cup {Unregistered}], NEW lay,
             composite' \in [Nodes -> Nat], Rebalance(st, composite', lay)
      PROVE  StagesDistinct'
  BY <1>3, RebalanceStages
<1> QED BY <1>1, <1>2, <1>3, ActionsRebalance DEF RInv

\* The invariant of the control plane, and no node twice on the stage list.
THEOREM RefinementInvariant == Spec => []RInv
<1>1. Init => RInv
  BY InitEstablishes DEF Init, RInv, StagesDistinct
<1> QED BY <1>1, StepKeepsDistinct, PTL DEF Spec

------------------------------------------------------------------------
(* The refinement.                                                         *)

MappedIsRoute ==
  PeerNodes = Nodes => Abstract!IsRoute(RouteOfStages, Registered)

\* The mapped stage list is a route through the registered nodes.
LEMMA StagesAreRoute == RInv => MappedIsRoute
<1> SUFFICES ASSUME PeerNodes = Nodes, RInv
             PROVE  Abstract!IsRoute(RouteOfStages, Registered)
  BY DEF MappedIsRoute
<1>1. CASE Registered = {}
  BY <1>1 DEF RouteOfStages, Abstract!IsRoute
<1>2. CASE Registered # {}
  <2> DEFINE r == RouteOfStages
             slice == [i \in DOMAIN r |-> r[i].layers]
  <2>1. r = [i \in DOMAIN stages |-> [node |-> stages[i], layers |-> assigned[stages[i]]]]
    BY <1>2 DEF RouteOfStages
  <2>2. /\ DOMAIN r = DOMAIN stages
        /\ \A i \in DOMAIN stages : r[i].node = stages[i] /\ r[i].layers = assigned[stages[i]]
    BY <2>1
  <2>3. \A i \in DOMAIN r : r[i].node \in Registered
    BY <2>2, <1>2 DEF RInv, IInv, StagesRegistered
  <2>4. \A i, j \in DOMAIN r : i # j => r[i].node # r[j].node
    BY <2>2 DEF RInv, StagesDistinct
  <2>5. ASSUME r # <<>> PROVE Abstract!Tiles([i \in DOMAIN r |-> i], slice)
    <3>1. stages # <<>>
      BY <2>5, <2>2, <2>1
    <3>2. Tiles(stages, assigned)
      BY <3>1, <1>2 DEF RInv, IInv, RouteTiles
    <3>3. \A i \in DOMAIN stages : slice[i] = assigned[stages[i]]
      BY <2>2
    <3> HIDE DEF slice, r
    <3> QED BY <3>2, <3>3, <2>2
        DEF Tiles, InOrder, Complete, Layers,
            Abstract!Tiles, Abstract!InOrder, Abstract!Complete, Abstract!Layers
  <2> QED BY <2>3, <2>4, <2>5 DEF Abstract!IsRoute
<1> QED BY <1>1, <1>2

\* Every step of the control plane is a join, a departure, a new plan, or
\* changes nothing that LayerRoute sees.
LEMMA StepImplements ==
  PeerNodes = Nodes /\ RInv /\ MappedIsRoute' /\ [Next]_swarmVars
    => [Abstract!Next]_absVars
<1> SUFFICES ASSUME PeerNodes = Nodes, RInv, MappedIsRoute', [Next]_swarmVars
             PROVE  [Abstract!Next]_absVars
  OBVIOUS
<1>0. Abstract!IsRoute(RouteOfStages', Registered')
  BY DEF MappedIsRoute
<1>1. CASE UNCHANGED <<assigned, stages>> /\ Registered' = Registered
  BY <1>1 DEF absVars, RouteOfStages
<1>2. ASSUME Registered' \subseteq Registered PROVE [Abstract!Next]_absVars
  <2>1. CASE Registered' # Registered
    BY <1>0, <1>2, <2>1 DEF Abstract!Next, Abstract!Leave
  <2>2. CASE Registered' = Registered /\ Registered # {}
    BY <1>0, <2>2 DEF Abstract!Next, Abstract!Replan
  <2>3. CASE Registered' = Registered /\ Registered = {}
    BY <2>3 DEF absVars, RouteOfStages
  <2> QED BY <2>1, <2>2, <2>3
<1>3. ASSUME NEW st \in [Nodes -> NodeStates \cup {Unregistered}],
             NEW lay \in [Nodes -> SUBSET Layers],
             composite' \in [Nodes -> Nat], Rebalance(st, composite', lay),
             NEW n \in Nodes, Registered' = Registered \cup {n}, st[n] = "Ready"
      PROVE  [Abstract!Next]_absVars
  <2>1. n \in AcceptingTasks(st) \cap PeerNodes
    BY <1>3 DEF AcceptingTasks, CanAcceptTasks
  <2>2. PICK i \in DOMAIN stages' : stages'[i] = n
    BY <1>3, <2>1, RebalanceStages
  <2>3. RouteOfStages' = [j \in DOMAIN stages' |->
                            [node |-> stages'[j], layers |-> assigned'[stages'[j]]]]
    BY <1>3 DEF RouteOfStages
  <2>4. i \in DOMAIN RouteOfStages' /\ RouteOfStages'[i].node = n
    BY <2>2, <2>3
  <2>5. Abstract!Join(n)
    BY <1>0, <1>3, <2>4 DEF Abstract!Join
  <2> QED BY <2>5 DEF Abstract!Next
<1>4. Registered' = {} => Registered' \subseteq Registered
  OBVIOUS
<1>5. IInv
  BY DEF RInv
<1> QED BY <1>1, <1>2, <1>3, <1>4, <1>5, ActionsRebalance

\* With PeerId identifiers the registry and the stage list implement
\* LayerRoute: at every moment the route is empty or covers the model with
\* distinct registered nodes, and it changes only as a whole.
THEOREM SwarmImplementsLayerRoute ==
  ASSUME PeerNodes = Nodes
  PROVE  Spec => ImplementsLayerRoute
<1>1. Init => Abstract!Init
  BY DEF Init, Abstract!Init, Registered, RouteOfStages
<1>2. RInv /\ MappedIsRoute' /\ [Next]_swarmVars => [Abstract!Next]_absVars
  BY StepImplements
<1> QED BY <1>1, <1>2, RefinementInvariant, StagesAreRoute, PTL
    DEF Spec, ImplementsLayerRoute, Abstract!Spec, absVars

========================================================================
