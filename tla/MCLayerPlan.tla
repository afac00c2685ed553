-------------------------- MODULE MCLayerPlan --------------------------
(***************************************************************************)
(* The division of the layers over the composites that the telemetry of a  *)
(* few devices produces: TLC compares the loop of LayerPlan with the       *)
(* definition by sums of FairShares, and measures what the rounding does.  *)
(***************************************************************************)
EXTENDS Telemetry, FairShares

ASSUME FiniteNodesAssumption == IsFiniteSet(Nodes)

------------------------------------------------------------------------
(* Properties.                                                             *)

\* The slices that the loop of rebalance_layers hands out are the layers
\* between the shares of the nodes ahead and those shares plus the node's own,
\* cut off at the end of the model, the last node's slice reaching to that end.
PlanIsBySums == IsBySums(Nodes, composite, Plan(Nodes, composite))

\* The rounding errors of the shares add up along the order, by half a layer a
\* node and no faster: where a slice begins is at most k / 2 layers away from
\* its exact proportional place, k being the nodes ahead.  So the last node
\* gets at most (N - 1) / 2 layers more, or fewer, than its capacity is worth.
RoundingIsBounded == IsProportional(Nodes, composite, Plan(Nodes, composite))

========================================================================
