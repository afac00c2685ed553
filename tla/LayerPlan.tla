--------------------------- MODULE LayerPlan ---------------------------
(***************************************************************************)
(* How rebalance_layers (src/src/orchestrator.rs) divides the layers of    *)
(* the model among the active nodes.  The nodes are sorted by composite    *)
(* capacity; each in turn takes its proportional share of consecutive      *)
(* layers, rounded to a whole number, and the last one takes what is left. *)
(*                                                                         *)
(* A node identifier is a natural number, compared as the code compares    *)
(* identifier strings.  A composite score is a natural number of           *)
(* twentieths (0.05): every threshold of the code is a multiple of one.    *)
(* The quotient (composite / total) * layers, an f32 in the code, is an    *)
(* exact rational here.  A set of layers stands for the ascending vector   *)
(* assigned_layers.                                                        *)
(***************************************************************************)
EXTENDS Integers, Sequences, FiniteSets

CONSTANT TotalLayers          \* total_model_layers, a u32

ASSUME TotalLayersAssumption == TotalLayers \in Nat

Layers == 0 .. (TotalLayers - 1)

------------------------------------------------------------------------
(* The order of sorted_by_capacity: composite descending, then the        *)
(* identifier ascending.                                                   *)

Before(composite, a, b) ==
  \/ composite[a] > composite[b]
  \/ composite[a] = composite[b] /\ a < b

\* o lists the nodes of S, each once, in that order.
IsSorted(S, composite, o) ==
  /\ \A n \in S : \E i \in DOMAIN o : o[i] = n
  /\ \A i, j \in DOMAIN o : i < j => Before(composite, o[i], o[j])

SortedByCapacity(S, composite) ==
  CHOOSE o \in [1 .. Cardinality(S) -> S] : IsSorted(S, composite, o)

------------------------------------------------------------------------
(* A loop over positions 1 .. n that carries a value from x0 on.  It is a  *)
(* recursive function, not a fold of the community modules, so that the    *)
(* proofs of LayerPlanProofs can reason about it.                          *)

Accumulate(n, x0, step) ==
  LET acc[i \in 0 .. n] == IF i = 0 THEN x0 ELSE step[i][acc[i - 1]]
  IN  acc

\* total_composite: the sum of the composites in sorted order.
TotalComposite(order, composite) ==
  LET n == Len(order)
  IN  Accumulate(n, 0, [i \in 1 .. n |-> [x \in Nat |-> x + composite[order[i]]]])[n]

\* Mutant: the cast truncates, the rounding is forgotten.
ShareTruncated(c, total) == (c * TotalLayers) \div total

\* ((composite / total) * total_layers).round(): halves away from zero.
Share(c, total) == (2 * c * TotalLayers + total) \div (2 * total)

\* Mutant: the last node takes its share, not the rest.
LayerCountWithoutRest(order, composite, total, i, current) ==
  IF total = 0 THEN TotalLayers \div Len(order) ELSE Share(composite[order[i]], total)

\* layer_count of the node at position i, when the layers below current are
\* taken: the rest for the last node, an equal part when nobody has any
\* capacity, the share otherwise.
LayerCount(order, composite, total, i, current) ==
  IF i = Len(order) THEN TotalLayers - current
  ELSE IF total = 0 THEN TotalLayers \div Len(order)
  ELSE Share(composite[order[i]], total)

\* end_layer: where the slice that starts at current ends.
EndLayer(order, composite, total, i, current) ==
  LET end == current + LayerCount(order, composite, total, i, current)
  IN  IF end <= TotalLayers THEN end ELSE TotalLayers

\* Cuts(...)[i] is where the slice of position i ends and the next begins.
Cuts(order, composite) ==
  LET n     == Len(order)
      total == TotalComposite(order, composite)
  IN  Accumulate(n, 0, [i \in 1 .. n |-> [current \in 0 .. TotalLayers |->
                          EndLayer(order, composite, total, i, current)]])

\* Mutant: the range of a slice includes its end.
PlanInclusive(S, composite) ==
  LET order == SortedByCapacity(S, composite)
      cut   == Cuts(order, composite)
  IN  [ n \in S |-> LET i == CHOOSE i \in DOMAIN order : order[i] = n
                    IN  cut[i - 1] .. cut[i] ]

\* The assigned_layers each node of S is given.
Plan(S, composite) ==
  LET order == SortedByCapacity(S, composite)
      cut   == Cuts(order, composite)
  IN  [ n \in S |-> LET i == CHOOSE i \in DOMAIN order : order[i] = n
                    IN  cut[i - 1] .. (cut[i] - 1) ]

------------------------------------------------------------------------
(* What a plan is for.                                                     *)

\* Along route, every layer of an earlier node precedes every layer of a
\* later one: no layer is run twice, none is run out of order.
InOrder(route, slice) ==
  \A i, j \in DOMAIN route : i < j =>
    \A k \in slice[route[i]], l \in slice[route[j]] : k < l

\* Every layer of the model is run by somebody on route.
Complete(route, slice) ==
  \A l \in Layers : \E i \in DOMAIN route : l \in slice[route[i]]

Tiles(route, slice) == InOrder(route, slice) /\ Complete(route, slice)

========================================================================
