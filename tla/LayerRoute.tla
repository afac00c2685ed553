-------------------------- MODULE LayerRoute ---------------------------
(***************************************************************************)
(* What the control plane promises the inference that runs on top of it:   *)
(* members come and go, and at every moment the route through the model is *)
(* either empty or a list of distinct members whose slices are exactly the *)
(* layers of the model, in order.  A route changes only as a whole.        *)
(* How a route is chosen, and from what, is left open.                     *)
(***************************************************************************)
EXTENDS LayerPlan

CONSTANT Nodes

VARIABLES members, route

\* r is a usable route through nodes of m: a sequence of stages, each with
\* its node and its slice of the layers.
IsRoute(r, m) ==
  LET slice == [i \in DOMAIN r |-> r[i].layers]
  IN  /\ \A i \in DOMAIN r : r[i].node \in m
      /\ \A i, j \in DOMAIN r : i # j => r[i].node # r[j].node
      /\ r # <<>> => Tiles([i \in DOMAIN r |-> i], slice)

Init == members = {} /\ route = <<>>

\* A node joins and is on the route at once.
Join(n) ==
  /\ members' = members \cup {n}
  /\ IsRoute(route', members')
  /\ \E i \in DOMAIN route' : route'[i].node = n

\* Some members leave together; no stage is left behind with them.
Leave ==
  /\ members' \subseteq members /\ members' # members
  /\ IsRoute(route', members')

\* The members stay and the route is planned anew.
Replan ==
  /\ members # {}
  /\ members' = members
  /\ IsRoute(route', members)

Next ==
  \/ \E n \in Nodes : Join(n)
  \/ Leave
  \/ Replan

Spec == Init /\ [][Next]_<<members, route>>

========================================================================
