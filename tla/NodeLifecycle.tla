------------------------- MODULE NodeLifecycle -------------------------
(***************************************************************************)
(* The life of a node as src/src/node/state.rs defines it: the states, the *)
(* transition table behind NodeState::can_transition_to, and the two       *)
(* predicates the registry asks of a state.                                *)
(*                                                                         *)
(*   Joining -> Ready -> Active <-> Degraded -> Draining -> Left           *)
(***************************************************************************)

NodeStates ==
  {"Joining", "Ready", "Active", "Degraded", "Draining", "Left"}

\* The pairs can_transition_to answers true for.
LegalTransitions ==
  { <<"Joining",  "Ready">>,    <<"Ready",    "Active">>,
    <<"Active",   "Degraded">>, <<"Degraded", "Active">>,
    <<"Active",   "Draining">>, <<"Degraded", "Draining">>,
    <<"Draining", "Left">>,
    <<"Ready",    "Draining">>, <<"Joining",  "Left">> }

CanTransition(from, to) == <<from, to>> \in LegalTransitions

\* entry.state.transition_to(to).unwrap_or(entry.state): an illegal request
\* leaves the state as it is.
TransitionOrStay(from, to) == IF CanTransition(from, to) THEN to ELSE from

\* NodeState::can_accept_tasks, the filter of NodeRegistry::active_nodes.
CanAcceptTasks(s) == s \in {"Active", "Ready"}

========================================================================
