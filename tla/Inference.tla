--------------------------- MODULE Inference ---------------------------
(***************************************************************************)
(* One token's way through the swarm: the master starts a sequence         *)
(* (Orchestrator::start_sequence), every stage runs its layers             *)
(* (Executor::run_task over the candle backend) and sends its activations  *)
(* back, and the master forwards them to the next stage or finishes        *)
(* (Orchestrator::handle_task_result over InferencePipeline), while nodes  *)
(* join, change capacity and leave (module Swarm) and messages get lost.   *)
(*                                                                         *)
(* An activation is abstracted to the attempt whose tokens it was computed *)
(* from and the layers it went through, in order.  Logits are the          *)
(* activation the output head was applied to.  Compression and encryption  *)
(* are inverses with the one cluster key and are left out, as is the       *)
(* attention cache of the workers.                                         *)
(***************************************************************************)
EXTENDS Swarm, FiniteSetsExt

CONSTANTS
  Tasks,          \* task_id values
  SequenceIds,    \* sequence_id values
  MaxStarts,      \* bound on the calls of start_sequence
  MaxControls,    \* bound on the control-plane steps
  Lossy           \* whether the network may lose a message

ASSUME InferenceAssumption ==
  /\ TotalLayers > 0
  /\ MaxStarts \in Nat /\ MaxControls \in Nat
  /\ Lossy \in BOOLEAN

VARIABLES
  sequences,      \* InferencePipeline.active_sequences
  net,            \* ProcessTask and TaskResult messages under way
  worker,         \* the executor loop and backend of every node
  starts,         \* number of start_sequence calls; numbers the attempts
  controls,       \* number of control-plane steps
  undisturbed,    \* history: attempts nothing interfered with so far
  outcome         \* history: the Finished results, in order

dataVars == <<sequences, net, worker, starts, controls, undisturbed, outcome>>
vars     == <<swarmVars, dataVars>>

NotActive == [active |-> FALSE]
NoState   == [layers |-> <<>>, job |-> 0]     \* no tensor: an empty state
NoRange   == <<>>                             \* loaded_range of None

FreshWorker == [alive |-> TRUE, loaded |-> NoRange, hidden |-> NoState]

InferenceInit ==
  /\ Init
  /\ sequences   = [t \in Tasks |-> NotActive]
  /\ net         = {}
  /\ worker      = [n \in Nodes |-> FreshWorker]
  /\ starts      = 0
  /\ controls    = 0
  /\ undisturbed = {}
  /\ outcome     = <<>>

------------------------------------------------------------------------
(* The layer range the master puts into a task for node n: first and last  *)
(* + 1 of its assigned layers, each 0 when it has none.                    *)

LayerRange(n) ==
  IF assigned[n] = {} THEN <<0, 1>>
  ELSE <<Min(assigned[n]), Max(assigned[n]) + 1>>

\* A ProcessTask for stage index (from 0) of the route, addressed to dest.
ProcessTask(dest, t, seq, att, range, input, index) ==
  [kind |-> "ProcessTask", to |-> dest, task |-> t, seq |-> seq, att |-> att,
   range |-> range, input |-> input, nodes |-> stages, index |-> index]

\* A quiet start: the route begins at the node the task is sent to, nobody on
\* it is without layers, it covers the model, and no message of an earlier
\* attempt at the task is under way with the same sequence_id.
QuietStart(t, seq, dest) ==
  /\ dest = stages[1]
  /\ \A i \in DOMAIN stages : assigned[stages[i]] # {}
  /\ Tiles(stages, assigned)
  /\ \A m \in net : ~ (m.task = t /\ m.seq = seq)

\* Mutant: a sequence that is there already is kept.
StartSequenceOrInsert(t, seq) ==
  LET active == AcceptingTasks(state)
      first  == SortedByCapacity(active, composite)[1]
      att    == starts + 1
      older  == IF sequences[t].active THEN {sequences[t].att} ELSE {}
  IN  /\ starts < MaxStarts
      /\ active # {}
      /\ first \in PeerNodes
      /\ stages # <<>>
      /\ starts'    = att
      /\ sequences' = [sequences EXCEPT ![t] =
                         IF @.active THEN @
                         ELSE [active |-> TRUE, seq |-> seq, index |-> 0, att |-> att]]
      /\ net' = net \cup
           {ProcessTask(first, t, seq, att, LayerRange(first), NoState, 0)}
      /\ undisturbed' = (undisturbed \ older)
                          \cup (IF QuietStart(t, seq, first) THEN {att} ELSE {})
      /\ UNCHANGED <<swarmVars, controls, worker, outcome>>

\* Orchestrator::start_sequence with InferencePipeline::start_sequence.  The
\* destination and its layers come from the registry as sorted now, the route
\* from the stage list of the last rebalance.  A task that is active already
\* is overwritten.  Without an active node or a stage, or with a first node
\* whose identifier is no PeerId, nothing happens.  The initial_state of the
\* caller is taken to be empty: the entry slice embeds the tokens whatever it
\* holds.
StartSequence(t, seq) ==
  LET active == AcceptingTasks(state)
      first  == SortedByCapacity(active, composite)[1]
      att    == starts + 1
      older  == IF sequences[t].active THEN {sequences[t].att} ELSE {}
  IN  /\ starts < MaxStarts
      /\ active # {}
      /\ first \in PeerNodes
      /\ stages # <<>>
      /\ starts'    = att
      /\ sequences' = [sequences EXCEPT ![t] =
                         [active |-> TRUE, seq |-> seq, index |-> 0, att |-> att]]
      /\ net' = net \cup
           {ProcessTask(first, t, seq, att, LayerRange(first), NoState, 0)}
      /\ undisturbed' = (undisturbed \ older)
                          \cup (IF QuietStart(t, seq, first) THEN {att} ELSE {})
      /\ UNCHANGED <<swarmVars, controls, worker, outcome>>

------------------------------------------------------------------------
(* The worker.                                                             *)

\* Mutant: end_layer is taken as the last layer to run.
RunOfInclusive(range) == [i \in 1 .. (range[2] - range[1] + 1) |-> range[1] + i - 1]

\* The layers start .. end - 1 that the loaded slice really has.
RunOf(range) ==
  LET end == IF range[2] <= TotalLayers THEN range[2] ELSE TotalLayers
  IN  [i \in 1 .. (end - range[1]) |-> range[1] + i - 1]

\* Mutant: a hidden state that is there already is kept.
HiddenBeforeKept(w, m) ==
  IF w.loaded = m.range /\ w.hidden # NoState THEN w.hidden ELSE m.input

\* Mutant: the slice is loaded after the state was set, and drops it.
HiddenBeforeLoad(w, m) ==
  IF w.loaded # m.range THEN NoState
  ELSE IF m.input # NoState THEN m.input ELSE w.hidden

\* ensure_layers, then set_state unless the input is empty: another slice is
\* a new model, whose hidden state is empty.
HiddenBefore(w, m) ==
  IF m.input # NoState THEN m.input
  ELSE IF w.loaded = m.range THEN w.hidden ELSE NoState

\* run_layers: the entry slice embeds the tokens whatever it holds, any other
\* goes on from the hidden state.
Activation(w, m) ==
  LET in == IF m.range[1] = 0 THEN [layers |-> <<>>, job |-> m.att]
                              ELSE HiddenBefore(w, m)
  IN  [in EXCEPT !.layers = @ \o RunOf(m.range)]

\* A slice other than the entry needs a hidden state, else run_layers fails.
CanRun(w, m) == m.range[1] = 0 \/ HiddenBefore(w, m) # NoState

\* Executor::run_task on one task, its result sent to the master.  Logits come
\* from the slice that ends the model; the others send none.
RunTask(m) ==
  LET n   == m.to
      out == Activation(worker[n], m)
  IN  /\ m.kind = "ProcessTask"
      /\ worker[n].alive
      /\ CanRun(worker[n], m)
      /\ worker' = [worker EXCEPT ![n] =
                      [alive |-> TRUE, loaded |-> m.range, hidden |-> out]]
      /\ net' = (net \ {m}) \cup
           {[kind |-> "TaskResult", task |-> m.task, seq |-> m.seq, att |-> m.att,
             output |-> out,
             logits |-> IF m.range[2] >= TotalLayers THEN out ELSE NoState]}
      /\ UNCHANGED <<swarmVars, controls, sequences, starts, undisturbed, outcome>>

\* run_loop returns the first error of run_task: the worker takes no more
\* tasks and no result is sent.
FailTask(m) ==
  /\ m.kind = "ProcessTask"
  /\ worker[m.to].alive
  /\ ~ CanRun(worker[m.to], m)
  /\ worker' = [worker EXCEPT ![m.to] =
                  [alive |-> FALSE, loaded |-> m.range, hidden |-> NoState]]
  /\ net' = net \ {m}
  /\ UNCHANGED <<swarmVars, controls, sequences, starts, undisturbed, outcome>>

------------------------------------------------------------------------
(* The master, when a result arrives.                                      *)

\* get_next_peer_id: is there a stage after the one the task is at?
HasNextStage(t) ==
  sequences[t].active /\ sequences[t].index + 1 < Len(stages)

\* Mutant: the sequence_id of the result is not looked at.
AcceptedAnySequence(m) ==
  /\ sequences[m.task].active
  /\ HasNextStage(m.task) => stages[sequences[m.task].index + 2] \in Registered

\* handle_task_result takes the result: there is a sequence of that task with
\* the result's sequence_id, and the next stage, if any, is registered.
Accepted(m) ==
  /\ sequences[m.task].active
  /\ sequences[m.task].seq = m.seq
  /\ HasNextStage(m.task) => stages[sequences[m.task].index + 2] \in Registered

\* Mutant: the ticket is built before the index moves on.
ForwardResultOldTicket(m) ==
  LET s    == sequences[m.task]
      dest == stages[s.index + 2]
  IN  /\ m.kind = "TaskResult"
      /\ Accepted(m) /\ HasNextStage(m.task)
      /\ sequences' = [sequences EXCEPT ![m.task].index = @ + 1]
      /\ net' = (net \ {m}) \cup
           {ProcessTask(dest, m.task, m.seq, s.att, LayerRange(dest), m.output, s.index)}
      /\ UNCHANGED <<swarmVars, controls, worker, starts, undisturbed, outcome>>

\* NextStage: the index moves on and the activations go to the next stage,
\* with the layers it is assigned now and the tokens of the active sequence.
ForwardResult(m) ==
  LET s    == sequences[m.task]
      dest == stages[s.index + 2]
  IN  /\ m.kind = "TaskResult"
      /\ Accepted(m) /\ HasNextStage(m.task)
      /\ sequences' = [sequences EXCEPT ![m.task].index = @ + 1]
      /\ net' = (net \ {m}) \cup
           {ProcessTask(dest, m.task, m.seq, s.att, LayerRange(dest), m.output,
                        s.index + 1)}
      /\ UNCHANGED <<swarmVars, controls, worker, starts, undisturbed, outcome>>

\* Mutant: a finished sequence stays in active_sequences.
FinishSequenceKept(m) ==
  LET att == sequences[m.task].att
  IN  /\ m.kind = "TaskResult"
      /\ Accepted(m) /\ ~ HasNextStage(m.task)
      /\ net' = net \ {m}
      /\ outcome' = Append(outcome,
           [att |-> att, quiet |-> att \in undisturbed, logits |-> m.logits])
      /\ UNCHANGED <<swarmVars, controls, sequences, worker, starts, undisturbed>>

\* Finished: the sequence is removed and its result's logits are the answer.
FinishSequence(m) ==
  LET att == sequences[m.task].att
  IN  /\ m.kind = "TaskResult"
      /\ Accepted(m) /\ ~ HasNextStage(m.task)
      /\ sequences' = [sequences EXCEPT ![m.task] = NotActive]
      /\ net' = net \ {m}
      /\ outcome' = Append(outcome,
           [att |-> att, quiet |-> att \in undisturbed, logits |-> m.logits])
      /\ UNCHANGED <<swarmVars, controls, worker, starts, undisturbed>>

\* None: no such sequence, another sequence_id, or a next stage that is gone.
DropResult(m) ==
  /\ m.kind = "TaskResult"
  /\ ~ Accepted(m)
  /\ net' = net \ {m}
  /\ UNCHANGED <<swarmVars, controls, sequences, worker, starts, undisturbed, outcome>>

------------------------------------------------------------------------
(* The network and the membership.                                         *)

\* A libp2p request that fails: p2p.rs ignores outbound failures.
Lose(m) ==
  /\ Lossy
  /\ net' = net \ {m}
  /\ UNCHANGED <<swarmVars, controls, sequences, worker, starts, undisturbed, outcome>>

\* A control-plane step.  An attempt under way is undisturbed as long as no
\* step changes the stage list or anybody's layers.
ControlStep ==
  /\ controls < MaxControls
  /\ controls' = controls + 1
  /\ \/ \E n \in Nodes, c \in Composites : Announce(n, c) \/ StatusUpdate(n, c)
     \/ \E n \in Nodes : Drain(n)
  /\ undisturbed' = IF UNCHANGED <<assigned, stages>> THEN undisturbed ELSE {}
  /\ UNCHANGED <<sequences, net, worker, starts, outcome>>

InferenceNext ==
  \/ \E t \in Tasks, seq \in SequenceIds : StartSequence(t, seq)
  \/ \E m \in net : RunTask(m)
  \/ \E m \in net : FailTask(m)
  \/ \E m \in net : ForwardResult(m)
  \/ \E m \in net : FinishSequence(m)
  \/ \E m \in net : DropResult(m)
  \/ \E m \in net : Lose(m)
  \/ ControlStep

InferenceSpec == InferenceInit /\ [][InferenceNext]_vars

\* Scheduling: an executor loop awaits its next task and the master its next
\* result, so a message of a task that is under way is not ignored for ever.
Fairness ==
  \A t \in Tasks :
    WF_vars(\E m \in net : m.task = t /\
              (RunTask(m) \/ FailTask(m) \/ ForwardResult(m)
                 \/ FinishSequence(m) \/ DropResult(m)))

FairInferenceSpec == InferenceSpec /\ Fairness

------------------------------------------------------------------------
(* Properties.                                                             *)

Activations == [layers : Seq(Layers), job : 0 .. MaxStarts]

Messages ==
  [kind : {"ProcessTask"}, to : PeerNodes, task : Tasks, seq : SequenceIds,
   att : 1 .. MaxStarts, range : Nat \X Nat, input : Activations,
   nodes : Seq(PeerNodes), index : Nat]
  \cup
  [kind : {"TaskResult"}, task : Tasks, seq : SequenceIds, att : 1 .. MaxStarts,
   output : Activations, logits : Activations]

\* Every variable of the data plane holds a value of its kind.
InferenceTypeOK ==
  /\ sequences \in [Tasks -> {NotActive} \cup
       [active : {TRUE}, seq : SequenceIds, index : Nat, att : 1 .. MaxStarts]]
  /\ net \subseteq Messages
  /\ \A n \in Nodes : worker[n].alive \in BOOLEAN /\ worker[n].hidden \in Activations
  /\ undisturbed \subseteq 1 .. starts
  /\ outcome \in Seq([att : 1 .. MaxStarts, quiet : BOOLEAN, logits : Activations])

\* The right answer of an attempt: its own tokens through every layer once,
\* in order.
WholeModel(att) == [layers |-> [i \in 1 .. TotalLayers |-> i - 1], job |-> att]

\* "The pipeline has finished; these are the final logits"
\* (src/src/pipeline.rs:39) holds of an attempt that started quietly and saw
\* no change of the plan: whatever other tasks ran on the same workers, whatever
\* hidden states they left there, whatever results of an earlier attempt with
\* another sequence_id came late, its logits are its own tokens' after the
\* whole model.
FinishedIsComplete ==
  \A i \in DOMAIN outcome :
    outcome[i].quiet => outcome[i].logits = WholeModel(outcome[i].att)

\* An undisturbed sequence has at most one message of its sequence_id under
\* way, and the message is the one its index stands for: the task is addressed to that stage, with
\* that stage's layers, the ticket names it, and the activations have gone
\* through exactly the layers before it (after it, for a result).
MessageMatchesStage ==
  \A t \in Tasks : sequences[t].active /\ sequences[t].att \in undisturbed =>
    LET own  == {m \in net : m.task = t /\ m.seq = sequences[t].seq}
        at   == stages[sequences[t].index + 1]
        upTo(l) == [layers |-> [i \in 1 .. l |-> i - 1], job |-> sequences[t].att]
    IN  /\ Cardinality(own) <= 1
        /\ \A m \in own :
             \/ /\ m.kind = "ProcessTask"
                /\ m.to = at /\ m.range = LayerRange(at)
                /\ m.nodes[m.index + 1] = at
                /\ m.input = IF m.index = 0 THEN NoState ELSE upTo(m.range[1])
             \/ /\ m.kind = "TaskResult"
                /\ m.output = upTo(LayerRange(at)[2])

\* An attempt finishes at most once: no late or superseded result draws a
\* second answer, be it the same, out of an attempt that has given one.
FinishedOnce ==
  \A i, j \in DOMAIN outcome : outcome[i].att = outcome[j].att => i = j

\* The task that ends an executor loop (run_task's error ends run_loop) is the
\* first of its attempt, sent to a node whose slice does not begin the model;
\* a forwarded task finds its hidden state on whatever worker it reaches,
\* whatever the slice and the tasks it had before, and an undisturbed sequence
\* never ends a loop.
ForwardedTasksRun ==
  \A m \in net : m.kind = "ProcessTask" /\ ~ CanRun(worker[m.to], m) =>
    LET s == sequences[m.task]
    IN  /\ m.index = 0
        /\ ~ (s.active /\ s.att \in undisturbed /\ m.seq = s.seq)

\* Unless a worker's loop died or the swarm emptied, a sequence that is active
\* comes to an end, however often the plan changes under it: every result it
\* draws moves it one stage on.
SequencesEnd ==
  \A t \in Tasks :
    sequences[t].active
      ~> \/ ~ sequences[t].active
         \/ \E n \in Nodes : ~ worker[n].alive
         \/ Registered = {}

------------------------------------------------------------------------
(* What the data plane promises to whoever asks for a token.               *)

\* The attempt that is under way at task t, 0 when there is none.
AttemptAt(t) == IF sequences[t].active THEN sequences[t].att ELSE 0

\* What is seen of a Finished result: whose it is, and whether its logits are
\* those of the whole model.
AnswerOf(o) == [att |-> o.att, right |-> (o.logits = WholeModel(o.att))]

Promise == INSTANCE Answers WITH
             begun   <- starts,
             current <- [t \in Tasks |-> AttemptAt(t)],
             trusted <- undisturbed,
             answers <- [i \in DOMAIN outcome |-> AnswerOf(outcome[i])]

\* The master, the stages and the network together implement Answers: only
\* handle_task_result answers, it answers the attempt that was begun last at
\* the task and thereby ends it, and no step of a worker, a forwarded, dropped
\* or lost message shows; no plan change or loss makes a trusted answer wrong.
ImplementsAnswers == Promise!Spec

------------------------------------------------------------------------
(* What comments of the code say and the code does not do.                 *)

\* "The pipeline has finished; these are the final logits." of every attempt
\* (src/src/pipeline.rs:39).
EveryFinishIsComplete ==
  \A i \in DOMAIN outcome : outcome[i].logits = WholeModel(outcome[i].att)

\* "Index of the node currently processing the task." (src/src/pipeline.rs:16):
\* the ticket of a task names the node the task is sent to.
TicketNamesProcessor ==
  \A m \in net : m.kind = "ProcessTask" => m.nodes[m.index + 1] = m.to

\* "finish tasks, then disconnect" (src/src/protocol.rs:75): a node is
\* registered as long as a task that was sent to it is unanswered.
DrainFinishesTasks ==
  \A m \in net : m.kind = "ProcessTask" => m.to \in Registered

========================================================================
