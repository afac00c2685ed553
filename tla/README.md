# neural-swarm-ai in TLA+

A master splits the layers of a language model among the devices of a swarm and
drives every token through them.  This directory models that system, checks the
models with TLC and proves with TLAPS every safety property that TLC finds to
hold. The crate is in `src/src`; every definition names the code it stands for,
and `PROJECT.json` has the lines.

## Inventory

| component | state | operations | what makes it correct |
|---|---|---|---|
| node life cycle, `node/state.rs` | one `NodeState` per node | `transition_to`, `can_accept_tasks` | no registered node is left in a transient state |
| node registry, `node/registry.rs` | entries: state, status, capacity, assigned layers, last heartbeat | register, mark_ready, update_status, heartbeat, remove, sorted_by_capacity, assign_layers | the entries of the nodes on the route fit together |
| orchestrator, control plane, `orchestrator.rs` | the registry behind a RwLock | handle_announce, handle_status_update, handle_drain, handle_heartbeat, prune_dead_nodes, rebalance_layers | the layers of the stages cover the model, each once and in order |
| pipeline, `pipeline.rs`, and orchestrator, data plane | active sequences, stage list | start_sequence, handle_task_result, update_stages | a finished sequence has run the whole model on its own tokens; every sequence ends |
| executor and candle backend, `executor.rs`, `candle_backend.rs` | resident slice, hidden state, attention cache | run_loop, run_task, ensure_layers, set_state, run_layers | a task runs on its own hidden state and slice, whatever ran before |
| quantized model, `quantized_llama.rs` | attention cache of each layer | forward_attn, from_gguf_partial | the cache is that of one generation, each position once |
| p2p, `p2p.rs` | two channels of 100, the libp2p swarm | one event loop | messages reach the executor and the master, or are lost |
| websocket transport, `transport.rs` | one handler per socket, its authenticated id and session key | handshake, dispatch, drain on close; `connect_to_cluster` | the registry follows the served connections; a handshake with the right secret succeeds |
| capacity and monitor, `compute/` | last reported status | compute, delta, sample, run | composite within bounds, nothing significant goes unreported |
| remote reader, `remote.rs` | position, one buffer | read, seek, prefetch | reads return the file's bytes at the position |
| crypto, `crypto.rs` | none | sign, verify, derive, encrypt, decrypt | both sides derive one key, and only they |
| other backends, examples | none of their own | | not modelled |

How they interact.  A worker's websocket handler calls the orchestrator's
control handlers; each takes the registry's write lock for its whole body and,
when it rebalances, the pipeline's lock inside it.  The data plane takes the
registry's read lock and then the pipeline's write lock.  So each handler is
atomic, and the order of the locks is the same everywhere.  Tasks and results
travel as p2p messages.  Shared between both planes are the assigned layers (in
the registry) and the stage list (in the pipeline): two views of one plan that
a rebalance writes together and other handlers read apart.

What is hard here: a status change reorders the registry without rewriting the
stage list; a plan may change while a sequence is half way; degraded nodes keep
layers of an old plan; results are matched by task and sequence number only;
the hidden state in a worker outlives its task; a worker loop ends at its first
error; messages get lost; a device connects again while the master still serves
its old connection, whose end drains it by name; the monitor and the registry
measure change differently; range requests are answered short or with nothing.
`PROJECT.json` lists the hazards with their lines.

## Modules

| module | models |
|---|---|
| `NodeLifecycle` | the states and the transition table |
| `LayerPlan` | the arithmetic of `rebalance_layers`: order, shares, slices |
| `FairShares` | the division as it should come out: a reference definition by sums, and the proportions |
| `LayerRoute` | the abstract control plane: members, and a route that is empty or covers the model |
| `Swarm` | registry, handlers and stage list; one action per handler |
| `Answers` | the abstract data plane: attempts begun, and at most one answer to each |
| `Inference` | sequences, messages and workers on top of `Swarm` |
| `Crypto` | the functions of the handshake, as terms |
| `Connections` | the websocket connections on top of `Swarm` and `Crypto` |
| `Capacity` | reservations, penalties, composite score and `delta` |
| `Telemetry` | the monitors of the devices, and what the master knows of them |
| `MCLayerPlan` | `LayerPlan` against `FairShares`, over the composites of `Telemetry` |
| `AttentionCache` | the backend of one worker: resident slice and attention cache |
| `ByteFile` | the abstract reader: `read_exact` and `seek` on a file |
| `RangeReader` | `HttpRangeReader` under a caller's `read_exact` |
| `LayerPlanProofs`, `SwarmProofs`, `SwarmRefinementProofs`, `AttentionCacheProofs`, `TelemetryProofs`, `RangeReaderProofs`, `ConnectionsProofs`, `InferenceProofs` | the theorems and their lemmas |

`Swarm` has a variable for each field of an entry (`state`, `composite`,
`assigned`, `age` for `last_heartbeat`) and one for the stage list.  `Announce`,
`StatusUpdate`, `Drain`, `Heartbeat` and `PruneDeadNodes` are the handlers;
`Rebalance` is part of each of them that calls `rebalance_layers`, never a step
of its own.  `Tick` lets time pass.  Nobody in the crate calls
`prune_dead_nodes`; it is a public operation and is modelled as one that may
happen at any time.

`Inference` adds the data plane.  An activation is the attempt whose tokens it
came from and the list of layers it went through; that is what the properties
tell apart.  Workers have a resident slice, a hidden state and a loop that may
have ended.  `RunTask` is `run_task` followed by the delivery of the result,
`FailTask` the error that ends the loop, `ForwardResult`, `FinishSequence` and
`DropResult` the three answers of `handle_task_result`.  `starts` and
`controls` count towards the bounds; `undisturbed` and `outcome` are history
for the properties.  `outcome` is the list of the Finished results in order, so
that a second answer shows even if it is the same.

`Answers` is what is left of `Inference` for whoever asks for a token: attempts
are begun, the last one begun at a task may be answered, once, and rightly if
nothing disturbed it.  `Promise` maps `starts`, the attempts of the active
sequences, `undisturbed` and `outcome` (of each entry whose it is and whether it
is right) onto it; workers, forwarded and lost messages are invisible steps.
That a plan change takes away all certainty is `Disturb`: the code promises
nothing to a sequence whose plan changed under it.

`FairShares` says without a loop what `rebalance_layers` is to hand out, and
`IsProportional` how far rounding may take it from exact proportions.
`LayersFollowCapacity` asks both of every step of `Swarm` that writes a plan,
with the scores and members after the step.

`AttentionCache` takes one worker alone and asks it for anything: any task, any
range of layers, any position, in any order.  That is more than the master of
`Inference` asks, and on purpose: p2p messages overtake each other, tasks
interleave, plans change, and the backend cannot tell.  `Call` is `run_task`
with all it does: `Resident` is `load_layer_range`, `LoadSlice` the clamping and
the choice of embeddings and head of `from_gguf_partial`, `Extended` the cache
of `forward_attn`, `WhatFails` the ways `run_layers` fails, each of which ends
`run_loop`.  A cached key is the task and position it was computed for.  One
cache stands for those of all layers of the slice: they are loaded together and
run together.  `log` is history.

`Connections` has two queues for each connection and where its two ends are.
`Connect`, `Respond` and `Join` are `connect_to_cluster`; `Authenticate`, the
`Handle...` actions, `CloseEarly` and `Close` are `handle_socket`, each with the
registry's handler it calls and the answer it sends.  No other task can come
between: `handle_socket` awaits only its socket.  A client may go at any time,
and a prefix of what it sent still arrives before the stream ends.  The same
device may be on several connections.  `announced` and `rival` are history: the
first says that this handler entered the device and nothing has drained it
through this handler, the second that another handler was serving the same
identity meanwhile.  What the transport does in that case is in the model: the
close of the old connection takes the device out although the new one is served,
which `ServedIsRegistered` excuses by `rival`, and a mismatched announce leaves
its entry behind, which `RegisteredIsServed` names.  `OnlyItsDevice` looks at
the connection that takes the step (`Acting`): an entry comes and goes only in a
step of the handler that serves this very device, on its announce, its drain
request or the end of its stream, also while the device has other connections.
`Tick` and `PruneDeadNodes` are left to `Swarm`.

`Crypto` is symbolic: a token or a ciphertext is the record of what it was made
from, and the session key is the set of both public keys with the salt.

`Capacity` counts CPU in twentieths, memory in 256 MB and latency in 100 ms, so
that every constant of the code is whole; a composite is an exact number of
`1 / Unit`.  In `Telemetry` `entry` is the status the master has, `reported` the
monitor's `last_reported`, `sampled` the newest sample.  The crate leaves to the
application to forward what the monitor publishes; the devices in `Forwarding`
have one that does, at once.

`RangeReader` splits a `read_exact` into its calls of `read`, one action each by
the way `read` takes: end of file, buffer, request, failed request.  A byte is
its offset in the file.  An answer may be any part of the range from its start
on, the empty one included: `fetch` takes what comes, and `read` then returns
Ok(0) wherever in the file that is, which a caller takes for its end, although
the comment of `fetch` (`remote.rs:62`) promises at least `want` bytes.  The
model keeps this outcome apart as "cut".  `ByteFile` is the contract, where
`read_exact` is one step, which may fail with an error or be cut, and reports
"eof" only where the file ends; while one is under way the abstract position is
where it began, so that buffers, widened ranges and short answers are invisible
steps.  `origin` and `fetched` are history.

Abstractions that matter:

- A composite score is a whole number of twentieths.  All thresholds of
  `update_status` are multiples of one.  The f32 arithmetic is exact here, so a
  delta that the code's rounding puts on the other side of 0.15 is not seen.
- Node identifiers are numbers compared like the strings; those in `PeerNodes`
  parse as PeerIds.
- A set of layers stands for the ascending vector; slices are contiguous.
- Compression and encryption are inverses under the cluster key.  The worker's
  attention cache is not in `Inference`, the hidden state not in
  `AttentionCache`; a hidden state that was itself computed on a wrong context
  further up the pipeline is seen by neither.
- Loading a slice never fails.
- The `initial_state` a caller gives `start_sequence` is taken to be empty.  The
  entry slice embeds the tokens whatever it holds; only a first node whose slice
  does not begin at layer 0 (the case of `TicketNamesProcessor`) would go on from
  the caller's bytes where the model has it fail or go on from an old state.
- All devices of `Telemetry` have the same total memory, and the composites are
  exact: a change that rounding puts on the other side of a threshold is not
  seen.  A latency of 0 stands for none.
- The server of `RangeReader` keeps to the range it was asked for, and may answer
  with less or nothing.  One that ignores the header and sends the whole file
  with status 200 is not modelled: `fetch` does not ask for 206 and would take
  its first bytes for those of the range.
- The network of `Connections` reports the end of a stream whose client is gone.
  A client that vanishes without a trace would be served for ever; only
  `prune_dead_nodes` removes it, and nothing in the crate calls that.

## Runs

| run | question | bounds |
|---|---|---|
| `swarm_peers` | does the stage list always cover the model, and does the control plane implement `LayerRoute`? | 3 nodes, 5 layers, scores 0, 3, 5 |
| `swarm_mixed` | what remains when a node's id is no PeerId; does a new plan follow the new composites? | 3 nodes, one without PeerId, 3 layers, scores 0, 1, 5 |
| `plan_rounding` | does the monitor withhold anything significant; is the loop the sum it should be, how far does rounding go? | 4 nodes of 32 GB, one forwarding its statuses, 2 CPU and 3 memory levels, 1 latency; 7 layers |
| `connections` | does the registry follow the served connections, and does every handshake with the right secret succeed and end? | 2 devices, 3 connections, one with a wrong secret, 1 application message, 2 scores |
| `range_reader` | is the reader a file to its caller, but for a request answered with nothing? | 6 bytes, read-ahead 2, reads of 1, 2, 4, seeks by 0, 1, 3, 5, 7 up to 8 |
| `inference` | does an undisturbed sequence compute the whole model, whatever else happens, which tasks end a worker, and is the data plane one of `Answers`? | 2 nodes, 3 layers, 2 tasks, 2 starts, 4 control steps, losses |
| `inference_live` | does every sequence end? | as above, 1 task, no losses |
| `attention_cache` | which calls attend to their own prefix, and do they run the layers they ask for? | 2 tasks, slices between 0 .. 4 of a model of 3 layers, rotary tables of 3 positions, chunks of 1 and 2, 3 calls between starts |
| `cache_kept` | does the cache survive as its comment says? | as above |
| `finished`, `ticket`, `drain` | three statements of comments that the code does not keep | 2 nodes, 1 start |

Scores 0, 3 and 5 give every case of a status: a node degrades (0), recovers
without a rebalance (0 to 3), changes order without a rebalance (3 and 5) and
rebalances (0 and 5); scores 0, 1, 5 add two degraded values that differ.  With
5 layers the shares of two equal nodes round up, so that the cut at the end of
the model and an empty last slice occur.  Three nodes are needed for a middle
slice, and for one node to rebalance while another is stale.  `PruneAfter` is 0:
an age is fresh or dead.  In `Inference` the counters `MaxStarts` and
`MaxControls` bound the behaviours, so those runs stop in states without a
successor and do not check for deadlock; two nodes announce and two more control
steps still disturb them.  Ages do not matter there and `Tick`, `Heartbeat` and
`PruneDeadNodes` are left out; a pruned node is a drained one.

In `attention_cache` the slice ends go one past the model, so that ranges occur
which reach over its end (the master believes in more layers than the file has)
and which lie behind it.  `MaxSeqLen` 3 lets a prompt of two tokens and a further
token fit and the next one fail.  Three calls are what it takes to move a slice
away and back, or to repeat a position; a wrong context never comes right again
but by a prompt, so longer logs repeat these cases, and the proof covers them.

In `connections` two connections of the right secret are what a device needs to
be served twice, and two devices what it takes to name a foreign one; the third
is the refused one.  `MaxSends` is a bound on the application, not on the
handshake: one message of any kind from any joined client reaches each handler,
and sequences of them are `Swarm`'s, which has no such bound; the proofs have
none either.  `FirstScores` fixes the composite of an announce.  All connections
end, so the run does not check for deadlock.

In `plan_rounding` the devices have 6, 12, 18 and 24 cores: two desktops and two
servers.  The memory levels, 2, 42 and 82 of 128, are a step of 0.094 apart in
`delta`, just below the monitor's 0.10, and of 0.125 in the composite; two steps
must be reported, since unreported they would be 0.25 of the composite.  CPU idle
or full gives the large changes and the composites of zero.  The latency of
400 ms takes a fifth off the composite of an announce, and nothing off that of a
later status, so that equal and close composites of different devices occur.

In `range_reader` a read of 4 takes up to four short answers, one of none ends
it, the read-ahead of 2 is larger and smaller than a read, reads end before, at
and behind the end of the file, and seeks go behind it and back into a buffer.
There is always a next call, so deadlock is checked.

`EveryFinishIsComplete`, `TicketNamesProcessor`, `DrainFinishesTasks` and
`CacheMaintained` are violated; `PROJECT.json` quotes the comments and says what
happens.  The drain that `drain` shows is that of the only
node: it is unregistered with its task unanswered, though still on the stage list,
since an empty registry is not rebalanced; `finished` has one of two nodes drain,
whose result then meets a list it is not on.

`FinishedIsComplete` and `MessageMatchesStage` are the statements that do hold:
of a sequence that starts with the ticket and the destination in agreement,
with no layerless stage, with no older message of its task and sequence_id
around, and whose plan does not change.  Messages of an older attempt at the task
with another sequence_id may be around: their results come late and must be
dropped, and a master that does not look at the sequence_id breaks both.  Results
of an older attempt with the same sequence_id are taken for the new one's; of
that case `FinishedOnce` and `ImplementsAnswers` say that it draws no second
answer, not that the answer is right.

`ForwardedTasksRun` says which tasks can end an executor loop: the first one of
an attempt, when the node it is sent to does not hold the first slice, and no
other.  A forwarded task brings its state with it, which must survive the loading
of its slice.

Fairness.  `FairInferenceSpec` assumes for each task that a message of it which
can be taken is taken at last: the executor loop awaits its channel and the
master its results, neither chooses what to ignore.  Nothing is assumed of the
membership, of `start_sequence` or of the network, which in `inference_live`
does not lose messages: with losses the code has no retry and sequences may stay
in `active_sequences` for ever.  `SequencesEnd` excuses a worker whose loop
ended and an empty swarm.

`FairConnSpec` assumes that each `handle_socket` and each `connect_to_cluster`
that can go on does: they are tasks of a runtime that await nothing but their
socket.  Nobody has to connect, to send or to go.  The server's part is written
out with `ServerReady`, which says when a server step is enabled.  Under it
`GoneIsForgotten` holds, devices whose clients are gone leave the registry, and
`HandshakeEnds`.

## Proofs

`LayerPlanProofs` proves of `rebalance_layers`' arithmetic, for any finite set
of nodes, any scores and any number of layers: `PlanTiles`, the slices cover the
model in capacity order.  On the way: there is a sorted list of any finite set
(`SortedByCapacityIsSorted`, by least counterexample over subsets), the loop is
what its body says (`AccumulateLoop`), the cuts climb from 0 to the last layer
(`CutsMonotonic`).

It also proves what the loop computes.  `PlanFollowsSums`: each node has the
layers between the sum of the shares ahead of it and that sum with its own.
`PlanIsProportional`: a slice begins within k / 2 layers of its exact place
behind k nodes, so rounding errors add up no faster than that.  A sum over a set
is a fold whose recursion picks elements by `CHOOSE`; the proofs read it from
its table over all subsets (`SumTableStep` shows that there is one) and prove
that the order of summation does not matter (`SumOverRemove`).  Since an
induction theorem cannot be instantiated here, `PositionInduction` and
`SubsetInduction` state it for explicit sets of numbers and subsets, from a least
counterexample.

`SwarmProofs` proves the five state invariants of the control plane for any
nodes, scores, layers and timeout.  The inductive invariant `IInv` is their
conjunction.  None of the route invariants is inductive alone: a departure needs
`StagesRegistered` to know that a rebalance drops the departed, and a status
update that does not rebalance needs `TypeOK` and the order of the old list.  The
argument: an action either rebalances (`RebalanceEstablishes`, from the lemmas
about plans) or changes nothing the route invariants read (`QuietStep`), or
removes the last node (`RemovalKeeps`).  Assumed: node identifiers are natural
numbers and finitely many, scores, layers and the timeout are natural numbers.

The action properties `LayersMoveTogether` and `DegradedKeepsLayers` follow from
`IInv`: a rebalance never changes which nodes accept tasks, so the list it wrote
before the Ready nodes became Active is the list of those active after it
(`RebalanceTogether`).  `LayersFollowCapacity` needs in addition that a rebalance
plans with the scores and states of after the step (`RebalanceIsFair`, from the
two theorems on plans); the other handlers move no layers of a registered node.

`SwarmRefinementProofs` proves that the control plane implements `LayerRoute`
when every identifier is a PeerId.  It needs one more conjunct, `StagesDistinct`:
two stages without layers are in order even if they are the same node.  Each
handler is either quiet, or empties the registry, or is a rebalance after one
node became Ready (a `Join`) or after some left or none did (a `Leave` or
`Replan`).

`AttentionCacheProofs` proves the four invariants of `AttentionCache` for any
tasks, slices, chunk lengths and any number of calls.  `ContextIsOwnPrefix` is an
equivalence, and the direction that matters more, that a right-looking cache is
only ever the result of an uninterrupted generation, needs `LastCall`: the
newest entry and the resident slice are those of the last call, so that a call
of another task or another slice cannot extend a cache it did not make.
Assumed: layers and lengths are natural numbers, chunks are not empty.

`TelemetryProofs` proves that a composite is between zero and one for every
device and status (`CompositeInRange`), and `UnreportedIsInsignificant` for any
devices, samples and latencies.  The argument is arithmetic: the clamps do not
stretch a difference, so the composite moves by at most 0.6 of the CPU's change
and 0.4 of the memory's, which 4/3 of `delta` bounds; so 0.10 of the one is at
most 0.133 of the other, below 0.15.  The inductive part is that the entry of a
device whose monitor has reported is the status reported, which a new announce
resets.  More load, heat or latency, or less memory, never raises a composite
(`CompositeIsMonotonic`).  With composites being natural numbers the two
theorems on plans carry over to whatever the monitors report
(`TelemetryPlanIsBySums`, `TelemetryRoundingIsBounded`), for finitely many
devices, which `MCLayerPlan` assumes.

`RangeReaderProofs` proves the invariants of the reader and that it implements
`ByteFile`, for any length of file, read-ahead, calls and answers.  `IInv` says
that the buffer is a piece of the file, that a call under way has collected
exactly the bytes from its beginning to `pos`, that the last outcome is one of
the file, and that what was fetched lies between the last seek and the end of
the buffer.  The heart is `CopiedBytes`: what `read` copies out of a buffer that
holds `pos` is the file's bytes at `pos`, at least one.  A `read` that gives
nothing ends the call as "eof" at the end of the file and as "cut" before it
(`FailureImplements`). Assumed: lengths and offsets are natural numbers, and
reads are not empty.

`ConnectionsProofs` proves the safety of the connections for any devices and any
number of connections and messages.  Every action does one of six things to the
registry and the handlers, of which only `Registers` and `Removes` change who is
registered; and for the registry each action is a step of `Swarm` or none, so
the connections implement `Swarm` (`ConnectionsImplementSwarm`), and every
theorem on the control plane holds of the program with its sockets.  The
inductive invariant adds `LinkInv` and `EntryInv`.  `LinkInv` says of each
connection where its handshake is: four stages, with what is in the two queues
in each, which is why the message after the challenge is always the JoinResponse
and opens with the client's key. `EntryInv` is about the registry;
`EntriesAreTheirOwn` needs besides that a step has one acting connection
(`ReaderActs`, `ReturnerActs`); `ServedIsRegistered` is not inductive without
`RivalsKnown`: of two handlers that serve one identity, one that has announced
it has `rival` set. Assumed: the connections are numbered and finitely many, and
`None` is no device.

`InferenceProofs` proves the five invariants of `Inference` for any nodes,
layers, tasks, sequence ids and bounds, with or without loss.  Every step of it
is one of `Swarm` for the registry and the stage list or none
(`InferenceImplementsSwarm`), so `IInv` holds of it.  Then three invariants,
each over the one before: `TypeInv`; `AttemptInv`, that an attempt belongs to
one active sequence until it has finished and to none after, which
`FinishedOnce` needs; and `QuietInv`, that the message of an undisturbed
sequence is the only one of its task and sequence_id and the one its index
stands for.  The arithmetic is in two lemmas: along a route that tiles the model
the slices begin at layer 0, meet and end at the last layer (`RouteBounds`), and
running a slice where the layers below it end gives the layers below its own end
(`RunsOn`).  With them the worker's result follows whatever hidden state it held
(`QuietRun`), the next task from the result (`ForwardKeeps`), and the answer
from the last (`FinishKeeps`). `ForwardedTasksRun` needs a fourth, `StateInv`:
every result and every task that was forwarded carries a state computed from
somebody's tokens. Assumed in addition: the model has a layer.

On top of these invariants `Inference` implements `Answers`
(`InferenceImplementsAnswers`).  Starting a sequence is a `Begin`, for which the
attempt it overwrites must leave the undisturbed ones with it (`StartBegins`); a
finish is an `Answer`, whose rightness is `FinishedIsComplete` after the step
(`FinishAnswers`); a change of the plan is a `Disturb`; a forwarded result
changes a sequence but not its attempt, and nothing else is seen.

Only model-checked: liveness (`SequencesEnd`, `GoneIsForgotten`,
`HandshakeEnds`), which is out of TLAPS's reach.

## Plan

1. Done: `NodeLifecycle`, `LayerPlan`, `LayerRoute`, `Swarm` and all their
   proofs with the refinement; `Inference`, `MCLayerPlan`; `AttentionCache` and
   its proofs.
2. Done: `Connections` over `Swarm` with `Crypto`; `RangeReader` against
   `ByteFile`; `Capacity` and `Telemetry` under `MCLayerPlan`; the proofs of all
   three.
3. Done: the proofs of `Inference`, and that it implements `Swarm` and `Answers`;
   the plan by sums and its proportions, and that every rebalance follows them.
4. When the crate joins the p2p channels to `run_loop` or to the orchestrator:
   the bounded channels and who waits for whom.

## Not modelled

- Tensor arithmetic, ciphers and compression: pure functions over data.
- Serialisation, and bytes that do not deserialise: the handlers skip them.
- The p2p channels.  `setup_p2p_node` hands both ends to the application, and
  no loop in the repository reads or fills them; `run_loop` has channels of its
  own, of messages without a peer.  Whether a full channel can stop anything
  depends on code that is not there.
- Forwarding the monitor's statuses: both examples drop or ignore the receiver.
- Loading models from files and URLs before the worker loop starts.
- The stub backends and the example programs.
