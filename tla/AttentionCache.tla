------------------------ MODULE AttentionCache -------------------------
(***************************************************************************)
(* The backend of one worker over many calls: the slice of the model that  *)
(* load_layer_range keeps resident (src/src/candle_backend.rs,             *)
(* ModelWeights::from_gguf_partial of src/src/quantized_llama.rs) and the  *)
(* attention cache that forward_attn keeps in every layer of it.           *)
(*                                                                         *)
(* The environment may ask for any call in any order: tasks interleave,    *)
(* p2p messages overtake each other, sequences are started again, and a    *)
(* rebalance moves slices between two calls.  A cached key and value is    *)
(* abstracted to the task and position it was computed for.  All layers of *)
(* a slice are called alike, so one cache stands for all of them.  Hidden  *)
(* states are the subject of Inference and are taken to be there.          *)
(***************************************************************************)
EXTENDS Integers, Sequences

CONSTANTS
  Tasks,          \* the generations that share the worker
  SliceEnds,      \* the layer numbers a slice may start and end at
  ModelLayers,    \* block_count of the model file
  MaxSeqLen,      \* MAX_SEQ_LEN, the length of the rotary tables
  ChunkLens,      \* numbers of tokens in a call
  MaxCalls        \* bound on the calls between two starts of the worker

ASSUME AttentionCacheAssumption ==
  /\ SliceEnds \subseteq Nat
  /\ ModelLayers \in Nat \ {0} /\ MaxSeqLen \in Nat /\ MaxCalls \in Nat
  /\ ChunkLens \subseteq Nat \ {0}

\* The slices <<start_layer, end_layer>> a task may ask for: the master never
\* sends an empty one.
Ranges == {r \in SliceEnds \X SliceEnds : r[1] < r[2]}

VARIABLES
  model,          \* the resident slice, NoModel before the first load
  cache,          \* kv_cache, oldest entry first; <<>> is None
  failure,        \* why run_loop returned, "none" while it runs
  log             \* history: the calls since the worker started

cacheVars == <<model, cache, failure, log>>

NoModel == [range |-> <<>>]

Init ==
  /\ model = NoModel /\ cache = <<>>
  /\ failure = "none" /\ log = <<>>

------------------------------------------------------------------------
(* Loading a slice.                                                        *)

AtMost(x, y) == IF x <= y THEN x ELSE y
AtLeast(x, y) == IF x >= y THEN x ELSE y

\* Mutant: the output head is loaded for the range that ends at the last layer.
LoadSliceExact(range) ==
  LET start == AtMost(range[1], ModelLayers)
      end   == AtLeast(AtMost(range[2], ModelLayers), start)
  IN  [range |-> range, offset |-> start, count |-> end - start,
       embeddings |-> start = 0, head |-> range[2] = ModelLayers]

\* from_gguf_partial: the range clamped to the model, the embeddings for the
\* slice that begins the model, the output head for the one that ends it.
LoadSlice(range) ==
  LET start == AtMost(range[1], ModelLayers)
      end   == AtLeast(AtMost(range[2], ModelLayers), start)
  IN  [range |-> range, offset |-> start, count |-> end - start,
       embeddings |-> start = 0, head |-> end >= ModelLayers]

\* Mutant: a slice is kept when it begins at the right layer.
ResidentByStart(range) ==
  IF model # NoModel /\ model.range[1] = range[1] THEN model ELSE LoadSlice(range)

\* load_layer_range: the resident slice is kept when it is the one asked for.
Resident(range) == IF model.range = range THEN model ELSE LoadSlice(range)

\* A slice that has just been loaded has an empty cache.
CacheBefore(range) == IF Resident(range) = model THEN cache ELSE <<>>

------------------------------------------------------------------------
(* Running a slice.                                                        *)

\* Mutant: the end is not limited to the layers in memory.
LayersRunUnlimited(slice, range) == AtLeast(range[1], slice.offset) .. (range[2] - 1)

\* The layers run_layers iterates over: those of the call that are resident.
LayersRun(slice, range) ==
  AtLeast(range[1], slice.offset)
    .. (AtMost(range[2], slice.offset + slice.count) - 1)

\* The entries a call adds: its tokens' positions.
Entries(t, pos, len) == [i \in 1 .. len |-> <<t, pos + i - 1>>]

\* Mutant: the cache is extended whatever the position.
ExtendedAlways(old, t, pos, len) == old \o Entries(t, pos, len)

\* forward_attn: position 0 begins a new cache, any other extends the old one.
Extended(old, t, pos, len) ==
  IF pos = 0 THEN Entries(t, pos, len) ELSE old \o Entries(t, pos, len)

\* What makes run_layers fail on a call whose attention ends with the cache
\* new: embeddings that are not there, positions after the rotary tables, a
\* mask that is as long as the chunk over a cache that is longer, an output
\* head that is not there.
WhatFails(slice, c, new) ==
  CASE c.range[1] = 0 /\ ~ slice.embeddings -> "piece"
    [] c.ran # {} /\ c.pos + c.len > MaxSeqLen -> "rotary"
    [] c.ran # {} /\ c.len > 1 /\ Len(new) # c.len -> "mask"
    [] c.range[2] >= ModelLayers /\ ~ slice.head -> "piece"
    [] OTHER -> "none"

\* Executor::run_task on len tokens of t from position pos (the sequence_id).
\* run_loop returns on a failure and drops the backend.
Call(t, range, pos, len) ==
  LET slice == Resident(range)
      ran   == LayersRun(slice, range)
      c     == [task |-> t, range |-> range, pos |-> pos, len |-> len, ran |-> ran]
      new   == IF ran = {} THEN CacheBefore(range)
               ELSE Extended(CacheBefore(range), t, pos, len)
      why   == WhatFails(slice, c, new)
  IN  /\ failure = "none"
      /\ Len(log) < MaxCalls
      /\ failure' = why
      /\ IF why = "none"
           THEN model' = slice /\ cache' = new /\ log' = Append(log, c)
           ELSE model' = NoModel /\ cache' = <<>> /\ log' = <<>>

\* The worker is started again, with a new backend.
Restart ==
  /\ failure # "none" \/ log # <<>>
  /\ model' = NoModel /\ cache' = <<>>
  /\ failure' = "none" /\ log' = <<>>

Next ==
  \/ \E t \in Tasks, range \in Ranges, pos \in 0 .. MaxSeqLen, len \in ChunkLens :
       Call(t, range, pos, len)
  \/ Restart

Spec == Init /\ [][Next]_cacheVars

------------------------------------------------------------------------
(* Properties.                                                             *)

Calls == [task : Tasks, range : Ranges, pos : Nat, len : ChunkLens,
          ran : SUBSET (0 .. (ModelLayers - 1))]

\* Every variable holds a value of its kind: no call ran a layer outside of
\* the model, and the cache holds tasks and positions.
CacheTypeOK ==
  /\ model = NoModel \/ model \in
       [range : Ranges, offset : 0 .. ModelLayers, count : 0 .. ModelLayers,
        embeddings : BOOLEAN, head : BOOLEAN]
  /\ cache \in Seq(Tasks \X Nat)
  /\ failure \in {"none", "piece", "rotary", "mask"}
  /\ log \in Seq(Calls)

\* The calls i .. Len(log) are one generation without a gap: the prompt at
\* position 0, then on the same slice the same task at the positions that
\* follow.
Uninterrupted(i) ==
  /\ log[i].pos = 0
  /\ \A j \in i .. (Len(log) - 1) :
       /\ log[j + 1].task  = log[j].task
       /\ log[j + 1].range = log[j].range
       /\ log[j + 1].pos   = log[j].pos + log[j].len

\* The last call attended to exactly the tokens before it if, and only if, the
\* calls since its prompt were uninterrupted.  Whatever earlier tasks left in
\* the worker, a prompt at position 0 makes it right again; and another task's
\* call, a repeated or skipped position or another slice, even one that was
\* moved away and back, is never made up for.
ContextIsOwnPrefix ==
  log # <<>> /\ log[Len(log)].ran # {} =>
    LET last == log[Len(log)]
    IN  cache = Entries(last.task, 0, last.pos + last.len)
          <=> \E i \in DOMAIN log : Uninterrupted(i)

\* Every call runs the layers it asks for that the model has, each of them
\* resident, whichever slice was resident before: no call runs on what an
\* earlier assignment left in memory.
RunsWhatIsAsked ==
  \A i \in DOMAIN log :
    log[i].ran = {l \in 0 .. (ModelLayers - 1) :
                    log[i].range[1] <= l /\ l < log[i].range[2]}

\* No call fails because the resident slice lacks the embeddings or the output
\* head that the range of the call needs, also for ranges that reach past the
\* model of the file or lie behind it.
NoPieceMissing == failure # "piece"

------------------------------------------------------------------------
(* What a comment of the code says and the code does not do.               *)

\* The backend "maintains its own KV cache across calls"
\* (src/src/executor.rs:83): a call that goes on where an earlier call of its
\* task ended finds the cache that this call left.
CacheMaintained ==
  log # <<>> =>
    LET last == log[Len(log)]
    IN  \A i \in 1 .. (Len(log) - 1) :
          /\ log[i].task = last.task
          /\ log[i].pos = 0 /\ last.pos = log[i].len
          /\ last.range[1] = 0 /\ last.ran # {}
          => cache = Entries(last.task, 0, last.pos + last.len)

========================================================================
