------------------------ MODULE InferenceProofs ------------------------
(***************************************************************************)
(* One token's way through the swarm, for any number of nodes, layers,     *)
(* tasks and sequence ids and any bounds: what a sequence that nothing     *)
(* disturbs computes, and that it answers once.                            *)
(*                                                                         *)
(* TypeInv types the data plane, over SwarmProofs!IInv for the control     *)
(* plane; AttemptInv ties an attempt to one sequence until its answer;     *)
(* QuietInv says of every undisturbed sequence that its one message is     *)
(* the one its index stands for, from which its answer follows.            *)
(* They make the data plane an implementation of Answers.                  *)
(***************************************************************************)
EXTENDS Inference, SwarmProofs, SequenceTheorems

------------------------------------------------------------------------
(* Slices and what running them adds to an activation.                     *)

LEMMA SliceBounds ==
  ASSUME NEW S \in SUBSET Layers, S # {}
  PROVE  /\ Min(S) \in S /\ \A x \in S : Min(S) <= x
         /\ Max(S) \in S /\ \A x \in S : x <= Max(S)
<1>1. TotalLayers \in Nat /\ \A x \in S : x \in Nat /\ x <= TotalLayers
  BY TotalLayersAssumption DEF Layers
<1>2. \E x \in S : \A y \in S : x <= y
  BY <1>1, LeastElement
<1> DEFINE T == {TotalLayers - x : x \in S}
<1>3. T \in SUBSET Nat /\ T # {}
  BY <1>1
<1>4. PICK z \in T : \A y \in T : z <= y
  BY <1>3, LeastElement
<1>5. PICK x \in S : z = TotalLayers - x
  BY <1>4
<1>6. \A y \in S : x >= y
  <2> TAKE y \in S
  <2>1. TotalLayers - x <= TotalLayers - y
    BY <1>4, <1>5
  <2> QED BY <1>1, <2>1
<1>7. Min(S) \in S /\ \A y \in S : Min(S) <= y
  BY <1>2 DEF Min
<1>8. Max(S) \in S /\ \A y \in S : Max(S) >= y
  BY <1>6 DEF Max
<1> QED
  BY <1>1, <1>7, <1>8

\* The layers below l, in order, and the activation that has them behind it.
Below(l) == [i \in 1 .. l |-> i - 1]
UpTo(l, att) == [layers |-> Below(l), job |-> att]

LEMMA RunsLayers ==
  ASSUME NEW a \in Nat, NEW b \in Nat
  PROVE  LET end == IF b <= TotalLayers THEN b ELSE TotalLayers
             n   == IF end >= a THEN end - a ELSE 0
         IN  /\ RunOf(<<a, b>>) \in Seq(Layers) /\ RunOf(<<a, b>>) \in Seq(Int)
             /\ Len(RunOf(<<a, b>>)) = n
             /\ \A i \in 1 .. n : RunOf(<<a, b>>)[i] = a + i - 1
<1> DEFINE end == IF b <= TotalLayers THEN b ELSE TotalLayers
<1> DEFINE n == IF end >= a THEN end - a ELSE 0
<1>1. end \in Nat /\ n \in Nat /\ end <= TotalLayers /\ (1 .. (end - a)) = 1 .. n
  BY TotalLayersAssumption
<1>2. RunOf(<<a, b>>) = [i \in 1 .. n |-> a + i - 1]
  <2>1. RunOf(<<a, b>>) = [i \in 1 .. (end - a) |-> a + i - 1]
    BY DEF RunOf
  <2> QED BY <1>1, <2>1, Zenon
<1>3. \A i \in 1 .. n : a + i - 1 \in Layers
  <2> TAKE i \in 1 .. n
  <2>1. end >= a /\ i \in Int /\ 1 <= i /\ i <= end - a
    OBVIOUS
  <2> HIDE DEF n, end
  <2>2. a + i - 1 \in 0 .. (TotalLayers - 1)
    BY <1>1, <2>1, TotalLayersAssumption
  <2> QED BY <2>2 DEF Layers
<1> HIDE DEF n, end
<1>4. RunOf(<<a, b>>) \in [1 .. n -> Layers] /\ RunOf(<<a, b>>) \in [1 .. n -> Int]
  BY <1>2, <1>3
<1>5. /\ RunOf(<<a, b>>) \in Seq(Layers) /\ RunOf(<<a, b>>) \in Seq(Int)
      /\ Len(RunOf(<<a, b>>)) = n
  <2>1. RunOf(<<a, b>>) \in Seq(Layers) /\ RunOf(<<a, b>>) \in Seq(Int)
    BY <1>1, <1>4, ListIsSequence, Zenon
  <2>2. Len([i \in 1 .. n |-> a + i - 1]) = n
    BY <1>1
  <2> QED BY <1>2, <2>1, <2>2, Zenon
<1> QED
  BY <1>2, <1>5 DEF n, end

\* A slice that goes on where the layers below it end.
LEMMA RunsOn ==
  ASSUME NEW a \in Nat, NEW b \in Nat, a <= b, b <= TotalLayers
  PROVE  Below(a) \o RunOf(<<a, b>>) = Below(b)
<1> DEFINE x == Below(a)
<1> DEFINE y == RunOf(<<a, b>>)
<1> DEFINE z == Below(b)
<1>1. /\ x \in Seq(Int) /\ Len(x) = a /\ \A i \in 1 .. a : x[i] = i - 1
      /\ z \in Seq(Int) /\ Len(z) = b /\ \A i \in 1 .. b : z[i] = i - 1
  BY DEF Below
<1>2. y \in Seq(Int) /\ Len(y) = b - a /\ \A i \in 1 .. (b - a) : y[i] = a + i - 1
  <2> DEFINE end == IF b <= TotalLayers THEN b ELSE TotalLayers
  <2> DEFINE n == IF end >= a THEN end - a ELSE 0
  <2>2. /\ y \in Seq(Int) /\ Len(y) = n
        /\ \A i \in 1 .. n : y[i] = a + i - 1
    BY RunsLayers, Zenon
  <2>3. n = b - a
    OBVIOUS
  <2> QED BY <2>2, <2>3, Zenon
<1> HIDE DEF x, y, z
<1>3. /\ x \o y \in Seq(Int)
      /\ Len(x \o y) = Len(x) + Len(y)
      /\ \A i \in 1 .. Len(x) + Len(y) :
           (x \o y)[i] = IF i <= Len(x) THEN x[i] ELSE y[i - Len(x)]
  BY <1>1, <1>2, ConcatProperties, Zenon
<1>4. Len(x \o y) = Len(z)
  BY <1>1, <1>2, <1>3
<1>5. ASSUME NEW i \in 1 .. Len(x \o y)
      PROVE  (x \o y)[i] = z[i]
  <2>1. i \in 1 .. Len(x) + Len(y) /\ i \in 1 .. b
    BY <1>1, <1>2, <1>3
  <2>2. CASE i <= Len(x)
    <3>1. i \in 1 .. a
      BY <1>1, <2>1, <2>2
    <3> QED BY <1>1, <1>3, <2>1, <2>2, <3>1, Zenon
  <2>3. CASE ~ (i <= Len(x))
    <3>1. i - Len(x) \in 1 .. (b - a) /\ a + (i - Len(x)) - 1 = i - 1
      BY <1>1, <2>1, <2>3
    <3>2. y[i - Len(x)] = a + (i - Len(x)) - 1
      BY <1>2, <3>1, Zenon
    <3> QED BY <1>1, <1>3, <2>1, <2>3, <3>1, <3>2, Zenon
  <2> QED BY <2>2, <2>3
<1>6. x \o y = z
  BY <1>1, <1>3, <1>4, <1>5, SeqEqual, Zenon
<1> QED
  BY <1>6 DEF x, y, z

LEMMA UpToIsActivation ==
  ASSUME NEW l \in 0 .. TotalLayers, NEW att \in 0 .. MaxStarts
  PROVE  UpTo(l, att) \in Activations
<1>1. Below(l) \in [1 .. l -> Layers] /\ l \in Nat
  BY TotalLayersAssumption DEF Below, Layers
<1>2. Below(l) \in Seq(Layers)
  BY <1>1
<1> QED
  BY <1>2, Zenon DEF UpTo, Activations

LEMMA NoStateFacts ==
  /\ NoState \in Activations
  /\ \A l, att : att # 0 => UpTo(l, att) # NoState
<1>1. <<>> \in Seq(Layers) /\ 0 \in 0 .. MaxStarts
  BY InferenceAssumption
<1>2. NoState \in Activations
  BY <1>1, Zenon DEF NoState, Activations
<1>3. \A l, att : UpTo(l, att).job = att
  BY DEF UpTo
<1>4. NoState.job = 0
  BY DEF NoState
<1> QED
  BY <1>2, <1>3, <1>4

\* Layers added to an activation.
LEMMA Extends ==
  ASSUME NEW in \in Activations, NEW run \in Seq(Layers)
  PROVE  /\ [in EXCEPT !.layers = @ \o run] = [layers |-> in.layers \o run, job |-> in.job]
         /\ [in EXCEPT !.layers = @ \o run] \in Activations
<1>1. PICK ls \in Seq(Layers), j \in 0 .. MaxStarts : in = [layers |-> ls, job |-> j]
  BY DEF Activations
<1>2. [in EXCEPT !.layers = @ \o run] = [layers |-> ls \o run, job |-> j]
  <2>1. \A x, y : [[layers |-> x, job |-> j] EXCEPT !.layers = y] = [layers |-> y, job |-> j]
    OBVIOUS
  <2>2. in.layers = ls
    BY <1>1
  <2> QED BY <1>1, <2>1, <2>2, Zenon
<1>3. in.layers = ls /\ in.job = j
  BY <1>1
<1>4. ls \o run \in Seq(Layers)
  OBVIOUS
<1>5. [layers |-> ls \o run, job |-> j] \in Activations
  BY <1>4, Zenon DEF Activations
<1> QED
  BY <1>2, <1>3, <1>5

------------------------------------------------------------------------
(* The route of a quiet start.                                             *)

\* What QuietStart asks of the stage list and the layers.
QuietRoute ==
  /\ stages # <<>>
  /\ \A i \in DOMAIN stages : assigned[stages[i]] # {}
  /\ Tiles(stages, assigned)

LEMMA RangeOfNode ==
  ASSUME TypeOK, NEW n \in Nodes
  PROVE  /\ LayerRange(n)[1] \in Nat /\ LayerRange(n)[2] \in Nat
         /\ LayerRange(n) = <<LayerRange(n)[1], LayerRange(n)[2]>>
         /\ LayerRange(n) \in Nat \X Nat
         /\ assigned[n] # {} =>
              /\ LayerRange(n)[1] = Min(assigned[n])
              /\ LayerRange(n)[2] = Max(assigned[n]) + 1
              /\ LayerRange(n)[1] < LayerRange(n)[2]
              /\ LayerRange(n)[2] <= TotalLayers
<1>1. assigned[n] \in SUBSET Layers
  BY DEF TypeOK
<1>2. CASE assigned[n] = {}
  BY <1>2 DEF LayerRange
<1>3. CASE assigned[n] # {}
  <2> DEFINE lo == Min(assigned[n])
  <2> DEFINE hi == Max(assigned[n])
  <2>1. lo \in Layers /\ hi \in Layers /\ lo <= hi
    BY <1>1, <1>3, SliceBounds
  <2>2. LayerRange(n) = <<lo, hi + 1>>
    BY <1>3 DEF LayerRange
  <2>3. lo \in Nat /\ hi + 1 \in Nat /\ lo < hi + 1 /\ hi + 1 <= TotalLayers
    <3> HIDE DEF lo, hi
    <3> QED BY <2>1, TotalLayersAssumption DEF Layers
  <2> HIDE DEF lo, hi
  <2> QED BY <2>2, <2>3 DEF lo, hi
<1> QED
  BY <1>2, <1>3

\* Along a quiet route the slices begin at the first layer, meet, and end at
\* the last layer.
LEMMA RouteBounds ==
  ASSUME TypeOK, QuietRoute, NEW i \in 1 .. Len(stages)
  PROVE  /\ i = 1 => LayerRange(stages[i])[1] = 0
         /\ i < Len(stages) => LayerRange(stages[i + 1])[1] = LayerRange(stages[i])[2]
         /\ i = Len(stages) => LayerRange(stages[i])[2] = TotalLayers
<1> DEFINE slice(k) == assigned[stages[k]]
<1> DEFINE len == Len(stages)
<1>1. /\ stages \in Seq(PeerNodes) /\ len \in Nat /\ DOMAIN stages = 1 .. len
      /\ \A k \in 1 .. len : stages[k] \in Nodes
  <2>1. stages \in Seq(PeerNodes)
    BY DEF TypeOK
  <2>2. \A k \in 1 .. Len(stages) : stages[k] \in PeerNodes
    BY <2>1
  <2>3. Len(stages) \in Nat /\ DOMAIN stages = 1 .. Len(stages)
    BY <2>1
  <2> QED BY <2>1, <2>2, <2>3, NodesAssumption
<1>2. \A k \in 1 .. len : slice(k) \in SUBSET Layers /\ slice(k) # {}
  BY <1>1 DEF QuietRoute, TypeOK
<1>3. \A j, k \in 1 .. len : j < k => \A x \in slice(j), y \in slice(k) : x < y
  BY <1>1, Zenon DEF QuietRoute, Tiles, InOrder
<1>4. \A l \in Layers : \E k \in 1 .. len : l \in slice(k)
  BY <1>1, Zenon DEF QuietRoute, Tiles, Complete
<1>5. \A k \in 1 .. len : /\ Min(slice(k)) \in slice(k) /\ \A x \in slice(k) : Min(slice(k)) <= x
                          /\ Max(slice(k)) \in slice(k) /\ \A x \in slice(k) : x <= Max(slice(k))
  BY <1>2, SliceBounds
<1>6. \A k \in 1 .. len : /\ LayerRange(stages[k])[1] = Min(slice(k))
                          /\ LayerRange(stages[k])[2] = Max(slice(k)) + 1
  BY <1>1, <1>2, RangeOfNode
<1>7. \A l \in Layers : l \in Int /\ 0 <= l /\ l <= TotalLayers - 1
  BY TotalLayersAssumption DEF Layers
<1> HIDE DEF slice, len
<1>8. ASSUME i = 1 PROVE Min(slice(i)) = 0
  <2>1. 0 \in Layers
    BY InferenceAssumption, TotalLayersAssumption DEF Layers
  <2>2. PICK k \in 1 .. len : 0 \in slice(k)
    BY <1>4, <2>1
  <2>3. i \in 1 .. len /\ k \in Int
    BY DEF len
  <2>4. Min(slice(i)) \in Layers /\ 0 <= Min(slice(i))
    BY <1>2, <1>5, <1>7, <2>3
  <2>5. ~ (i < k)
    <3>1. i < k => Min(slice(i)) < 0
      BY <1>3, <1>5, <2>2, <2>3
    <3>2. Min(slice(i)) \in Int
      BY <1>7, <2>4
    <3> QED BY <2>4, <3>1, <3>2
  <2>6. k = i
    BY <1>8, <2>3, <2>5
  <2>7. Min(slice(i)) <= 0
    BY <1>5, <2>2, <2>3, <2>6
  <2> QED BY <1>7, <2>4, <2>7
<1>9. ASSUME i < Len(stages) PROVE Min(slice(i + 1)) = Max(slice(i)) + 1
  <2> DEFINE b == Max(slice(i)) + 1
  <2> DEFINE a == Min(slice(i + 1))
  <2>1. i \in 1 .. len /\ i + 1 \in 1 .. len /\ i \in Int
    BY <1>1, <1>9 DEF len
  <2>2. a \in slice(i + 1) /\ Max(slice(i)) \in slice(i)
    BY <1>5, <2>1
  <2>3. a \in Int /\ b \in Int /\ 0 <= b /\ a <= TotalLayers - 1
    BY <1>2, <1>7, <2>1, <2>2
  <2>4. Max(slice(i)) < a
    <3>1. i < i + 1
      BY <2>1
    <3> QED BY <1>3, <2>1, <2>2, <3>1
  <2>5. Max(slice(i)) \in Int
    BY <1>2, <1>7, <2>1, <2>2
  <2>6. b <= a
    BY <2>3, <2>4, <2>5
  <2>7. b \in Layers
    <3> HIDE DEF a, b
    <3> QED BY <2>3, <2>6, TotalLayersAssumption DEF Layers
  <2>8. PICK k \in 1 .. len : b \in slice(k)
    BY <1>4, <2>7
  <2>9. k \in Int
    BY <1>1
  <2>10. ~ (k < i)
    <3>1. k < i => b < Max(slice(i))
      BY <1>3, <2>1, <2>2, <2>8
    <3> QED BY <2>5, <3>1
  <2>11. k # i
    <3>1. k = i => b <= Max(slice(i))
      BY <1>5, <2>1, <2>8
    <3> QED BY <2>5, <3>1
  <2>12. ~ (i + 1 < k)
    <3>1. i + 1 < k => a < b
      BY <1>3, <2>1, <2>2, <2>8
    <3> QED BY <2>3, <2>6, <3>1
  <2>13. k = i + 1
    BY <2>1, <2>9, <2>10, <2>11, <2>12
  <2>14. a <= b
    BY <1>5, <2>1, <2>8, <2>13
  <2> QED BY <2>3, <2>6, <2>14
<1>10. ASSUME i = Len(stages) PROVE Max(slice(i)) = TotalLayers - 1
  <2> DEFINE l == TotalLayers - 1
  <2>1. l \in Layers /\ l \in Int
    BY InferenceAssumption, TotalLayersAssumption DEF Layers
  <2>2. PICK k \in 1 .. len : l \in slice(k)
    BY <1>4, <2>1
  <2>3. i \in 1 .. len /\ k \in Int /\ k <= i
    BY <1>1, <1>10 DEF len
  <2>4. Max(slice(i)) \in slice(i) /\ Max(slice(i)) \in Int /\ Max(slice(i)) <= l
    BY <1>2, <1>5, <1>7, <2>3
  <2>5. ~ (k < i)
    <3>1. k < i => l < Max(slice(i))
      BY <1>3, <2>2, <2>3, <2>4
    <3> QED BY <2>1, <2>4, <3>1
  <2>6. k = i
    BY <2>3, <2>5
  <2>7. l <= Max(slice(i))
    BY <1>5, <2>2, <2>3, <2>6
  <2> QED BY <2>1, <2>4, <2>7
<1>11. i \in 1 .. len /\ (i < Len(stages) => i + 1 \in 1 .. len)
  BY <1>1 DEF len
<1> QED
  BY <1>6, <1>8, <1>9, <1>10, <1>11, TotalLayersAssumption

------------------------------------------------------------------------
(* Messages.                                                               *)

LEMMA MessageFields ==
  ASSUME NEW m \in Messages
  PROVE  /\ m.kind \in {"ProcessTask", "TaskResult"}
         /\ m.task \in Tasks /\ m.seq \in SequenceIds /\ m.att \in 1 .. MaxStarts
         /\ m.kind = "ProcessTask" =>
              /\ m.to \in PeerNodes /\ m.range \in Nat \X Nat /\ m.input \in Activations
         /\ m.kind = "TaskResult" => m.output \in Activations /\ m.logits \in Activations
BY DEF Messages

LEMMA TaskIsMessage ==
  ASSUME NEW dest \in PeerNodes, NEW t \in Tasks, NEW seq \in SequenceIds,
         NEW att \in 1 .. MaxStarts, NEW range \in Nat \X Nat, NEW input \in Activations,
         NEW index \in Nat, TypeOK
  PROVE  ProcessTask(dest, t, seq, att, range, input, index) \in Messages
<1>1. stages \in Seq(PeerNodes)
  BY DEF TypeOK
<1> QED
  BY <1>1, Zenon DEF ProcessTask, Messages

\* The TaskResult that RunTask sends.
ResultOf(m, out) ==
  [kind |-> "TaskResult", task |-> m.task, seq |-> m.seq, att |-> m.att,
   output |-> out,
   logits |-> IF m.range[2] >= TotalLayers THEN out ELSE NoState]

LEMMA ResultIsMessage ==
  ASSUME NEW m \in Messages, NEW out \in Activations
  PROVE  ResultOf(m, out) \in Messages
<1>1. (IF m.range[2] >= TotalLayers THEN out ELSE NoState) \in Activations
  BY NoStateFacts, Zenon
<1> QED
  BY <1>1, MessageFields, Zenon DEF ResultOf, Messages

\* What a worker computes is an activation, whatever it held before.
LEMMA WorkerComputes ==
  ASSUME NEW w, w.hidden \in Activations, NEW m \in Messages, m.kind = "ProcessTask"
  PROVE  /\ HiddenBefore(w, m) \in Activations
         /\ Activation(w, m) \in Activations
<1>1. m.input \in Activations /\ m.att \in 0 .. MaxStarts
  BY MessageFields
<1>2. HiddenBefore(w, m) \in Activations
  BY <1>1, NoStateFacts, Zenon DEF HiddenBefore
<1>3. PICK a \in Nat, b \in Nat : m.range = <<a, b>>
  BY MessageFields
<1>4. RunOf(m.range) \in Seq(Layers)
  BY <1>3, RunsLayers, Zenon
<1> DEFINE fresh == [layers |-> <<>>, job |-> m.att]
<1>5. fresh \in Activations
  <2>1. <<>> \in Seq(Layers)
    OBVIOUS
  <2> QED BY <1>1, <2>1, Zenon DEF Activations
<1> DEFINE in == IF m.range[1] = 0 THEN fresh ELSE HiddenBefore(w, m)
<1>6. in \in Activations
  BY <1>2, <1>5, Zenon
<1>7. Activation(w, m) = [in EXCEPT !.layers = @ \o RunOf(m.range)]
  BY DEF Activation
<1> HIDE DEF in
<1> QED
  <2> DEFINE run == RunOf(m.range)
  <2>1. run \in Seq(Layers) /\ Activation(w, m) = [in EXCEPT !.layers = @ \o run]
    BY <1>4, <1>7
  <2> HIDE DEF run
  <2>2. [in EXCEPT !.layers = @ \o run] \in Activations
    BY <1>6, <2>1, Extends
  <2> QED BY <1>2, <2>1, <2>2

------------------------------------------------------------------------
(* The control plane goes on as in Swarm.                                  *)

LEMMA SwarmGoesOn == [InferenceNext]_vars => [Next]_swarmVars
<1> SUFFICES ASSUME [InferenceNext]_vars PROVE [Next]_swarmVars
  OBVIOUS
<1>1. CASE UNCHANGED vars
  BY <1>1 DEF vars
<1>2. CASE \E t \in Tasks, seq \in SequenceIds : StartSequence(t, seq)
  BY <1>2 DEF StartSequence
<1>3. CASE \E m \in net : RunTask(m) \/ FailTask(m) \/ ForwardResult(m)
                            \/ FinishSequence(m) \/ DropResult(m) \/ Lose(m)
  BY <1>3 DEF RunTask, FailTask, ForwardResult, FinishSequence, DropResult, Lose
<1>4. CASE ControlStep
  BY <1>4 DEF ControlStep, Next
<1> QED
  BY <1>1, <1>2, <1>3, <1>4, Zenon DEF InferenceNext

\* The data plane is no more than a user of the control plane: every behaviour
\* of Inference is one of Swarm for the registry and the stage list.
THEOREM InferenceImplementsSwarm == InferenceSpec => Spec
<1>1. InferenceInit => Init
  BY DEF InferenceInit
<1> QED
  BY <1>1, SwarmGoesOn, PTL DEF InferenceSpec, Spec

------------------------------------------------------------------------
(* Types.                                                                  *)

\* A Finished result, as the history has it.
Finishes == [att : 1 .. MaxStarts, quiet : BOOLEAN, logits : Activations]

TypeInv ==
  /\ InferenceTypeOK
  /\ worker = [n \in Nodes |-> worker[n]]
  /\ starts \in 0 .. MaxStarts

Sequence(seq, index, att) == [active |-> TRUE, seq |-> seq, index |-> index, att |-> att]

LEMMA SequenceFields ==
  ASSUME InferenceTypeOK, NEW t \in Tasks, sequences[t].active
  PROVE  /\ sequences[t].seq \in SequenceIds /\ sequences[t].index \in Nat
         /\ sequences[t].att \in 1 .. MaxStarts
         /\ sequences[t] = Sequence(sequences[t].seq, sequences[t].index, sequences[t].att)
<1>1. NotActive.active = FALSE
  BY DEF NotActive
<1>2. sequences[t] \in [active : {TRUE}, seq : SequenceIds, index : Nat, att : 1 .. MaxStarts]
  BY <1>1 DEF InferenceTypeOK
<1> QED
  BY <1>2 DEF Sequence

LEMMA SequenceTyped ==
  ASSUME NEW seq \in SequenceIds, NEW index \in Nat, NEW att \in 1 .. MaxStarts
  PROVE  Sequence(seq, index, att) \in
           [active : {TRUE}, seq : SequenceIds, index : Nat, att : 1 .. MaxStarts]
BY DEF Sequence

LEMMA IndexMovesOn ==
  ASSUME InferenceTypeOK, NEW t \in Tasks, sequences[t].active
  PROVE  [sequences EXCEPT ![t].index = @ + 1]
           = [sequences EXCEPT ![t] =
                Sequence(sequences[t].seq, sequences[t].index + 1, sequences[t].att)]
<1> DEFINE s == sequences[t]
<1>1. \A q, i, a : [Sequence(q, i, a) EXCEPT !.index = @ + 1] = Sequence(q, i + 1, a)
  <2>1. \A q, i, j, a : [Sequence(q, i, a) EXCEPT !.index = j] = Sequence(q, j, a)
    <3>1. \A v, q, i, j, a :
            [[active |-> v, seq |-> q, index |-> i, att |-> a] EXCEPT !.index = j]
              = [active |-> v, seq |-> q, index |-> j, att |-> a]
      OBVIOUS
    <3> QED BY <3>1, Zenon DEF Sequence
  <2>2. \A q, i, a : Sequence(q, i, a).index = i
    BY DEF Sequence
  <2> QED BY <2>1, <2>2
<1>2. [s EXCEPT !.index = @ + 1] = Sequence(s.seq, s.index + 1, s.att)
  <2>1. s = Sequence(s.seq, s.index, s.att)
    BY SequenceFields
  <2> HIDE DEF s
  <2> QED BY <1>1, <2>1
<1> QED
  BY <1>2

\* The next stage is a peer.
LEMMA NextStageIsPeer ==
  ASSUME TypeOK, InferenceTypeOK, NEW t \in Tasks, HasNextStage(t)
  PROVE  stages[sequences[t].index + 2] \in PeerNodes
<1>1. sequences[t].index \in Nat /\ sequences[t].index + 1 < Len(stages)
  BY SequenceFields DEF HasNextStage
<1>2. stages \in Seq(PeerNodes)
  BY DEF TypeOK
<1> QED
  BY <1>1, <1>2

\* What an action does to net when it takes the message m and puts those of
\* new there.
LEMMA NetTyped ==
  ASSUME net \subseteq Messages, NEW m, NEW new \in SUBSET Messages
  PROVE  (net \ {m}) \cup new \subseteq Messages
OBVIOUS

\* The task that ForwardResult sends.
NextTask(m) ==
  LET s    == sequences[m.task]
      dest == stages[s.index + 2]
  IN  ProcessTask(dest, m.task, m.seq, s.att, LayerRange(dest), m.output, s.index + 1)

LEMMA ForwardEffect ==
  ASSUME TypeOK, InferenceTypeOK, NEW m \in net, ForwardResult(m)
  PROVE  LET s == sequences[m.task]
         IN  /\ m \in Messages /\ m.kind = "TaskResult" /\ m.task \in Tasks
             /\ s.active /\ s.seq = m.seq /\ s.index + 1 < Len(stages)
             /\ sequences' = [sequences EXCEPT ![m.task] =
                                Sequence(s.seq, s.index + 1, s.att)]
             /\ NextTask(m) \in Messages
             /\ net' = (net \ {m}) \cup {NextTask(m)}
<1>1. /\ m \in Messages /\ m.task \in Tasks /\ m.kind = "TaskResult"
      /\ m.seq \in SequenceIds /\ m.output \in Activations
  <2>1. m \in Messages
    BY DEF InferenceTypeOK
  <2> QED BY <2>1, MessageFields DEF ForwardResult
<1>2. /\ sequences[m.task].active /\ HasNextStage(m.task)
      /\ sequences[m.task].seq = m.seq
  BY DEF ForwardResult, Accepted
<1>3. sequences' = [sequences EXCEPT ![m.task].index = @ + 1]
  BY DEF ForwardResult
<1> DEFINE dest == stages[sequences[m.task].index + 2]
<1>4. dest \in PeerNodes /\ dest \in Nodes
  BY <1>1, <1>2, NextStageIsPeer, NodesAssumption
<1>5. LayerRange(dest) \in Nat \X Nat
  BY <1>4, RangeOfNode, Zenon
<1>6. sequences[m.task].index + 1 \in Nat /\ sequences[m.task].att \in 1 .. MaxStarts
  BY <1>1, <1>2, SequenceFields
<1> HIDE DEF dest
<1>7. NextTask(m) \in Messages
  BY <1>1, <1>4, <1>5, <1>6, TaskIsMessage, Zenon DEF NextTask, dest
<1>8. net' = (net \ {m}) \cup {NextTask(m)}
  BY DEF ForwardResult, NextTask
<1> QED
  BY <1>1, <1>2, <1>3, <1>7, <1>8, IndexMovesOn DEF HasNextStage

\* The task that StartSequence sends.
FirstTask(t, seq) ==
  LET first == SortedByCapacity(AcceptingTasks(state), composite)[1]
  IN  ProcessTask(first, t, seq, starts + 1, LayerRange(first), NoState, 0)

LEMMA StartEffect ==
  ASSUME TypeOK, TypeInv, NEW t \in Tasks, NEW seq \in SequenceIds, StartSequence(t, seq)
  PROVE  /\ starts + 1 \in 1 .. MaxStarts /\ starts' = starts + 1
         /\ sequences' = [sequences EXCEPT ![t] = Sequence(seq, 0, starts + 1)]
         /\ FirstTask(t, seq) \in Messages
         /\ net' = net \cup {FirstTask(t, seq)}
<1> DEFINE first == SortedByCapacity(AcceptingTasks(state), composite)[1]
<1>1. first \in PeerNodes /\ first \in Nodes
  BY NodesAssumption DEF StartSequence
<1>2. starts + 1 \in 1 .. MaxStarts
  BY InferenceAssumption DEF StartSequence, TypeInv
<1>3. starts' = starts + 1 /\ sequences' = [sequences EXCEPT ![t] = Sequence(seq, 0, starts + 1)]
  BY DEF StartSequence, Sequence
<1>4. net' = net \cup {FirstTask(t, seq)}
  BY DEF StartSequence, FirstTask
<1> HIDE DEF first
<1>5. LayerRange(first) \in Nat \X Nat /\ 0 \in Nat
  BY <1>1, RangeOfNode
<1>6. FirstTask(t, seq) \in Messages
  BY <1>1, <1>2, <1>5, NoStateFacts, TaskIsMessage, Zenon DEF FirstTask, first
<1> QED
  BY <1>2, <1>3, <1>4, <1>6

LEMMA RunEffect ==
  ASSUME TypeInv, NEW m \in net, RunTask(m)
  PROVE  LET out == Activation(worker[m.to], m)
         IN  /\ m \in Messages /\ m.kind = "ProcessTask" /\ m.to \in Nodes
             /\ out \in Activations
             /\ worker' = [worker EXCEPT ![m.to] =
                             [alive |-> TRUE, loaded |-> m.range, hidden |-> out]]
             /\ ResultOf(m, out) \in Messages
             /\ net' = (net \ {m}) \cup {ResultOf(m, out)}
<1>1. m \in Messages /\ m.kind = "ProcessTask"
  BY DEF TypeInv, InferenceTypeOK, RunTask
<1>2. m.to \in Nodes
  BY <1>1, MessageFields, NodesAssumption
<1>3. worker[m.to].hidden \in Activations
  BY <1>2 DEF TypeInv, InferenceTypeOK
<1>4. Activation(worker[m.to], m) \in Activations
  BY <1>1, <1>3, WorkerComputes, Zenon
<1>5. ResultOf(m, Activation(worker[m.to], m)) \in Messages
  BY <1>1, <1>4, ResultIsMessage, Zenon
<1>6. /\ worker' = [worker EXCEPT ![m.to] =
                      [alive |-> TRUE, loaded |-> m.range,
                       hidden |-> Activation(worker[m.to], m)]]
      /\ net' = (net \ {m}) \cup {ResultOf(m, Activation(worker[m.to], m))}
  BY Zenon DEF RunTask, ResultOf
<1> QED
  BY <1>1, <1>2, <1>4, <1>5, <1>6, Zenon

LEMMA FinishEffect ==
  ASSUME TypeInv, NEW m \in net, FinishSequence(m)
  PROVE  LET att == sequences[m.task].att
             o   == [att |-> att, quiet |-> att \in undisturbed, logits |-> m.logits]
         IN  /\ m \in Messages /\ m.kind = "TaskResult" /\ m.task \in Tasks
             /\ m.logits \in Activations
             /\ sequences[m.task].active /\ sequences[m.task].seq = m.seq
             /\ ~ HasNextStage(m.task)
             /\ sequences' = [sequences EXCEPT ![m.task] = NotActive]
             /\ net' = net \ {m}
             /\ outcome' = Append(outcome, o)
<1>1. m \in Messages /\ m.kind = "TaskResult"
  BY DEF TypeInv, InferenceTypeOK, FinishSequence
<1>2. m.task \in Tasks /\ m.logits \in Activations
  BY <1>1, MessageFields
<1> QED
  BY <1>1, <1>2, Zenon DEF FinishSequence, Accepted

LEMMA FinishIsTyped ==
  ASSUME TypeInv, NEW t \in Tasks, sequences[t].active, NEW logits \in Activations
  PROVE  [att |-> sequences[t].att, quiet |-> sequences[t].att \in undisturbed,
          logits |-> logits] \in Finishes
<1>1. sequences[t].att \in 1 .. MaxStarts
  BY SequenceFields DEF TypeInv
<1>2. (sequences[t].att \in undisturbed) \in BOOLEAN
  OBVIOUS
<1> QED
  BY <1>1, <1>2, Zenon DEF Finishes

LEMMA TypeInvInit == InferenceInit => TypeInv
<1> SUFFICES ASSUME InferenceInit PROVE TypeInv
  OBVIOUS
<1>1. /\ sequences = [t \in Tasks |-> NotActive] /\ net = {}
      /\ worker = [n \in Nodes |-> FreshWorker]
      /\ starts = 0 /\ undisturbed = {} /\ outcome = <<>>
  BY DEF InferenceInit
<1>2. FreshWorker.alive \in BOOLEAN /\ FreshWorker.hidden \in Activations
  BY NoStateFacts DEF FreshWorker
<1>3. starts \in 0 .. MaxStarts
  BY <1>1, InferenceAssumption
<1>4. \A n \in Nodes : worker[n] = FreshWorker
  BY <1>1
<1>5. worker = [n \in Nodes |-> worker[n]]
  BY <1>1, <1>4
<1>6. outcome \in Seq(Finishes)
  BY <1>1
<1>7. InferenceTypeOK
  BY <1>1, <1>2, <1>4, <1>6, Zenon DEF InferenceTypeOK, Finishes
<1> QED
  BY <1>3, <1>5, <1>7, Zenon DEF TypeInv

\* A worker that is replaced by a typed one.
LEMMA WorkerTyped ==
  ASSUME TypeInv, NEW n \in Nodes, NEW alive \in BOOLEAN, NEW range, NEW hidden \in Activations,
         worker' = [worker EXCEPT ![n] = [alive |-> alive, loaded |-> range, hidden |-> hidden]]
  PROVE  /\ worker' = [k \in Nodes |-> worker'[k]]
         /\ \A k \in Nodes : worker'[k].alive \in BOOLEAN /\ worker'[k].hidden \in Activations
<1> DEFINE new == [alive |-> alive, loaded |-> range, hidden |-> hidden]
<1>1. worker = [k \in Nodes |-> worker[k]]
  BY DEF TypeInv
<1>2. new.alive \in BOOLEAN /\ new.hidden \in Activations
  BY Zenon
<1>3. worker' = [worker EXCEPT ![n] = new]
  BY Zenon
<1> HIDE DEF new
<1>4. \A k \in Nodes : worker'[k] = IF k = n THEN new ELSE worker[k]
  BY <1>1, <1>3
<1>5. worker' = [k \in Nodes |-> worker'[k]]
  BY <1>1, <1>3
<1>6. \A k \in Nodes : worker[k].alive \in BOOLEAN /\ worker[k].hidden \in Activations
  BY DEF TypeInv, InferenceTypeOK
<1> QED
  BY <1>2, <1>4, <1>5, <1>6, Zenon

\* Every step of Inference keeps the types.
LEMMA TypeKeeps == TypeOK /\ TypeInv /\ [InferenceNext]_vars => TypeInv'
<1> SUFFICES ASSUME TypeOK, TypeInv, [InferenceNext]_vars
             PROVE  TypeInv'
  OBVIOUS
<1> DEFINE Sequences ==
      [Tasks -> {NotActive} \cup
         [active : {TRUE}, seq : SequenceIds, index : Nat, att : 1 .. MaxStarts]]
<1> DEFINE WorkerOK ==
      /\ worker = [n \in Nodes |-> worker[n]]
      /\ \A n \in Nodes : worker[n].alive \in BOOLEAN /\ worker[n].hidden \in Activations
<1>0. /\ sequences \in Sequences /\ net \subseteq Messages /\ WorkerOK
      /\ starts \in 0 .. MaxStarts /\ undisturbed \subseteq 1 .. starts
      /\ outcome \in Seq(Finishes)
  BY Zenon DEF TypeInv, InferenceTypeOK, Finishes
<1>1. ASSUME sequences' \in Sequences, net' \subseteq Messages, WorkerOK',
             starts' \in 0 .. MaxStarts, undisturbed' \subseteq 1 .. starts',
             outcome' \in Seq(Finishes)
      PROVE  TypeInv'
  BY <1>1, Zenon DEF TypeInv, InferenceTypeOK, Finishes
<1> HIDE DEF Sequences, WorkerOK
<1>2. CASE UNCHANGED vars
  <2>1. /\ sequences' = sequences /\ net' = net /\ worker' = worker /\ starts' = starts
        /\ undisturbed' = undisturbed /\ outcome' = outcome
    BY <1>2 DEF vars, dataVars
  <2>2. WorkerOK'
    BY <1>0, <2>1, Zenon DEF WorkerOK
  <2> QED BY <1>0, <1>1, <2>1, <2>2, Zenon
<1>3. ASSUME NEW t \in Tasks, NEW seq \in SequenceIds, StartSequence(t, seq)
      PROVE  TypeInv'
  <2>1. /\ starts + 1 \in 1 .. MaxStarts /\ starts' = starts + 1
        /\ sequences' = [sequences EXCEPT ![t] = Sequence(seq, 0, starts + 1)]
        /\ FirstTask(t, seq) \in Messages
        /\ net' = net \cup {FirstTask(t, seq)}
    BY <1>3, StartEffect, Zenon
  <2>2. Sequence(seq, 0, starts + 1)
          \in [active : {TRUE}, seq : SequenceIds, index : Nat, att : 1 .. MaxStarts]
    <3>1. 0 \in Nat
      OBVIOUS
    <3> QED BY <2>1, <3>1, SequenceTyped, Zenon
  <2>3. sequences' \in Sequences
    BY <1>0, <2>1, <2>2 DEF Sequences
  <2>4. worker' = worker /\ outcome' = outcome
    BY <1>3 DEF StartSequence
  <2>5. undisturbed' \subseteq 1 .. starts'
    <3> DEFINE older == IF sequences[t].active THEN {sequences[t].att} ELSE {}
    <3>1. undisturbed' \subseteq undisturbed \cup {starts + 1}
      BY <1>3 DEF StartSequence
    <3>2. 1 .. starts \subseteq 1 .. (starts + 1) /\ starts + 1 \in 1 .. (starts + 1)
      BY <1>0
    <3> QED BY <1>0, <2>1, <3>1, <3>2
  <2>6. starts' \in 0 .. MaxStarts
    BY <2>1
  <2>7. WorkerOK'
    BY <1>0, <2>4, Zenon DEF WorkerOK
  <2> QED BY <1>0, <1>1, <2>1, <2>3, <2>4, <2>5, <2>6, <2>7, Zenon
<1>4. ASSUME NEW m \in net, RunTask(m)
      PROVE  TypeInv'
  <2> DEFINE out == Activation(worker[m.to], m)
  <2>1. /\ m.to \in Nodes /\ out \in Activations
        /\ worker' = [worker EXCEPT ![m.to] =
                        [alive |-> TRUE, loaded |-> m.range, hidden |-> out]]
        /\ ResultOf(m, out) \in Messages
        /\ net' = (net \ {m}) \cup {ResultOf(m, out)}
    BY <1>4, RunEffect, Zenon
  <2> HIDE DEF out
  <2>2. WorkerOK'
    <3>1. TRUE \in BOOLEAN
      OBVIOUS
    <3>2. /\ worker' = [k \in Nodes |-> worker'[k]]
          /\ \A k \in Nodes : worker'[k].alive \in BOOLEAN /\ worker'[k].hidden \in Activations
      BY <2>1, <3>1, WorkerTyped, Zenon
    <3> QED BY <3>2, Zenon DEF WorkerOK
  <2>3. net' \subseteq Messages
    BY <1>0, <2>1
  <2>4. /\ sequences' = sequences /\ starts' = starts
        /\ undisturbed' = undisturbed /\ outcome' = outcome
    BY <1>4 DEF RunTask
  <2> QED BY <1>0, <1>1, <2>2, <2>3, <2>4, Zenon
<1>5. ASSUME NEW m \in net, FailTask(m)
      PROVE  TypeInv'
  <2>1. m \in Messages /\ m.kind = "ProcessTask"
    BY <1>0, <1>5 DEF FailTask
  <2>2. m.to \in Nodes
    BY <2>1, MessageFields, NodesAssumption
  <2>3. worker' = [worker EXCEPT ![m.to] =
                     [alive |-> FALSE, loaded |-> m.range, hidden |-> NoState]]
    BY <1>5 DEF FailTask
  <2>4. WorkerOK'
    <3>1. FALSE \in BOOLEAN
      OBVIOUS
    <3>2. /\ worker' = [k \in Nodes |-> worker'[k]]
          /\ \A k \in Nodes : worker'[k].alive \in BOOLEAN /\ worker'[k].hidden \in Activations
      BY <2>2, <2>3, <3>1, NoStateFacts, WorkerTyped, Zenon
    <3> QED BY <3>2, Zenon DEF WorkerOK
  <2>5. net' \subseteq Messages
    BY <1>0, <1>5 DEF FailTask
  <2>6. /\ sequences' = sequences /\ starts' = starts
        /\ undisturbed' = undisturbed /\ outcome' = outcome
    BY <1>5 DEF FailTask
  <2> QED BY <1>0, <1>1, <2>4, <2>5, <2>6, Zenon
<1>6. ASSUME NEW m \in net, ForwardResult(m)
      PROVE  TypeInv'
  <2> DEFINE s == sequences[m.task]
  <2>1. /\ m.task \in Tasks /\ s.active
        /\ sequences' = [sequences EXCEPT ![m.task] = Sequence(s.seq, s.index + 1, s.att)]
        /\ NextTask(m) \in Messages
        /\ net' = (net \ {m}) \cup {NextTask(m)}
    <3>1. InferenceTypeOK
      BY DEF TypeInv
    <3> QED BY <1>6, <3>1, ForwardEffect, Zenon
  <2>2. s.seq \in SequenceIds /\ s.index \in Nat /\ s.att \in 1 .. MaxStarts
    BY <2>1, SequenceFields DEF TypeInv
  <2> HIDE DEF s
  <2>3. s.index + 1 \in Nat
    BY <2>2
  <2>4. Sequence(s.seq, s.index + 1, s.att)
          \in [active : {TRUE}, seq : SequenceIds, index : Nat, att : 1 .. MaxStarts]
    BY <2>2, <2>3, SequenceTyped, Zenon
  <2>5. sequences' \in Sequences
    BY <1>0, <2>1, <2>4 DEF Sequences
  <2>6. net' \subseteq Messages
    BY <1>0, <2>1
  <2>7. /\ worker' = worker /\ starts' = starts
        /\ undisturbed' = undisturbed /\ outcome' = outcome
    BY <1>6 DEF ForwardResult
  <2>8. WorkerOK'
    BY <1>0, <2>7, Zenon DEF WorkerOK
  <2> QED BY <1>0, <1>1, <2>5, <2>6, <2>7, <2>8, Zenon
<1>7. ASSUME NEW m \in net, FinishSequence(m)
      PROVE  TypeInv'
  <2> DEFINE o == [att |-> sequences[m.task].att,
                   quiet |-> sequences[m.task].att \in undisturbed, logits |-> m.logits]
  <2>1. /\ m.task \in Tasks /\ m.logits \in Activations /\ sequences[m.task].active
        /\ sequences' = [sequences EXCEPT ![m.task] = NotActive]
        /\ net' = net \ {m}
        /\ outcome' = Append(outcome, o)
    BY <1>7, FinishEffect, Zenon
  <2>2. o \in Finishes
    BY <2>1, FinishIsTyped, Zenon
  <2> HIDE DEF o
  <2>3. sequences' \in Sequences
    BY <1>0, <2>1 DEF Sequences
  <2>4. net' \subseteq Messages
    BY <1>0, <2>1
  <2>5. outcome' \in Seq(Finishes)
    BY <1>0, <2>1, <2>2, AppendProperties, Zenon
  <2>6. worker' = worker /\ starts' = starts /\ undisturbed' = undisturbed
    BY <1>7 DEF FinishSequence
  <2>7. WorkerOK'
    BY <1>0, <2>6, Zenon DEF WorkerOK
  <2> QED BY <1>0, <1>1, <2>3, <2>4, <2>5, <2>6, <2>7, Zenon
<1>8. ASSUME NEW m \in net, DropResult(m) \/ Lose(m)
      PROVE  TypeInv'
  <2>1. /\ net' = net \ {m} /\ sequences' = sequences /\ worker' = worker
        /\ starts' = starts /\ undisturbed' = undisturbed /\ outcome' = outcome
    BY <1>8 DEF DropResult, Lose
  <2>2. net' \subseteq Messages
    BY <1>0, <2>1
  <2>3. WorkerOK'
    BY <1>0, <2>1, Zenon DEF WorkerOK
  <2> QED BY <1>0, <1>1, <2>1, <2>2, <2>3, Zenon
<1>9. ASSUME ControlStep
      PROVE  TypeInv'
  <2>1. /\ net' = net /\ sequences' = sequences /\ worker' = worker
        /\ starts' = starts /\ outcome' = outcome
    BY <1>9 DEF ControlStep
  <2>2. undisturbed' \subseteq undisturbed
    BY <1>9 DEF ControlStep
  <2>3. WorkerOK'
    BY <1>0, <2>1, Zenon DEF WorkerOK
  <2>4. undisturbed' \subseteq 1 .. starts'
    BY <1>0, <2>1, <2>2
  <2> QED BY <1>0, <1>1, <2>1, <2>3, <2>4, Zenon
<1> QED
  BY <1>2, <1>3, <1>4, <1>5, <1>6, <1>7, <1>8, <1>9, Zenon DEF InferenceNext

LEMMA InferenceInvariant == InferenceSpec => [](IInv /\ TypeInv)
<1>1. InferenceInit => IInv /\ TypeInv
  BY InitEstablishes, TypeInvInit DEF InferenceInit
<1>2. IInv /\ TypeInv /\ [InferenceNext]_vars => IInv' /\ TypeInv'
  BY SwarmGoesOn, StepKeeps, TypeKeeps DEF IInv
<1> QED
  BY <1>1, <1>2, PTL DEF InferenceSpec

\* Every variable of the data plane holds a value of its kind at all times:
\* messages are well-formed whatever stages, layers and late results they were
\* built from, a task goes to a peer only, and what a worker computes is made of
\* layers the model has.
THEOREM InferenceTyped == InferenceSpec => []InferenceTypeOK
<1>1. IInv /\ TypeInv => InferenceTypeOK
  BY DEF TypeInv
<1> QED
  BY <1>1, InferenceInvariant, PTL

------------------------------------------------------------------------
(* Attempts.  An attempt belongs to one sequence until it has finished,    *)
(* and to none after that.                                                 *)

ActiveAttempt(t) == sequences[t].active => sequences[t].att \in 1 .. starts

OwnAttempt(t, u) ==
  sequences[t].active /\ sequences[u].active /\ sequences[t].att = sequences[u].att => t = u

AttemptIsOver(o) ==
  /\ o.att \in 1 .. starts
  /\ \A t \in Tasks : sequences[t].active => sequences[t].att # o.att

AttemptInv ==
  /\ \A t \in Tasks : ActiveAttempt(t)
  /\ \A t, u \in Tasks : OwnAttempt(t, u)
  /\ \A i \in DOMAIN outcome : AttemptIsOver(outcome[i])
  /\ FinishedOnce

\* One more answer: what was answered before stays where it was.
LEMMA AnswerAppended ==
  ASSUME TypeInv, NEW o \in Finishes, outcome' = Append(outcome, o)
  PROVE  \A i \in DOMAIN outcome' :
           \/ i \in DOMAIN outcome /\ outcome'[i] = outcome[i]
           \/ i = Len(outcome) + 1 /\ outcome'[i] = o
<1>1. outcome \in Seq(Finishes) /\ Len(outcome) \in Nat
  <2>1. outcome \in Seq(Finishes)
    BY DEF TypeInv, InferenceTypeOK, Finishes
  <2> QED BY <2>1, LenProperties, Zenon
<1>2. /\ DOMAIN outcome = 1 .. Len(outcome)
      /\ DOMAIN outcome' = 1 .. (Len(outcome) + 1)
      /\ \A i \in 1 .. Len(outcome) : outcome'[i] = outcome[i]
      /\ outcome'[Len(outcome) + 1] = o
  BY <1>1
<1>3. \A i \in 1 .. (Len(outcome) + 1) : i \in 1 .. Len(outcome) \/ i = Len(outcome) + 1
  BY <1>1
<1> QED
  BY <1>2, <1>3, Zenon

LEMMA AttemptInit == InferenceInit => AttemptInv
<1>1. NotActive.active = FALSE
  BY DEF NotActive
<1>2. InferenceInit => outcome = <<>> /\ \A t \in Tasks : sequences[t] = NotActive
  BY DEF InferenceInit
<1>3. outcome = <<>> => DOMAIN outcome = {}
  OBVIOUS
<1> QED
  BY <1>1, <1>2, <1>3, Zenon
     DEF AttemptInv, ActiveAttempt, OwnAttempt, AttemptIsOver, FinishedOnce

LEMMA AttemptKeeps == TypeOK /\ TypeInv /\ AttemptInv /\ [InferenceNext]_vars => AttemptInv'
<1> SUFFICES ASSUME TypeOK, TypeInv, AttemptInv, [InferenceNext]_vars
             PROVE  AttemptInv'
  OBVIOUS
<1>0. /\ DOMAIN sequences = Tasks
      /\ starts \in Nat
      /\ \A t \in Tasks : sequences[t].active => sequences[t].att \in 1 .. starts
      /\ \A t, u \in Tasks : sequences[t].active /\ sequences[u].active
                               /\ sequences[t].att = sequences[u].att => t = u
      /\ \A i \in DOMAIN outcome :
           /\ outcome[i].att \in 1 .. starts
           /\ \A t \in Tasks : sequences[t].active => sequences[t].att # outcome[i].att
      /\ \A i, j \in DOMAIN outcome : outcome[i].att = outcome[j].att => i = j
  BY DEF TypeInv, InferenceTypeOK, AttemptInv, ActiveAttempt, OwnAttempt, AttemptIsOver,
         FinishedOnce
<1>1. /\ NotActive.active = FALSE
      /\ \A q, i, a : Sequence(q, i, a).active = TRUE /\ Sequence(q, i, a).att = a
  BY DEF NotActive, Sequence
<1>2. CASE UNCHANGED <<sequences, starts, outcome>>
  BY <1>0, <1>2
     DEF AttemptInv, ActiveAttempt, OwnAttempt, AttemptIsOver, FinishedOnce
<1>3. ASSUME NEW t \in Tasks, NEW seq \in SequenceIds, StartSequence(t, seq)
      PROVE  AttemptInv'
  <2>1. /\ starts' = starts + 1
        /\ sequences' = [sequences EXCEPT ![t] = Sequence(seq, 0, starts + 1)]
    BY <1>3, StartEffect, Zenon
  <2>2. outcome' = outcome
    BY <1>3 DEF StartSequence
  <2>3. \A u \in Tasks : sequences'[u] = IF u = t THEN Sequence(seq, 0, starts + 1)
                                         ELSE sequences[u]
    BY <1>0, <2>1
  <2>4. /\ \A a \in 1 .. starts : a \in 1 .. starts' /\ a # starts + 1
        /\ starts + 1 \in 1 .. starts'
    BY <1>0, <2>1
  <2>5. \A u \in Tasks : sequences'[u].active =>
          \/ u = t /\ sequences'[u].att = starts + 1
          \/ u # t /\ sequences[u].active /\ sequences'[u].att = sequences[u].att
    BY <1>1, <2>3
  <2>6. (\A u \in Tasks : ActiveAttempt(u))'
    BY <1>0, <2>4, <2>5, Zenon DEF ActiveAttempt
  <2>7. (\A u, v \in Tasks : OwnAttempt(u, v))'
    BY <1>0, <2>4, <2>5 DEF OwnAttempt
  <2>8. (\A i \in DOMAIN outcome : AttemptIsOver(outcome[i]))'
    BY <1>0, <2>2, <2>4, <2>5 DEF AttemptIsOver
  <2>9. FinishedOnce'
    BY <1>0, <2>2 DEF FinishedOnce
  <2> QED BY <2>6, <2>7, <2>8, <2>9, Zenon DEF AttemptInv
<1>4. ASSUME NEW m \in net, ForwardResult(m)
      PROVE  AttemptInv'
  <2> DEFINE s == sequences[m.task]
  <2>1. /\ m.task \in Tasks /\ s.active
        /\ sequences' = [sequences EXCEPT ![m.task] = Sequence(s.seq, s.index + 1, s.att)]
    <3>1. InferenceTypeOK
      BY DEF TypeInv
    <3> QED BY <1>4, <3>1, ForwardEffect, Zenon
  <2>2. starts' = starts /\ outcome' = outcome
    BY <1>4 DEF ForwardResult
  <2>3. \A u \in Tasks : sequences'[u] = IF u = m.task THEN Sequence(s.seq, s.index + 1, s.att)
                                         ELSE sequences[u]
    BY <1>0, <2>1
  <2>4. \A u \in Tasks : sequences'[u].active =>
          sequences[u].active /\ sequences'[u].att = sequences[u].att
    BY <1>1, <2>1, <2>3
  <2> HIDE DEF s
  <2>5. (\A u \in Tasks : ActiveAttempt(u))'
    BY <1>0, <2>2, <2>4, Zenon DEF ActiveAttempt
  <2>6. (\A u, v \in Tasks : OwnAttempt(u, v))'
    BY <1>0, <2>4 DEF OwnAttempt
  <2>7. (\A i \in DOMAIN outcome : AttemptIsOver(outcome[i]))'
    BY <1>0, <2>2, <2>4 DEF AttemptIsOver
  <2>8. FinishedOnce'
    BY <1>0, <2>2 DEF FinishedOnce
  <2> QED BY <2>5, <2>6, <2>7, <2>8, Zenon DEF AttemptInv
<1>5. ASSUME NEW m \in net, FinishSequence(m)
      PROVE  AttemptInv'
  <2> DEFINE o == [att |-> sequences[m.task].att,
                   quiet |-> sequences[m.task].att \in undisturbed, logits |-> m.logits]
  <2>1. /\ m.task \in Tasks /\ sequences[m.task].active /\ m.logits \in Activations
        /\ sequences' = [sequences EXCEPT ![m.task] = NotActive]
        /\ outcome' = Append(outcome, o) /\ o \in Finishes
    <3>1. /\ m.task \in Tasks /\ sequences[m.task].active /\ m.logits \in Activations
          /\ sequences' = [sequences EXCEPT ![m.task] = NotActive]
          /\ outcome' = Append(outcome, o)
      BY <1>5, FinishEffect, Zenon
    <3>2. o \in Finishes
      BY <3>1, FinishIsTyped, Zenon
    <3> QED BY <3>1, <3>2, Zenon
  <2>2. starts' = starts
    BY <1>5 DEF FinishSequence
  <2>3. o.att = sequences[m.task].att
    BY Zenon
  <2> HIDE DEF o
  <2>4. \A u \in Tasks : sequences'[u] = IF u = m.task THEN NotActive ELSE sequences[u]
    BY <1>0, <2>1
  <2>5. (\A u \in Tasks : ActiveAttempt(u))'
    BY <1>0, <1>1, <2>2, <2>4, Zenon DEF ActiveAttempt
  <2>6. (\A u, v \in Tasks : OwnAttempt(u, v))'
    BY <1>0, <1>1, <2>4, ZenonT(30) DEF OwnAttempt
  <2>7. \A i \in DOMAIN outcome' :
          \/ i \in DOMAIN outcome /\ outcome'[i] = outcome[i]
          \/ i = Len(outcome) + 1 /\ outcome'[i] = o
    BY <2>1, AnswerAppended, Zenon
  <2>8. \A i \in DOMAIN outcome : outcome[i].att # o.att
    BY <1>0, <2>1, <2>3, Zenon
  <2>9. (\A i \in DOMAIN outcome : AttemptIsOver(outcome[i]))'
    <3>1. \A u \in Tasks : sequences'[u].active =>
            u # m.task /\ sequences[u].active /\ sequences'[u].att = sequences[u].att
      BY <1>1, <2>4, Zenon
    <3>2. o.att \in 1 .. starts
      BY <1>0, <2>1, <2>3, Zenon
    <3>3. \A u \in Tasks : sequences'[u].active => sequences'[u].att # o.att
      <4> SUFFICES ASSUME NEW u \in Tasks, sequences'[u].active,
                          sequences[u].att = sequences[m.task].att
                   PROVE  FALSE
        BY <2>3, <3>1, Zenon
      <4>1. u # m.task /\ sequences[u].active
        BY <3>1, Zenon
      <4> QED BY <1>0, <2>1, <4>1, Zenon
    <3>4. \A i \in DOMAIN outcome : outcome[i].att \in 1 .. starts
            /\ \A u \in Tasks : sequences'[u].active => sequences'[u].att # outcome[i].att
      BY <1>0, <3>1
    <3> QED BY <2>2, <2>7, <3>2, <3>3, <3>4, Zenon DEF AttemptIsOver
  <2>10. FinishedOnce'
    BY <1>0, <2>7, <2>8 DEF FinishedOnce
  <2> QED BY <2>5, <2>6, <2>9, <2>10, Zenon DEF AttemptInv
<1>6. ASSUME NEW m \in net, RunTask(m) \/ FailTask(m) \/ DropResult(m) \/ Lose(m)
      PROVE  UNCHANGED <<sequences, starts, outcome>>
  BY <1>6 DEF RunTask, FailTask, DropResult, Lose
<1>7. ASSUME ControlStep \/ UNCHANGED vars
      PROVE  UNCHANGED <<sequences, starts, outcome>>
  BY <1>7 DEF ControlStep, vars, dataVars
<1> QED
  BY <1>2, <1>3, <1>4, <1>5, <1>6, <1>7, Zenon DEF InferenceNext

\* FinishedOnce: no attempt is answered twice, not even with the same logits, for
\* any number of tasks and starts and any order in which results arrive.  An
\* attempt has one active sequence until its answer, and the answer removes it.
THEOREM InferenceFinishesOnce == InferenceSpec => []FinishedOnce
<1>1. InferenceInit => AttemptInv
  BY AttemptInit
<1>2. (IInv /\ TypeInv) /\ AttemptInv /\ [InferenceNext]_vars => AttemptInv'
  BY AttemptKeeps DEF IInv
<1>3. AttemptInv => FinishedOnce
  BY DEF AttemptInv
<1> QED
  BY <1>1, <1>2, <1>3, InferenceInvariant, PTL DEF InferenceSpec

------------------------------------------------------------------------
(* A sequence that nothing disturbs.  Its one message, if it is not lost,  *)
(* stands for its index: that is what the next result needs to be right.   *)

OnStage(t, m) ==
  LET s     == sequences[t]
      at    == stages[s.index + 1]
      range == LayerRange(at)
  IN  /\ m.att = s.att
      /\ \/ /\ m.kind = "ProcessTask"
            /\ m.to = at /\ m.range = range
            /\ m.nodes = stages /\ m.index = s.index
            /\ m.input = IF s.index = 0 THEN NoState ELSE UpTo(range[1], s.att)
         \/ /\ m.kind = "TaskResult"
            /\ m.output = UpTo(range[2], s.att)
            /\ range[2] >= TotalLayers => m.logits = m.output

\* A message of the sequence that is active at t, or of one its results are
\* taken for.
Own(t, m) == m.task = t /\ m.seq = sequences[t].seq

OnItsWay(t) ==
  /\ QuietRoute
  /\ sequences[t].index < Len(stages)
  /\ \A m, k \in net : Own(t, m) /\ Own(t, k) => m = k
  /\ \A m \in net : Own(t, m) => OnStage(t, m)

Quiet(t) == sequences[t].active /\ sequences[t].att \in undisturbed

QuietInv == \A t \in Tasks : Quiet(t) => OnItsWay(t)

\* A step that leaves the plan and the sequence alone, and adds no message of
\* the sequence.
LEMMA Elsewhere ==
  ASSUME NEW t \in Tasks, OnItsWay(t), UNCHANGED <<assigned, stages>>,
         sequences'[t] = sequences[t], \A m \in net' : Own(t, m) => m \in net
  PROVE  OnItsWay(t)'
<1>1. QuietRoute'
  BY DEF OnItsWay, QuietRoute
<1>2. ASSUME NEW m, OnStage(t, m)
      PROVE  OnStage(t, m)'
  BY <1>2, Zenon DEF OnStage, LayerRange
<1>3. \A m : Own(t, m)' <=> Own(t, m)
  BY DEF Own
<1> HIDE DEF Own
<1> QED
  BY <1>1, <1>2, <1>3 DEF OnItsWay

\* A step that leaves the plan alone and puts another message of the sequence
\* in the place of the one there was.
LEMMA MovesOn ==
  ASSUME NEW t \in Tasks, OnItsWay(t), UNCHANGED <<assigned, stages>>,
         NEW m \in net, Own(t, m), NEW k, net' = (net \ {m}) \cup {k},
         OnStage(t, k)', sequences'[t].index < Len(stages),
         sequences'[t].seq = sequences[t].seq
  PROVE  OnItsWay(t)'
<1>1. QuietRoute'
  BY DEF OnItsWay, QuietRoute
<1>2. \A j : Own(t, j)' <=> Own(t, j)
  BY DEF Own
<1> HIDE DEF Own
<1>3. \A j \in net' : Own(t, j)' => j = k
  BY <1>2 DEF OnItsWay
<1> QED
  BY <1>1, <1>3 DEF OnItsWay

\* The stage a quiet sequence is at, and where its slice and the next begin.
LEMMA StageOf ==
  ASSUME TypeOK, TypeInv, NEW t \in Tasks, OnItsWay(t), sequences[t].active
  PROVE  LET s  == sequences[t]
             at == stages[s.index + 1]
             a  == LayerRange(at)[1]
             b  == LayerRange(at)[2]
         IN  /\ s.index \in Nat /\ s.att \in 1 .. MaxStarts
             /\ stages \in Seq(PeerNodes)
             /\ at \in PeerNodes /\ at \in Nodes
             /\ a \in Nat /\ b \in Nat /\ a < b /\ b <= TotalLayers
             /\ LayerRange(at) = <<a, b>>
             /\ s.index = 0 => a = 0
             /\ s.index + 1 < Len(stages) => LayerRange(stages[s.index + 2])[1] = b
             /\ ~ (s.index + 1 < Len(stages)) => b = TotalLayers
<1> DEFINE i == sequences[t].index + 1
<1>1. sequences[t].index \in Nat /\ sequences[t].att \in 1 .. MaxStarts
  BY SequenceFields DEF TypeInv
<1>2. stages \in Seq(PeerNodes) /\ sequences[t].index < Len(stages)
  BY DEF TypeOK, OnItsWay
<1>3. i \in 1 .. Len(stages) /\ i \in DOMAIN stages
  BY <1>1, <1>2
<1>4. stages[i] \in PeerNodes /\ stages[i] \in Nodes
  <2>1. \A j \in 1 .. Len(stages) : stages[j] \in PeerNodes
    BY <1>2
  <2> QED BY <1>3, <2>1, NodesAssumption
<1>5. assigned[stages[i]] # {}
  BY <1>3 DEF OnItsWay, QuietRoute
<1> DEFINE a == LayerRange(stages[i])[1]
<1> DEFINE b == LayerRange(stages[i])[2]
<1>6. /\ a \in Nat /\ b \in Nat /\ a < b /\ b <= TotalLayers
      /\ LayerRange(stages[i]) = <<a, b>>
  BY <1>4, <1>5, RangeOfNode, Zenon
<1>7. /\ i = 1 => a = 0
      /\ i < Len(stages) => LayerRange(stages[i + 1])[1] = b
      /\ i = Len(stages) => b = TotalLayers
  BY <1>3, RouteBounds, Zenon DEF OnItsWay
<1>8. /\ sequences[t].index = 0 => i = 1
      /\ i + 1 = sequences[t].index + 2
      /\ ~ (i < Len(stages)) => i = Len(stages)
  BY <1>1, <1>2, <1>3
<1> HIDE DEF a, b
<1>9. /\ sequences[t].index = 0 => a = 0
      /\ sequences[t].index + 1 < Len(stages) => LayerRange(stages[sequences[t].index + 2])[1] = b
      /\ ~ (sequences[t].index + 1 < Len(stages)) => b = TotalLayers
  BY <1>7, <1>8
<1> QED
  BY <1>1, <1>2, <1>4, <1>6, <1>9, Zenon DEF a, b

\* What the worker of a quiet sequence's stage computes, whatever hidden state
\* earlier tasks left there: the sequence's tokens after that stage.
LEMMA QuietRun ==
  ASSUME TypeOK, TypeInv, NEW m \in net, m.kind = "ProcessTask", m.task \in Tasks,
         sequences[m.task].active, OnItsWay(m.task), Own(m.task, m), NEW w
  PROVE  Activation(w, m) = UpTo(m.range[2], m.att)
<1> DEFINE s == sequences[m.task]
<1> DEFINE a == m.range[1]
<1> DEFINE b == m.range[2]
<1>1. OnStage(m.task, m)
  BY DEF OnItsWay
<1>2. /\ m.att = s.att /\ m.range = LayerRange(stages[s.index + 1])
      /\ m.input = IF s.index = 0 THEN NoState ELSE UpTo(a, s.att)
  BY <1>1 DEF OnStage
<1>3. /\ s.att \in 1 .. MaxStarts
      /\ a \in Nat /\ b \in Nat /\ a < b /\ b <= TotalLayers /\ m.range = <<a, b>>
      /\ s.index = 0 => a = 0
  BY <1>2, StageOf
<1> DEFINE in == IF m.range[1] = 0 THEN [layers |-> <<>>, job |-> m.att]
                                   ELSE HiddenBefore(w, m)
<1>4. in = UpTo(a, m.att)
  <2>1. CASE a = 0
    <3>1. Below(0) = <<>>
      BY DEF Below
    <3> QED BY <2>1, <3>1 DEF UpTo
  <2>2. CASE a # 0
    <3>1. m.input = UpTo(a, m.att)
      BY <1>2, <1>3, <2>2
    <3>2. m.att # 0
      BY <1>2, <1>3
    <3>3. HiddenBefore(w, m) = UpTo(a, m.att)
      BY <3>1, <3>2, NoStateFacts, Zenon DEF HiddenBefore
    <3> QED BY <2>2, <3>3, Zenon
  <2> QED BY <2>1, <2>2
<1>5. Activation(w, m) = [in EXCEPT !.layers = @ \o RunOf(m.range)]
  BY DEF Activation
<1>6. RunOf(m.range) \in Seq(Layers) /\ Below(a) \o RunOf(m.range) = Below(b)
  <2> HIDE DEF a, b
  <2>1. RunOf(<<a, b>>) \in Seq(Layers)
    BY <1>3, RunsLayers
  <2>2. a \in Nat /\ b \in Nat /\ a <= b /\ b <= TotalLayers
    BY <1>3
  <2>3. Below(a) \o RunOf(<<a, b>>) = Below(b)
    BY <2>2, RunsOn, Zenon
  <2> QED BY <1>3, <2>1, <2>3
<1>7. in \in Activations
  <2>1. a \in 0 .. TotalLayers /\ m.att \in 0 .. MaxStarts
    BY <1>2, <1>3, TotalLayersAssumption
  <2> HIDE DEF a
  <2> QED BY <1>4, <2>1, UpToIsActivation
<1> DEFINE run == RunOf(m.range)
<1>8. run \in Seq(Layers) /\ Activation(w, m) = [in EXCEPT !.layers = @ \o run]
  BY <1>5, <1>6
<1>9. in.layers = Below(a) /\ in.job = m.att
  <2> HIDE DEF in
  <2> QED BY <1>4 DEF UpTo
<1> HIDE DEF in, run
<1>10. Activation(w, m) = [layers |-> in.layers \o run, job |-> in.job]
  <2>1. [in EXCEPT !.layers = @ \o run] = [layers |-> in.layers \o run, job |-> in.job]
    BY <1>7, <1>8, Extends
  <2> QED BY <1>8, <2>1
<1>11. in.layers \o run = Below(b)
  <2> HIDE DEF a, b
  <2> QED BY <1>6, <1>9 DEF run
<1> QED
  BY <1>9, <1>10, <1>11 DEF UpTo

LEMMA QuietInit == InferenceInit => QuietInv /\ FinishedIsComplete
<1>1. InferenceInit => undisturbed = {} /\ outcome = <<>>
  BY DEF InferenceInit
<1>2. outcome = <<>> => DOMAIN outcome = {}
  OBVIOUS
<1> QED
  BY <1>1, <1>2, Zenon DEF QuietInv, Quiet, FinishedIsComplete

\* A step that neither changes the plan nor what a task is at.
LEMMA TaskKept ==
  ASSUME QuietInv, NEW t \in Tasks, UNCHANGED <<assigned, stages>>,
         sequences'[t] = sequences[t], Quiet(t)' => Quiet(t),
         \A m \in net' : Own(t, m) => m \in net
  PROVE  (Quiet(t) => OnItsWay(t))'
BY Elsewhere DEF QuietInv

LEMMA StartKeeps ==
  ASSUME TypeOK, TypeInv, AttemptInv, QuietInv, NEW t \in Tasks, NEW seq \in SequenceIds,
         StartSequence(t, seq)
  PROVE  QuietInv'
<1> DEFINE first == SortedByCapacity(AcceptingTasks(state), composite)[1]
<1> DEFINE att == starts + 1
<1>1. /\ DOMAIN sequences = Tasks
      /\ sequences' = [sequences EXCEPT ![t] = Sequence(seq, 0, att)]
      /\ net' = net \cup {FirstTask(t, seq)}
  BY StartEffect, Zenon DEF TypeInv, InferenceTypeOK
<1>2. /\ assigned' = assigned /\ stages' = stages
      /\ undisturbed' \subseteq undisturbed \cup (IF QuietStart(t, seq, first) THEN {att} ELSE {})
      /\ stages # <<>>
  BY DEF StartSequence, swarmVars
<1>3. /\ starts \in Nat /\ undisturbed \subseteq 1 .. starts
      /\ \A u \in Tasks : sequences[u].active => sequences[u].att \in 1 .. starts
  BY DEF TypeInv, InferenceTypeOK, AttemptInv, ActiveAttempt
<1>4. \A a \in 1 .. starts : a # att
  BY <1>3
<1>5. /\ \A q, i, a : /\ Sequence(q, i, a).active = TRUE
                      /\ Sequence(q, i, a).index = i /\ Sequence(q, i, a).att = a
                      /\ Sequence(q, i, a).seq = q
      /\ FirstTask(t, seq) = ProcessTask(first, t, seq, att, LayerRange(first), NoState, 0)
  BY DEF Sequence, FirstTask
<1>6. FirstTask(t, seq).task = t
  BY <1>5 DEF ProcessTask
<1>7. ASSUME NEW u \in Tasks, u # t
      PROVE  (Quiet(u) => OnItsWay(u))'
  <2>1. sequences'[u] = sequences[u]
    BY <1>1, <1>7
  <2>2. \A m \in net' : Own(u, m) => m \in net
    BY <1>1, <1>6, <1>7, Zenon DEF Own
  <2>3. Quiet(u)' => Quiet(u)
    BY <1>2, <1>3, <1>4, <2>1 DEF Quiet
  <2> QED BY <1>2, <2>1, <2>2, <2>3, TaskKept, Zenon
<1>8. ASSUME Quiet(t)'
      PROVE  OnItsWay(t)'
  <2>1. sequences'[t] = Sequence(seq, 0, att)
    BY <1>1
  <2>2. QuietStart(t, seq, first)
    <3>1. att \in undisturbed'
      BY <1>5, <1>8, <2>1 DEF Quiet
    <3> QED BY <1>2, <1>3, <1>4, <3>1
  <2> HIDE DEF first, att
  <2>3. QuietRoute'
    BY <1>2, <2>2, Zenon DEF QuietStart, QuietRoute
  <2>4. PICK k : k = FirstTask(t, seq)
    OBVIOUS
  <2>6. /\ sequences'[t].index = 0 /\ sequences'[t].att = att
        /\ sequences'[t].seq = seq
    BY <1>5, <2>1
  <2>5. \A m \in net' : Own(t, m)' => m = k
    BY <1>1, <2>2, <2>4, <2>6, Zenon DEF QuietStart, Own
  <2>7. 0 < Len(stages)
    BY <1>2 DEF TypeOK
  <2>8. OnStage(t, k)'
    <3>1. /\ k.att = att /\ k.kind = "ProcessTask" /\ k.to = first
          /\ k.range = LayerRange(first) /\ k.nodes = stages /\ k.index = 0
          /\ k.input = NoState
      BY <1>5, <2>4 DEF ProcessTask
    <3>2. first = stages[0 + 1]
      BY <2>2 DEF QuietStart
    <3>3. k.range = LayerRange(stages[0 + 1])'
      BY <1>2, <3>1, <3>2, Zenon DEF LayerRange
    <3> QED BY <1>2, <2>6, <3>1, <3>2, <3>3, Zenon DEF OnStage
  <2> QED BY <1>2, <2>3, <2>5, <2>6, <2>7, <2>8 DEF OnItsWay
<1> QED
  BY <1>7, <1>8, Zenon DEF QuietInv

LEMMA RunKeeps ==
  ASSUME TypeOK, TypeInv, QuietInv, NEW m \in net, RunTask(m)
  PROVE  QuietInv'
<1> DEFINE out == Activation(worker[m.to], m)
<1>1. /\ m \in Messages /\ m.kind = "ProcessTask"
      /\ net' = (net \ {m}) \cup {ResultOf(m, out)}
  BY RunEffect, Zenon
<1>2. /\ assigned' = assigned /\ stages' = stages
      /\ sequences' = sequences /\ undisturbed' = undisturbed
  BY DEF RunTask, swarmVars
<1>3. /\ m.task \in Tasks
      /\ ResultOf(m, out).task = m.task /\ ResultOf(m, out).seq = m.seq
  BY <1>1, MessageFields DEF ResultOf
<1>4. ASSUME NEW u \in Tasks, ~ Own(u, m)
      PROVE  (Quiet(u) => OnItsWay(u))'
  <2>1. ~ Own(u, ResultOf(m, out))
    BY <1>3, <1>4, Zenon DEF Own
  <2>2. \A k \in net' : Own(u, k) => k \in net
    BY <1>1, <2>1, Zenon
  <2>3. Quiet(u)' => Quiet(u)
    BY <1>2 DEF Quiet
  <2> QED BY <1>2, <2>2, <2>3, TaskKept, Zenon
<1>5. ASSUME Quiet(m.task)', Own(m.task, m)
      PROVE  OnItsWay(m.task)'
  <2> DEFINE s == sequences[m.task]
  <2>1. OnItsWay(m.task) /\ s.active
    BY <1>2, <1>3, <1>5 DEF Quiet, QuietInv
  <2>2. OnStage(m.task, m) /\ s.index < Len(stages)
    BY <1>5, <2>1 DEF OnItsWay
  <2>3. m.att = s.att /\ m.range = LayerRange(stages[s.index + 1])
    BY <1>1, <2>2 DEF OnStage
  <2>4. out = UpTo(m.range[2], m.att)
    BY <1>1, <1>3, <1>5, <2>1, QuietRun
  <2> HIDE DEF out
  <2>5. PICK k : k = ResultOf(m, out)
    OBVIOUS
  <2>6. /\ k.kind = "TaskResult" /\ k.task = m.task /\ k.att = m.att /\ k.output = out
        /\ k.logits = IF m.range[2] >= TotalLayers THEN out ELSE NoState
    BY <2>5, Zenon DEF ResultOf
  <2>7. OnStage(m.task, k)'
    <3>1. LayerRange(stages[s.index + 1])' = m.range
      BY <1>2, <2>3, Zenon DEF LayerRange
    <3>2. /\ k.att = s.att /\ k.output = UpTo(m.range[2], s.att)
          /\ m.range[2] >= TotalLayers => k.logits = k.output
      BY <2>3, <2>4, <2>6, Zenon
    <3> QED BY <1>2, <2>6, <3>1, <3>2, Zenon DEF OnStage
  <2> QED BY <1>1, <1>2, <1>3, <1>5, <2>1, <2>2, <2>5, <2>6, <2>7, MovesOn, Zenon
<1>6. \A u \in Tasks : Own(u, m) => u = m.task
  BY DEF Own
<1> QED
  BY <1>4, <1>5, <1>6, Zenon DEF QuietInv

LEMMA ForwardKeeps ==
  ASSUME TypeOK, TypeInv, QuietInv, NEW m \in net, ForwardResult(m)
  PROVE  QuietInv'
<1> DEFINE s == sequences[m.task]
<1> DEFINE dest == stages[s.index + 2]
<1>1. /\ m \in Messages /\ m.kind = "TaskResult" /\ m.task \in Tasks
      /\ s.active /\ s.seq = m.seq /\ s.index + 1 < Len(stages)
      /\ sequences' = [sequences EXCEPT ![m.task] = Sequence(s.seq, s.index + 1, s.att)]
      /\ net' = (net \ {m}) \cup {NextTask(m)}
  <2>1. InferenceTypeOK
    BY DEF TypeInv
  <2> QED BY <2>1, ForwardEffect, Zenon
<1>2. /\ assigned' = assigned /\ stages' = stages /\ undisturbed' = undisturbed
      /\ DOMAIN sequences = Tasks
  BY DEF ForwardResult, swarmVars, TypeInv, InferenceTypeOK
<1>3. NextTask(m) = ProcessTask(dest, m.task, m.seq, s.att, LayerRange(dest), m.output,
                                s.index + 1)
  BY DEF NextTask
<1>4. NextTask(m).task = m.task
  BY <1>3 DEF ProcessTask
<1>5. ASSUME NEW u \in Tasks, u # m.task
      PROVE  (Quiet(u) => OnItsWay(u))'
  <2>1. \A k \in net' : Own(u, k) => k \in net
    BY <1>1, <1>4, <1>5, Zenon DEF Own
  <2>2. sequences'[u] = sequences[u]
    BY <1>1, <1>2, <1>5
  <2>3. Quiet(u)' => Quiet(u)
    BY <1>2, <2>2 DEF Quiet
  <2> QED BY <1>2, <2>1, <2>2, <2>3, TaskKept, Zenon
<1>6. ASSUME Quiet(m.task)'
      PROVE  OnItsWay(m.task)'
  <2> DEFINE at == stages[s.index + 1]
  <2>1. /\ sequences'[m.task] = Sequence(s.seq, s.index + 1, s.att)
        /\ sequences'[m.task].index = s.index + 1 /\ sequences'[m.task].att = s.att
        /\ sequences'[m.task].seq = s.seq
    <3>1. sequences'[m.task] = Sequence(s.seq, s.index + 1, s.att)
      BY <1>1, <1>2
    <3> QED BY <3>1 DEF Sequence
  <2>2. OnItsWay(m.task)
    BY <1>1, <1>2, <1>6, <2>1 DEF Quiet, QuietInv
  <2>3. Own(m.task, m) /\ OnStage(m.task, m)
    BY <1>1, <2>2, Zenon DEF OnItsWay, Own
  <2>4. m.att = s.att /\ m.output = UpTo(LayerRange(at)[2], s.att)
    BY <1>1, <2>3 DEF OnStage
  <2>5. s.index \in Nat /\ LayerRange(dest)[1] = LayerRange(at)[2]
    BY <1>1, <2>2, StageOf
  <2> HIDE DEF at
  <2>6. PICK k : k = NextTask(m)
    OBVIOUS
  <2>7. /\ k.kind = "ProcessTask" /\ k.task = m.task /\ k.att = s.att /\ k.to = dest
        /\ k.range = LayerRange(dest) /\ k.nodes = stages /\ k.index = s.index + 1
        /\ k.input = m.output
    BY <1>3, <2>6 DEF ProcessTask
  <2>8. OnStage(m.task, k)'
    <3> DEFINE i == s.index + 1
    <3>1. s.index + 2 = i + 1 /\ i # 0
      BY <2>5
    <3> HIDE DEF i
    <3>2. stages'[sequences'[m.task].index + 1] = dest
      BY <1>2, <2>1, <3>1 DEF i
    <3>3. LayerRange(stages[sequences[m.task].index + 1])' = k.range
      BY <1>2, <2>7, <3>2, Zenon DEF LayerRange
    <3>4. /\ k.att = s.att /\ sequences'[m.task].index # 0
          /\ k.input = UpTo(k.range[1], s.att)
      BY <2>1, <2>4, <2>5, <2>7, <3>1 DEF i
    <3>5. k.nodes = stages' /\ k.index = sequences'[m.task].index
      BY <1>2, <2>1, <2>7
    <3> QED BY <2>1, <2>7, <3>2, <3>3, <3>4, <3>5, Zenon DEF OnStage
  <2>9. sequences'[m.task].index < Len(stages)
    BY <1>1, <2>1
  <2> QED BY <1>1, <1>2, <2>1, <2>2, <2>3, <2>6, <2>8, <2>9, MovesOn, Zenon
<1> QED
  BY <1>5, <1>6, Zenon DEF QuietInv

\* A quiet sequence's last result is the answer of the whole model.
LEMMA FinishKeeps ==
  ASSUME TypeOK, TypeInv, QuietInv, FinishedIsComplete, NEW m \in net, FinishSequence(m)
  PROVE  QuietInv' /\ FinishedIsComplete'
<1> DEFINE s == sequences[m.task]
<1> DEFINE o == [att |-> s.att, quiet |-> s.att \in undisturbed, logits |-> m.logits]
<1>1. /\ m.kind = "TaskResult" /\ m.task \in Tasks
      /\ s.active /\ s.seq = m.seq /\ ~ HasNextStage(m.task)
      /\ m.logits \in Activations
      /\ sequences' = [sequences EXCEPT ![m.task] = NotActive]
      /\ net' = net \ {m}
      /\ outcome' = Append(outcome, o)
  BY FinishEffect, Zenon
<1>2. /\ assigned' = assigned /\ stages' = stages /\ undisturbed' = undisturbed
      /\ DOMAIN sequences = Tasks
  BY DEF FinishSequence, swarmVars, TypeInv, InferenceTypeOK
<1>3. ASSUME NEW u \in Tasks
      PROVE  (Quiet(u) => OnItsWay(u))'
  <2>1. CASE u = m.task
    <3>1. NotActive.active = FALSE
      BY DEF NotActive
    <3>2. ~ Quiet(u)'
      BY <1>1, <1>2, <2>1, <3>1 DEF Quiet
    <3> QED BY <3>2
  <2>2. CASE u # m.task
    <3>1. \A k \in net' : Own(u, k) => k \in net
      BY <1>1
    <3>2. sequences'[u] = sequences[u]
      BY <1>1, <1>2, <2>2
    <3>3. Quiet(u)' => Quiet(u)
      BY <1>2, <3>2 DEF Quiet
    <3> QED BY <1>2, <3>1, <3>2, <3>3, TaskKept, Zenon
  <2> QED BY <2>1, <2>2, Zenon
<1>4. ASSUME s.att \in undisturbed
      PROVE  m.logits = WholeModel(s.att)
  <2> DEFINE b == LayerRange(stages[s.index + 1])[2]
  <2>1. OnItsWay(m.task)
    BY <1>1, <1>4, Zenon DEF QuietInv, Quiet
  <2>2. OnStage(m.task, m)
    BY <1>1, <2>1, Zenon DEF OnItsWay, Own
  <2>3. ~ (s.index + 1 < Len(stages))
    BY <1>1 DEF HasNextStage
  <2>4. b = TotalLayers /\ b \in Nat
    BY <1>1, <2>1, <2>3, StageOf
  <2>5. m.output = UpTo(b, s.att) /\ (b >= TotalLayers => m.logits = m.output)
    BY <1>1, <2>2 DEF OnStage
  <2> HIDE DEF b
  <2>6. m.logits = UpTo(TotalLayers, s.att)
    BY <2>4, <2>5
  <2> QED BY <2>6 DEF UpTo, Below, WholeModel
<1>5. (o.quiet <=> s.att \in undisturbed) /\ o.logits = m.logits /\ o.att = s.att
  OBVIOUS
<1>6. o \in Finishes
  BY <1>1, FinishIsTyped, Zenon
<1> HIDE DEF o
<1>7. \A i \in DOMAIN outcome' :
        \/ i \in DOMAIN outcome /\ outcome'[i] = outcome[i]
        \/ i = Len(outcome) + 1 /\ outcome'[i] = o
  BY <1>1, <1>6, AnswerAppended, Zenon
<1>8. \A att : WholeModel(att)' = WholeModel(att)
  BY DEF WholeModel
<1> HIDE DEF WholeModel
<1>9. FinishedIsComplete'
  BY <1>4, <1>5, <1>7, <1>8, Zenon DEF FinishedIsComplete
<1> QED
  BY <1>3, <1>9, Zenon DEF QuietInv

LEMMA QuietKeeps ==
  TypeOK /\ TypeInv /\ AttemptInv /\ QuietInv /\ FinishedIsComplete /\ [InferenceNext]_vars
    => QuietInv' /\ FinishedIsComplete'
<1> SUFFICES ASSUME TypeOK, TypeInv, AttemptInv, QuietInv, FinishedIsComplete,
                    [InferenceNext]_vars
             PROVE  QuietInv' /\ FinishedIsComplete'
  OBVIOUS
<1>1. ASSUME outcome' = outcome
      PROVE  FinishedIsComplete'
  BY <1>1 DEF FinishedIsComplete
\* No plan, sequence or attempt is touched and no message added.
<1>2. ASSUME UNCHANGED <<assigned, stages, sequences>>, undisturbed' \subseteq undisturbed,
             net' \subseteq net
      PROVE  QuietInv'
  <2> SUFFICES ASSUME NEW u \in Tasks
               PROVE  (Quiet(u) => OnItsWay(u))'
    BY Zenon DEF QuietInv
  <2>1. \A k \in net' : Own(u, k) => k \in net
    BY <1>2
  <2>2. Quiet(u)' => Quiet(u)
    BY <1>2 DEF Quiet
  <2> QED BY <1>2, <2>1, <2>2, TaskKept, Zenon
<1>3. ASSUME NEW t \in Tasks, NEW seq \in SequenceIds, StartSequence(t, seq)
      PROVE  QuietInv' /\ FinishedIsComplete'
  <2>1. outcome' = outcome
    BY <1>3 DEF StartSequence
  <2> QED BY <1>1, <1>3, <2>1, StartKeeps
<1>4. ASSUME NEW m \in net, RunTask(m)
      PROVE  QuietInv' /\ FinishedIsComplete'
  <2>1. outcome' = outcome
    BY <1>4 DEF RunTask
  <2> QED BY <1>1, <1>4, <2>1, RunKeeps
<1>5. ASSUME NEW m \in net, ForwardResult(m)
      PROVE  QuietInv' /\ FinishedIsComplete'
  <2>1. outcome' = outcome
    BY <1>5 DEF ForwardResult
  <2> QED BY <1>1, <1>5, <2>1, ForwardKeeps
<1>6. ASSUME NEW m \in net, FinishSequence(m)
      PROVE  QuietInv' /\ FinishedIsComplete'
  BY <1>6, FinishKeeps
<1>7. ASSUME NEW m \in net, FailTask(m) \/ DropResult(m) \/ Lose(m)
      PROVE  QuietInv' /\ FinishedIsComplete'
  <2>1. /\ UNCHANGED <<assigned, stages, sequences>> /\ undisturbed' \subseteq undisturbed
        /\ net' \subseteq net /\ outcome' = outcome
    BY <1>7 DEF FailTask, DropResult, Lose, swarmVars
  <2> QED BY <1>1, <1>2, <2>1
<1>8. ASSUME ControlStep
      PROVE  QuietInv' /\ FinishedIsComplete'
  <2>1. UNCHANGED <<sequences, net, outcome>>
    BY <1>8 DEF ControlStep
  <2>2. CASE UNCHANGED <<assigned, stages>>
    <3>1. undisturbed' = undisturbed
      BY <1>8, <2>2 DEF ControlStep
    <3> QED BY <1>1, <1>2, <2>1, <2>2, <3>1
  <2>3. CASE ~ UNCHANGED <<assigned, stages>>
    <3>1. undisturbed' = {}
      BY <1>8, <2>3 DEF ControlStep
    <3>2. QuietInv'
      BY <3>1 DEF QuietInv, Quiet
    <3> QED BY <1>1, <2>1, <3>2
  <2> QED BY <2>2, <2>3
<1>9. CASE UNCHANGED vars
  <2>1. UNCHANGED <<assigned, stages, sequences, undisturbed, net, outcome>>
    BY <1>9 DEF vars, swarmVars, dataVars
  <2> QED BY <1>1, <1>2, <2>1
<1> QED
  BY <1>3, <1>4, <1>5, <1>6, <1>7, <1>8, <1>9, Zenon DEF InferenceNext

LEMMA QuietInvariant == InferenceSpec => [](TypeInv /\ TypeOK /\ QuietInv /\ FinishedIsComplete)
<1>1. InferenceInit => AttemptInv /\ QuietInv /\ FinishedIsComplete
  BY AttemptInit, QuietInit
<1>2. /\ IInv /\ TypeInv
      /\ AttemptInv /\ QuietInv /\ FinishedIsComplete
      /\ [InferenceNext]_vars
      => AttemptInv' /\ QuietInv' /\ FinishedIsComplete'
  BY AttemptKeeps, QuietKeeps DEF IInv
<1>3. IInv => TypeOK
  BY DEF IInv
<1> QED
  BY <1>1, <1>2, <1>3, InferenceInvariant, PTL DEF InferenceSpec

\* FinishedIsComplete: the logits of an attempt that started on a quiet route
\* and saw no change of the plan are its own tokens' after every layer of the
\* model once and in order, for any number of stages and tasks and any late
\* results with another sequence_id.
THEOREM InferenceFinishesComplete == InferenceSpec => []FinishedIsComplete
<1> QED
  BY QuietInvariant, PTL

\* MessageMatchesStage: an undisturbed sequence never has two messages under
\* way, and the one it has is addressed to the stage its index names, with
\* that stage's layers and the activations of the layers before it.
THEOREM InferenceMatchesStage == InferenceSpec => []MessageMatchesStage
<1>1. ASSUME TypeInv, TypeOK, QuietInv
      PROVE  MessageMatchesStage
  <2> SUFFICES ASSUME NEW t \in Tasks, sequences[t].active, sequences[t].att \in undisturbed
               PROVE  LET own     == {m \in net : m.task = t /\ m.seq = sequences[t].seq}
                          at      == stages[sequences[t].index + 1]
                          upTo(l) == [layers |-> [i \in 1 .. l |-> i - 1],
                                      job |-> sequences[t].att]
                      IN  /\ Cardinality(own) <= 1
                          /\ \A m \in own :
                               \/ /\ m.kind = "ProcessTask"
                                  /\ m.to = at /\ m.range = LayerRange(at)
                                  /\ m.nodes[m.index + 1] = at
                                  /\ m.input = IF m.index = 0 THEN NoState
                                                              ELSE upTo(m.range[1])
                               \/ /\ m.kind = "TaskResult"
                                  /\ m.output = upTo(LayerRange(at)[2])
    BY DEF MessageMatchesStage
  <2> DEFINE own == {m \in net : m.task = t /\ m.seq = sequences[t].seq}
  <2>1. OnItsWay(t)
    BY <1>1 DEF QuietInv, Quiet
  <2>2. Cardinality(own) <= 1
    <3>1. CASE own = {}
      <4>1. Cardinality(own) = 0
        BY <3>1, FS_EmptySet
      <4> QED BY <4>1
    <3>2. CASE own # {}
      <4>1. PICK m \in own : own = {m}
        BY <2>1, <3>2 DEF OnItsWay, Own
      <4>2. Cardinality(own) = 1
        BY <4>1, FS_Singleton
      <4> QED BY <4>2
    <3> QED BY <3>1, <3>2
  <2>3. \A m \in own : OnStage(t, m)
    BY <2>1 DEF OnItsWay, Own
  <2> QED BY <2>2, <2>3, Zenon DEF OnStage, UpTo, Below
<1> QED
  BY <1>1, QuietInvariant, PTL

------------------------------------------------------------------------
(* Which tasks end an executor loop.                                       *)

\* A hidden state is none or somebody's, a result is always somebody's, and a
\* task that was forwarded carries one.
StateInv ==
  /\ \A n \in Nodes : worker[n].hidden = NoState \/ worker[n].hidden.job # 0
  /\ \A m \in net :
       /\ m.kind = "ProcessTask" =>
            IF m.index = 0 THEN m.input = NoState ELSE m.input.job # 0
       /\ m.kind = "TaskResult" => m.output.job # 0

\* A task that can be run leaves somebody's hidden state behind.
LEMMA RunHasState ==
  ASSUME TypeInv, StateInv, NEW m \in net, RunTask(m)
  PROVE  Activation(worker[m.to], m).job # 0
<1> DEFINE w == worker[m.to]
<1> DEFINE in == IF m.range[1] = 0 THEN [layers |-> <<>>, job |-> m.att]
                                   ELSE HiddenBefore(w, m)
<1>1. /\ m \in Messages /\ m.kind = "ProcessTask" /\ m.to \in Nodes
  BY RunEffect, Zenon
<1>2. m.att # 0 /\ m.input \in Activations /\ w.hidden \in Activations
  <2>1. m.att \in 1 .. MaxStarts /\ m.input \in Activations
    BY <1>1, MessageFields
  <2>2. w.hidden \in Activations
    BY <1>1 DEF TypeInv, InferenceTypeOK
  <2> QED BY <2>1, <2>2
<1>3. m.range[1] = 0 \/ HiddenBefore(w, m) # NoState
  BY DEF RunTask, CanRun
<1>4. HiddenBefore(w, m) # NoState => HiddenBefore(w, m).job # 0
  BY <1>1 DEF StateInv, HiddenBefore
<1>5. in.job # 0
  BY <1>2, <1>3, <1>4
<1>6. in \in Activations /\ RunOf(m.range) \in Seq(Layers)
  <2>1. HiddenBefore(w, m) \in Activations
    BY <1>1, <1>2, WorkerComputes, Zenon
  <2>2. <<>> \in Seq(Layers) /\ m.att \in 0 .. MaxStarts
    BY <1>1, MessageFields
  <2>3. [layers |-> <<>>, job |-> m.att] \in Activations
    BY <2>2, Zenon DEF Activations
  <2>4. PICK a \in Nat, b \in Nat : m.range = <<a, b>>
    BY <1>1, MessageFields
  <2>5. RunOf(m.range) \in Seq(Layers)
    BY <2>4, RunsLayers, Zenon
  <2> QED BY <2>1, <2>3, <2>5, Zenon
<1> DEFINE run == RunOf(m.range)
<1>7. Activation(w, m) = [in EXCEPT !.layers = @ \o run]
  BY DEF Activation
<1> HIDE DEF in, run, w
<1>8. [in EXCEPT !.layers = @ \o run] = [layers |-> in.layers \o run, job |-> in.job]
  BY <1>6, Extends DEF run
<1>9. Activation(w, m).job = in.job
  BY <1>7, <1>8
<1> QED
  BY <1>5, <1>9 DEF w

LEMMA StateInit == InferenceInit => StateInv
<1>1. FreshWorker.hidden = NoState
  BY DEF FreshWorker
<1> QED
  BY <1>1 DEF InferenceInit, StateInv

LEMMA StateKeeps == TypeOK /\ TypeInv /\ StateInv /\ [InferenceNext]_vars => StateInv'
<1> SUFFICES ASSUME TypeOK, TypeInv, StateInv, [InferenceNext]_vars
             PROVE  StateInv'
  OBVIOUS
<1> DEFINE WorkerOK(n) == worker[n].hidden = NoState \/ worker[n].hidden.job # 0
<1> DEFINE NetOK(m) ==
      /\ m.kind = "ProcessTask" =>
           IF m.index = 0 THEN m.input = NoState ELSE m.input.job # 0
      /\ m.kind = "TaskResult" => m.output.job # 0
<1>0. /\ \A n \in Nodes : WorkerOK(n)
      /\ \A m \in net : NetOK(m)
  BY DEF StateInv
<1>1. ASSUME \A n \in Nodes : WorkerOK(n)', \A m \in net' : NetOK(m)
      PROVE  StateInv'
  BY <1>1 DEF StateInv, NoState
<1>2. /\ worker' = worker => \A n \in Nodes : WorkerOK(n)'
      /\ net' \subseteq net => \A m \in net' : NetOK(m)
  BY <1>0 DEF NoState
<1>3. \A n \in Nodes : worker = [k \in Nodes |-> worker[k]]
  BY DEF TypeInv
<1> HIDE DEF NetOK
<1>4. ASSUME NEW t \in Tasks, NEW seq \in SequenceIds, StartSequence(t, seq)
      PROVE  StateInv'
  <2>1. net' = net \cup {FirstTask(t, seq)} /\ worker' = worker
    BY <1>4 DEF StartSequence, FirstTask
  <2>2. NetOK(FirstTask(t, seq))
    BY DEF FirstTask, ProcessTask, NetOK
  <2>3. \A m \in net' : NetOK(m)
    BY <1>0, <2>1, <2>2
  <2> QED BY <1>1, <1>2, <2>1, <2>3
<1>5. ASSUME NEW m \in net, RunTask(m)
      PROVE  StateInv'
  <2> DEFINE out == Activation(worker[m.to], m)
  <2>1. /\ m.to \in Nodes
        /\ worker' = [worker EXCEPT ![m.to] =
                        [alive |-> TRUE, loaded |-> m.range, hidden |-> out]]
        /\ net' = (net \ {m}) \cup {ResultOf(m, out)}
    BY <1>5, RunEffect, Zenon
  <2>2. out.job # 0
    BY <1>5, RunHasState
  <2> HIDE DEF out
  <2>3. NetOK(ResultOf(m, out))
    BY <2>2 DEF ResultOf, NetOK
  <2>4. \A k \in net' : NetOK(k)
    BY <1>0, <2>1, <2>3
  <2>5. \A n \in Nodes : worker'[n].hidden = IF n = m.to THEN out ELSE worker[n].hidden
    BY <1>3, <2>1
  <2>6. \A n \in Nodes : WorkerOK(n)'
    BY <1>0, <2>2, <2>5 DEF NoState
  <2> QED BY <1>1, <2>4, <2>6
<1>6. ASSUME NEW m \in net, FailTask(m)
      PROVE  StateInv'
  <2>1. /\ worker' = [worker EXCEPT ![m.to] =
                        [alive |-> FALSE, loaded |-> m.range, hidden |-> NoState]]
        /\ net' \subseteq net
    BY <1>6 DEF FailTask
  <2>2. \A n \in Nodes : worker'[n].hidden = IF n = m.to THEN NoState ELSE worker[n].hidden
    BY <1>3, <2>1
  <2>3. \A n \in Nodes : WorkerOK(n)'
    BY <1>0, <2>2 DEF NoState
  <2> QED BY <1>1, <1>2, <2>1, <2>3
<1>7. ASSUME NEW m \in net, ForwardResult(m)
      PROVE  StateInv'
  <2>1. /\ m.kind = "TaskResult" /\ m.task \in Tasks /\ sequences[m.task].active
        /\ net' = (net \ {m}) \cup {NextTask(m)}
    <3>1. InferenceTypeOK
      BY DEF TypeInv
    <3> QED BY <1>7, <3>1, ForwardEffect, Zenon
  <2>2. NextTask(m).input = m.output /\ NextTask(m).index = sequences[m.task].index + 1
        /\ NextTask(m).kind = "ProcessTask"
    BY DEF NextTask, ProcessTask
  <2>3. m.output.job # 0
    BY <1>0, <2>1 DEF NetOK
  <2>4. sequences[m.task].index + 1 # 0
    <3>1. sequences[m.task].index \in Nat
      BY <2>1, SequenceFields DEF TypeInv
    <3> QED BY <3>1
  <2>5. NetOK(NextTask(m))
    BY <2>2, <2>3, <2>4 DEF NetOK
  <2>6. \A k \in net' : NetOK(k)
    BY <1>0, <2>1, <2>5
  <2>7. worker' = worker
    BY <1>7 DEF ForwardResult
  <2> QED BY <1>1, <1>2, <2>6, <2>7
<1>8. ASSUME NEW m \in net, FinishSequence(m) \/ DropResult(m) \/ Lose(m)
      PROVE  StateInv'
  <2>1. net' \subseteq net /\ worker' = worker
    BY <1>8 DEF FinishSequence, DropResult, Lose
  <2> QED BY <1>1, <1>2, <2>1
<1>9. ASSUME ControlStep \/ UNCHANGED vars
      PROVE  StateInv'
  <2>1. net' = net /\ worker' = worker
    BY <1>9 DEF ControlStep, vars, dataVars
  <2> QED BY <1>1, <1>2, <2>1
<1> QED
  BY <1>4, <1>5, <1>6, <1>7, <1>8, <1>9, Zenon DEF InferenceNext

\* ForwardedTasksRun: for any stages, slices and tasks, and any plan changes and
\* losses, a forwarded task never ends an executor loop, nor does the first task
\* of an undisturbed sequence; only the first task of an attempt, sent to a node
\* whose slice does not begin the model, can.
THEOREM InferenceTasksRun == InferenceSpec => []ForwardedTasksRun
<1>1. InferenceInit => StateInv
  BY StateInit
<1>2. (TypeInv /\ TypeOK /\ QuietInv /\ FinishedIsComplete) /\ StateInv
        /\ [InferenceNext]_vars => StateInv'
  BY StateKeeps
<1>3. ASSUME TypeInv, TypeOK, QuietInv, StateInv
      PROVE  ForwardedTasksRun
  <2> SUFFICES ASSUME NEW m \in net, m.kind = "ProcessTask", ~ CanRun(worker[m.to], m)
               PROVE  LET s == sequences[m.task]
                      IN  /\ m.index = 0
                          /\ ~ (s.active /\ s.att \in undisturbed /\ m.seq = s.seq)
    BY DEF ForwardedTasksRun
  <2>1. m.index = 0
    <3>1. m.index # 0 => m.input # NoState
      BY <1>3 DEF StateInv, NoState
    <3> QED BY <3>1 DEF CanRun, HiddenBefore
  <2>2. m.task \in Tasks
    <3>1. m \in Messages
      BY <1>3 DEF TypeInv, InferenceTypeOK
    <3> QED BY <3>1, MessageFields
  <2>3. ASSUME Quiet(m.task), m.seq = sequences[m.task].seq
        PROVE  FALSE
    <3>1. OnItsWay(m.task) /\ sequences[m.task].active
      BY <1>3, <2>2, <2>3 DEF QuietInv, Quiet
    <3>2. OnStage(m.task, m)
      BY <2>3, <3>1 DEF OnItsWay, Own
    <3>3. /\ sequences[m.task].index = 0
          /\ m.range = LayerRange(stages[sequences[m.task].index + 1])
      BY <2>1, <3>2 DEF OnStage
    <3>4. m.range[1] = 0
      BY <1>3, <2>2, <3>1, <3>3, StageOf
    <3> QED BY <3>4 DEF CanRun
  <2> QED BY <2>1, <2>3 DEF Quiet
<1> QED
  BY <1>1, <1>2, <1>3, QuietInvariant, PTL DEF InferenceSpec

------------------------------------------------------------------------
(* The data plane implements Answers.                                      *)

\* What Answers sees of the data plane.
CurrentAttempts == [t \in Tasks |-> AttemptAt(t)]
SeenAnswers     == [i \in DOMAIN outcome |-> AnswerOf(outcome[i])]
seenVars        == <<starts, CurrentAttempts, undisturbed, SeenAnswers>>

\* A step that touches no sequence's attempt and no answer is not seen.
LEMMA AttemptKept ==
  ASSUME NEW t, sequences'[t] = sequences[t]
  PROVE  AttemptAt(t)' = AttemptAt(t)
BY Zenon DEF AttemptAt

LEMMA AttemptOfSequence ==
  ASSUME NEW t, NEW seq, NEW index, NEW att, sequences'[t] = Sequence(seq, index, att)
  PROVE  AttemptAt(t)' = att
<1>1. sequences'[t].active /\ sequences'[t].att = att
  BY DEF Sequence
<1> QED
  BY <1>1 DEF AttemptAt

LEMMA AnswersKept ==
  ASSUME outcome' = outcome
  PROVE  SeenAnswers' = SeenAnswers
<1>1. \A o : AnswerOf(o)' = AnswerOf(o)
  BY DEF AnswerOf, WholeModel
<1> QED
  BY <1>1 DEF SeenAnswers, AnswerOf, WholeModel

LEMMA AnswerIsLast ==
  ASSUME TypeInv, NEW o \in Finishes, outcome' = Append(outcome, o)
  PROVE  \E i \in DOMAIN outcome' : outcome'[i] = o
<1>1. outcome \in Seq(Finishes)
  BY DEF TypeInv, InferenceTypeOK, Finishes
<1>2. Len(outcome) + 1 \in DOMAIN outcome' /\ outcome'[Len(outcome) + 1] = o
  BY <1>1
<1> QED
  BY <1>2

\* What is seen of one more Finished result is one more answer.
LEMMA SeenAppended ==
  ASSUME TypeInv, NEW o \in Finishes, outcome' = Append(outcome, o)
  PROVE  SeenAnswers' = Append(SeenAnswers, AnswerOf(o))
<1> DEFINE n == Len(outcome)
<1> DEFINE a(i) == AnswerOf(outcome[i])
<1>1. outcome \in Seq(Finishes) /\ n \in Nat /\ DOMAIN outcome = 1 .. n
  <2>1. outcome \in Seq(Finishes)
    BY DEF TypeInv, InferenceTypeOK, Finishes
  <2> QED BY <2>1
<1>2. /\ DOMAIN outcome' = 1 .. (n + 1)
      /\ \A i \in 1 .. n : outcome'[i] = outcome[i]
      /\ outcome'[n + 1] = o
  BY <1>1
<1>3. SeenAnswers = [i \in 1 .. n |-> a(i)]
  BY <1>1, Zenon DEF SeenAnswers
<1>4. SeenAnswers' = [i \in 1 .. (n + 1) |-> AnswerOf(outcome'[i])]
  <2>1. SeenAnswers' = [i \in DOMAIN outcome' |-> AnswerOf(outcome'[i])]
    BY DEF SeenAnswers, AnswerOf, WholeModel
  <2> QED BY <1>2, <2>1, Zenon
<1>5. \A i \in 1 .. (n + 1) :
        AnswerOf(outcome'[i]) = IF i = n + 1 THEN AnswerOf(o) ELSE a(i)
  <2>1. \A i \in 1 .. (n + 1) : i = n + 1 \/ i \in 1 .. n
    BY <1>1
  <2>2. \A i \in 1 .. n : i # n + 1
    BY <1>1
  <2> QED BY <1>2, <2>1, <2>2, Zenon
<1> HIDE DEF a
<1>6. Append([i \in 1 .. n |-> a(i)], AnswerOf(o))
        = [i \in 1 .. (n + 1) |-> IF i = n + 1 THEN AnswerOf(o) ELSE a(i)]
  <2> HIDE DEF n
  <2> QED BY <1>1
<1> QED
  BY <1>3, <1>4, <1>5, <1>6

\* The attempts under way, when one task's changes.
LEMMA AttemptChanges ==
  ASSUME NEW t \in Tasks, NEW att, AttemptAt(t)' = att,
         \A u \in Tasks : u # t => sequences'[u] = sequences[u]
  PROVE  CurrentAttempts' = [CurrentAttempts EXCEPT ![t] = att]
<1>1. \A u \in Tasks : u # t => AttemptAt(u)' = AttemptAt(u)
  BY AttemptKept, Zenon
<1> HIDE DEF AttemptAt
<1>2. \A u \in Tasks : AttemptAt(u)' = [CurrentAttempts EXCEPT ![t] = att][u]
  BY <1>1 DEF CurrentAttempts
<1> QED
  BY <1>2 DEF CurrentAttempts

\* start_sequence begins an attempt of its own.
LEMMA StartBegins ==
  ASSUME TypeOK, TypeInv, NEW t \in Tasks, NEW seq \in SequenceIds, StartSequence(t, seq)
  PROVE  Promise!Begin(t)
<1>1. /\ starts' = starts + 1
      /\ sequences' = [sequences EXCEPT ![t] = Sequence(seq, 0, starts + 1)]
      /\ DOMAIN sequences = Tasks
  BY StartEffect, Zenon DEF TypeInv, InferenceTypeOK
<1>2. outcome' = outcome
  BY DEF StartSequence
<1>3. CurrentAttempts' = [CurrentAttempts EXCEPT ![t] = starts + 1]
  <2>1. sequences'[t] = Sequence(seq, 0, starts + 1)
    BY <1>1
  <2>2. AttemptAt(t)' = starts + 1
    BY <2>1, AttemptOfSequence, Zenon
  <2>3. \A u \in Tasks : u # t => sequences'[u] = sequences[u]
    BY <1>1
  <2> QED BY <2>2, <2>3, AttemptChanges, Zenon
<1>4. undisturbed \ (IF sequences[t].active THEN {sequences[t].att} ELSE {})
        = undisturbed \ {CurrentAttempts[t]}
  <2>1. 0 \notin undisturbed
    BY DEF TypeInv, InferenceTypeOK
  <2> QED BY <2>1 DEF CurrentAttempts, AttemptAt
<1>5. LET others == undisturbed \ {CurrentAttempts[t]}
      IN  undisturbed' \in {others, others \cup {starts + 1}}
  BY <1>4 DEF StartSequence
<1> QED
  BY <1>1, <1>2, <1>3, <1>5, AnswersKept DEF Promise!Begin, CurrentAttempts, SeenAnswers

\* A Finished result answers the attempt that is under way, and rightly when
\* nothing disturbed it.
LEMMA FinishAnswers ==
  ASSUME TypeInv, FinishedIsComplete', NEW m \in net, FinishSequence(m)
  PROVE  m.task \in Tasks /\ Promise!Answer(m.task)
<1> DEFINE s == sequences[m.task]
<1> DEFINE o == [att |-> s.att, quiet |-> s.att \in undisturbed, logits |-> m.logits]
<1> DEFINE right == m.logits = WholeModel(s.att)
<1>1. /\ m.task \in Tasks /\ s.active
      /\ m.logits \in Activations
      /\ sequences' = [sequences EXCEPT ![m.task] = NotActive]
      /\ outcome' = Append(outcome, o)
      /\ DOMAIN sequences = Tasks
  BY FinishEffect, Zenon DEF TypeInv, InferenceTypeOK
<1>2. starts' = starts /\ undisturbed' = undisturbed
  BY DEF FinishSequence
<1>3. CurrentAttempts[m.task] = s.att /\ s.att # 0
  <2>1. s.att \in 1 .. MaxStarts
    BY <1>1, SequenceFields DEF TypeInv
  <2>2. s.att # 0
    BY <2>1
  <2> QED BY <1>1, <2>2 DEF CurrentAttempts, AttemptAt
<1>4. CurrentAttempts' = [CurrentAttempts EXCEPT ![m.task] = 0]
  <2>1. sequences'[m.task] = NotActive
    BY <1>1
  <2>2. ~ NotActive.active
    BY DEF NotActive
  <2>3. AttemptAt(m.task)' = 0
    BY <2>1, <2>2, Zenon DEF AttemptAt
  <2>4. \A u \in Tasks : u # m.task => sequences'[u] = sequences[u]
    BY <1>1
  <2> QED BY <1>1, <2>3, <2>4, AttemptChanges, Zenon
<1>5. s.att \in undisturbed => right
  <2>1. o \in Finishes
    BY <1>1, FinishIsTyped, Zenon
  <2>2. /\ o.quiet <=> s.att \in undisturbed
        /\ o.logits = m.logits /\ o.att = s.att
    OBVIOUS
  <2> HIDE DEF o, s
  <2>3. \E i \in DOMAIN outcome' : outcome'[i] = o
    BY <1>1, <2>1, AnswerIsLast, Zenon
  <2>4. o.quiet => o.logits = WholeModel(o.att)
    BY <2>3 DEF FinishedIsComplete, WholeModel
  <2> QED BY <2>2, <2>4
<1>6. SeenAnswers' = Append(SeenAnswers, [att |-> s.att, right |-> right])
  <2>1. AnswerOf(o) = [att |-> s.att, right |-> right]
    BY DEF AnswerOf
  <2>2. o \in Finishes
    BY <1>1, FinishIsTyped, Zenon
  <2> HIDE DEF o
  <2>3. SeenAnswers' = Append(SeenAnswers, AnswerOf(o))
    BY <1>1, <2>2, SeenAppended, Zenon
  <2> QED BY <2>1, <2>3, Zenon
<1>7. right \in BOOLEAN
  OBVIOUS
<1> HIDE DEF right, s, o
<1>8. \E r \in BOOLEAN : /\ CurrentAttempts[m.task] \in undisturbed => r
                         /\ SeenAnswers' = Append(SeenAnswers,
                              [att |-> CurrentAttempts[m.task], right |-> r])
  BY <1>3, <1>5, <1>6, <1>7, Zenon
<1> QED
  BY <1>1, <1>2, <1>3, <1>4, <1>8, Zenon DEF Promise!Answer, CurrentAttempts, SeenAnswers

\* Every step of the data plane begins an attempt, answers one, disturbs all,
\* or is not seen.
LEMMA StepIsPromised ==
  TypeOK /\ TypeInv /\ FinishedIsComplete' /\ [InferenceNext]_vars
    => [Promise!Next]_seenVars
<1> SUFFICES ASSUME TypeOK, TypeInv, FinishedIsComplete', [InferenceNext]_vars
             PROVE  [Promise!Next]_seenVars
  OBVIOUS
<1>0. DOMAIN sequences = Tasks /\ InferenceTypeOK
  BY DEF TypeInv, InferenceTypeOK
<1>1. ASSUME sequences' = sequences
      PROVE  CurrentAttempts' = CurrentAttempts
  BY <1>1 DEF CurrentAttempts, AttemptAt
<1>2. ASSUME UNCHANGED <<starts, sequences, undisturbed, outcome>>
      PROVE  UNCHANGED seenVars
  BY <1>1, <1>2, AnswersKept DEF seenVars
<1>3. ASSUME NEW t \in Tasks, NEW seq \in SequenceIds, StartSequence(t, seq)
      PROVE  Promise!Next
  BY <1>3, StartBegins, Zenon DEF Promise!Next
<1>4. ASSUME NEW m \in net, FinishSequence(m)
      PROVE  Promise!Next
  BY <1>4, FinishAnswers, Zenon DEF Promise!Next
<1>5. ASSUME NEW m \in net, ForwardResult(m)
      PROVE  UNCHANGED seenVars
  <2> DEFINE s == sequences[m.task]
  <2>1. /\ m.task \in Tasks /\ s.active
        /\ sequences' = [sequences EXCEPT ![m.task] = Sequence(s.seq, s.index + 1, s.att)]
    BY <1>0, <1>5, ForwardEffect, Zenon
  <2>2. UNCHANGED <<starts, undisturbed, outcome>>
    BY <1>5 DEF ForwardResult
  <2>3. \A u \in Tasks : AttemptAt(u)' = AttemptAt(u)
    <3> SUFFICES ASSUME NEW u \in Tasks PROVE AttemptAt(u)' = AttemptAt(u)
      OBVIOUS
    <3>1. CASE u = m.task
      <4>1. sequences'[u] = Sequence(s.seq, s.index + 1, s.att)
        BY <1>0, <2>1, <3>1
      <4>2. AttemptAt(u)' = s.att
        BY <4>1, AttemptOfSequence, Zenon
      <4>3. AttemptAt(u) = s.att
        BY <2>1, <3>1 DEF AttemptAt
      <4> QED BY <4>2, <4>3
    <3>2. CASE u # m.task
      <4>1. sequences'[u] = sequences[u]
        BY <1>0, <2>1, <3>2
      <4> QED BY <4>1, AttemptKept, Zenon
    <3> QED BY <3>1, <3>2
  <2>4. CurrentAttempts' = CurrentAttempts
    BY <2>3 DEF CurrentAttempts
  <2> QED BY <2>2, <2>4, AnswersKept DEF seenVars
<1>6. ASSUME NEW m \in net, RunTask(m) \/ FailTask(m) \/ DropResult(m) \/ Lose(m)
      PROVE  UNCHANGED seenVars
  <2>1. UNCHANGED <<starts, sequences, undisturbed, outcome>>
    BY <1>6 DEF RunTask, FailTask, DropResult, Lose
  <2> QED BY <1>2, <2>1
<1>7. ASSUME ControlStep
      PROVE  [Promise!Next]_seenVars
  <2>1. UNCHANGED <<starts, sequences, outcome>> /\ undisturbed' \in {undisturbed, {}}
    BY <1>7 DEF ControlStep
  <2>2. CASE undisturbed' = undisturbed
    BY <1>2, <2>1, <2>2
  <2>3. CASE undisturbed' = {}
    <3>1. CurrentAttempts' = CurrentAttempts /\ SeenAnswers' = SeenAnswers
      BY <1>1, <2>1, AnswersKept
    <3>2. Promise!Disturb
      BY <2>1, <2>3, <3>1 DEF Promise!Disturb, CurrentAttempts, SeenAnswers
    <3> QED BY <3>2 DEF Promise!Next
  <2> QED BY <2>1, <2>2, <2>3
<1>8. CASE UNCHANGED vars
  <2>1. UNCHANGED <<starts, sequences, undisturbed, outcome>>
    BY <1>8 DEF vars, dataVars
  <2> QED BY <1>2, <2>1
<1> QED
  BY <1>3, <1>4, <1>5, <1>6, <1>7, <1>8, Zenon DEF InferenceNext

\* The master, its stages and a network that loses messages implement Answers:
\* every attempt is answered at most once and only while it is the one under
\* way at its task, and an attempt nothing disturbed is answered rightly, for
\* any nodes, layers, tasks and sequence ids.
THEOREM InferenceImplementsAnswers == InferenceSpec => ImplementsAnswers
<1>1. InferenceInit => Promise!Init
  <2> SUFFICES ASSUME InferenceInit PROVE Promise!Init
    OBVIOUS
  <2>1. /\ sequences = [t \in Tasks |-> NotActive] /\ starts = 0
        /\ undisturbed = {} /\ outcome = <<>>
    BY DEF InferenceInit
  <2>2. \A t \in Tasks : AttemptAt(t) = 0
    BY <2>1 DEF AttemptAt, NotActive
  <2> QED BY <2>1, <2>2 DEF Promise!Init
<1>2. TypeOK /\ TypeInv /\ FinishedIsComplete' /\ [InferenceNext]_vars
        => [Promise!Next]_seenVars
  BY StepIsPromised
<1> QED
  BY <1>1, <1>2, QuietInvariant, PTL
  DEF InferenceSpec, ImplementsAnswers, Promise!Spec, seenVars, CurrentAttempts, SeenAnswers

========================================================================
