---------------------------- MODULE Answers ----------------------------
(***************************************************************************)
(* What the data plane promises whoever asks it for a token: every call of *)
(* start_sequence begins an attempt of its own, the last one begun at a    *)
(* task is the one that can be answered, and once it is answered it is     *)
(* over.  Messages, workers, stages and layers are out of sight; they may  *)
(* make an answer late, wrong or missing, but an attempt that can be       *)
(* trusted is never answered wrongly.                                      *)
(***************************************************************************)
EXTENDS Naturals, Sequences

CONSTANT Tasks

VARIABLES
  begun,      \* number of attempts begun; numbers them from 1
  current,    \* the attempt that is under way at a task, 0 when there is none
  trusted,    \* attempts whose answer is sure to be right
  answers     \* the answers given, in order: whose, and whether it was right

Init ==
  /\ begun   = 0
  /\ current = [t \in Tasks |-> 0]
  /\ trusted = {}
  /\ answers = <<>>

\* A new attempt at the task takes the place of the one under way.
Begin(t) ==
  /\ begun'   = begun + 1
  /\ current' = [current EXCEPT ![t] = begun + 1]
  /\ LET others == trusted \ {current[t]}
     IN  trusted' \in {others, others \cup {begun + 1}}
  /\ answers' = answers

\* The attempt under way is answered: the task is over, and no attempt but
\* this one gets an answer by it.
Answer(t) ==
  /\ current[t] # 0
  /\ current' = [current EXCEPT ![t] = 0]
  /\ \E right \in BOOLEAN :
       /\ current[t] \in trusted => right
       /\ answers' = Append(answers, [att |-> current[t], right |-> right])
  /\ UNCHANGED <<begun, trusted>>

\* The ground shifts under the attempts under way: none is sure any more.
Disturb ==
  /\ trusted' = {}
  /\ UNCHANGED <<begun, current, answers>>

Next ==
  \/ \E t \in Tasks : Begin(t) \/ Answer(t)
  \/ Disturb

Spec == Init /\ [][Next]_<<begun, current, trusted, answers>>

========================================================================
