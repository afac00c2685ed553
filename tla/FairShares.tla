--------------------------- MODULE FairShares ---------------------------
(***************************************************************************)
(* What the division of the layers should come to, said without an order   *)
(* of evaluation: a reference definition of the plan by sums over the      *)
(* nodes ahead, and how far a plan may be from exact proportions.          *)
(***************************************************************************)
EXTENDS LayerPlan, FiniteSetsExt

SumOver(S, f) == MapThenSumSet(LAMBDA m : f[m], S)

Ahead(S, composite, n) == {m \in S : Before(composite, m, n)}

\* What each node of S would take if it were not the last.
Shares(S, composite) ==
  LET total == SumOver(S, composite)
  IN  [m \in S |-> IF total = 0 THEN TotalLayers \div Cardinality(S)
                                ELSE Share(composite[m], total)]

InModel(l) == IF l > TotalLayers THEN TotalLayers ELSE l

\* The nodes ahead of n share out the layers below From, n and they those below
\* Upto, which for the last node is the end of the model.
From(S, composite, n) == InModel(SumOver(Ahead(S, composite, n), Shares(S, composite)))

Upto(S, composite, n) ==
  LET T == Ahead(S, composite, n) \cup {n}
  IN  IF T = S THEN TotalLayers ELSE InModel(SumOver(T, Shares(S, composite)))

\* slice gives the nodes of S what the sums say.
IsBySums(S, composite, slice) ==
  \A n \in S : slice[n] = From(S, composite, n) .. (Upto(S, composite, n) - 1)

\* The layers that slice leaves to the nodes ahead of n.
LeftAhead(S, composite, slice, n) ==
  TotalLayers - Cardinality(UNION {slice[m] : m \in S \ Ahead(S, composite, n)})

\* Along the order, the part of the model given out is within k / 2 layers of
\* the part of the capacity that the k nodes so far have.
IsProportional(S, composite, slice) ==
  LET total == SumOver(S, composite)
  IN  total > 0 =>
        \A n \in S :
          LET k     == Cardinality(Ahead(S, composite, n))
              exact == 2 * SumOver(Ahead(S, composite, n), composite) * TotalLayers
              given == 2 * total * LeftAhead(S, composite, slice, n)
          IN  exact - k * total <= given /\ given <= exact + k * total

=========================================================================
