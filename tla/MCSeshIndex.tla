----------------------------- MODULE MCSeshIndex -----------------------------
(***************************************************************************)
(* Instances of SeshIndex over the same variables; a behavior runs one of   *)
(* them.  "orders": pairs of files whose appends are indexed in any order.  *)
(* "faults": some of them, with a crash, a stop or a failed transaction.    *)
(* "chains": three files, each of which rewrites a part of the others.      *)
(* "heals": a torn line and a fault, under the fairness of the consumer.    *)
(***************************************************************************)
EXTENDS SeshIndex

VARIABLE part   \* which of them this behavior runs

Msg(k, t) == [key |-> k, ts |-> t, bad |-> FALSE]
Junk == [key |-> 0, ts |-> 9, bad |-> TRUE]
File(id, lines) == [id |-> id, lines |-> lines]

A == Msg(1, 2)
B == Msg(2, 2)
OlderB == Msg(2, 1)
C == Msg(3, 3)
N == Msg(NoKey, 2)

\* Pairs of files: the same, a reordered or a growing history, a copy that is
\* preferred to the earlier one, lines that take no part in dedupe.
Pairs ==
  {<<File(id[1], x), File(id[2], y)>> :
     id \in {<<1, 1>>, <<1, 2>>, <<2, 1>>},
     x \in {<<A, B>>, <<B, N, A>>, <<A, Junk, B>>},
     y \in {<<A, B, C>>, <<A, Junk, B>>, <<A, OlderB, C>>, <<N, B, A>>}}

FaultyPairs ==
  {<<File(id[1], x), File(id[2], <<A, OlderB>>)>> :
     id \in {<<1, 1>>, <<2, 1>>}, x \in {<<A, B>>, <<B, N, A>>, <<A, Junk, B>>}}

Chains == {<<File(1, <<A, B>>), File(id, y), File(3, <<A, B>>)>> :
             id \in {1, 2}, y \in {<<A, B, C>>, <<A, OlderB>>}}

Torn == {<<File(1, <<A, B>>), File(2, <<A>>)>>}

Faulty == INSTANCE SeshIndex WITH Corpora <- FaultyPairs, MaxFaults <- 1
Chained == INSTANCE SeshIndex WITH Corpora <- Chains
Healing == INSTANCE SeshIndex WITH Corpora <- Torn, LineLen <- 2, MaxFaults <- 1

MCInit == \/ part = "orders" /\ Init
          \/ part = "faults" /\ Faulty!Init
          \/ part = "chains" /\ Chained!Init
          \/ part = "heals" /\ Healing!Init

Of(p, X) == part = p /\ X /\ part' = part

MCNext == \/ Of("orders", Next)
          \/ Of("faults", Faulty!Next)
          \/ Of("chains", Chained!Next)
          \/ Of("heals", Healing!Next)

MCSpec == /\ MCInit /\ [][MCNext]_<<part, vars>>
          /\ WF_<<part, vars>>(Of("heals", Healing!Consumer))
          /\ WF_<<part, vars>>(Of("heals", Healing!OfferEvent))

\* The rows of two files are those a reindex would build, in whatever order
\* their appends were indexed.  (index.go)
PairsAgree == part \in {"orders", "faults"} => AgreesWithReindex

\* Every complete line is indexed in the end.  (consumer.go)
LinesArrive ==
  <>[](part = "heals" => \A f \in Files : complete[f] = Healing!LinesIn(hw[f]) /\ ~dirty[f])
=============================================================================
