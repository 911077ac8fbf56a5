--------------------------- MODULE MCOperationalLoop ---------------------------
EXTENDS OperationalLoop, TLC

CONSTANT MaxLength   \* bound: artifacts and changes of the pull request together

(* The revisions are interchangeable. *)
Revisions == Permutations(HeadOid) \cup Permutations(BaseOid)

UnderWay == Cardinality({w \in Workflow : runs[w].at # "idle"})

(* Two workflows overlap, or the pull request moves under one of them. *)
Instance ==
  /\ UnderWay <= (IF pull.moves = 0 THEN 2 ELSE 1)
  /\ Len(store) + pull.moves + deaths <= MaxLength
=============================================================================
