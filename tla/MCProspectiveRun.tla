--------------------------- MODULE MCProspectiveRun ---------------------------
(* Two heads and three bases, with one changed file each except one pair,  *)
(* so that the files of one pair pass for those of another by their        *)
(* number, or do not. One base has a policy whose classes overlap on one   *)
(* of the files, one a policy of one class that knows only one of them,    *)
(* one no policy. The request an operator may write by hand is the one     *)
(* that policy binds for the first head. Two runs have any two of a move,  *)
(* an edit and a stop; one run has a pull request that moves five times.   *)
EXTENDS ProspectiveRun, TLC

CONSTANTS h1, h2, b1, b2, b3, doc, code

MCHead == {h1, h2}
MCBase == {b1, b2, b3}

MCFilesOf ==
  [r \in [head : MCHead, base : MCBase] |->
     IF r.head = h2 /\ r.base = b3 THEN {doc, code}
     ELSE IF (r.head = h1) = (r.base = b1) THEN {doc} ELSE {code}]

Rule(paths, task) ==
  [paths |-> paths, task |-> task, scenarios |-> {"smoke"}, evidence |-> {"log"}]

Overlapping == [c \in {"docs", "all"} |-> IF c = "docs" THEN Rule({doc}, "DOCS") ELSE Rule({doc, code}, "CODE")]

OneClass == [c \in {"all"} |-> Rule({code}, "DOCS")]

MCPolicyAt == (b1 :> Overlapping) @@ (b2 :> OneClass) @@ (b3 :> None)

MCFacts ==
  {[head |-> h1, completed |-> {"smoke"}, verified |-> {"log"}],
   [head |-> h2, completed |-> {}, verified |-> {}]}

Budget(m, e, s, r) == [moves |-> m, edits |-> e, stops |-> s, runs |-> r]

MCBudgets ==
  {Budget(2, 0, 0, 2), Budget(1, 1, 0, 2), Budget(1, 0, 1, 2), Budget(0, 1, 1, 2), Budget(5, 0, 0, 1)}

MCRequest == {[task |-> h1, class |-> "DOCS", files |-> {code}, completed |-> {"smoke"}]}
===============================================================================
