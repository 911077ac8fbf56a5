--------------------------- MODULE MCPolicyRegistry ---------------------------
(* Two operators on one policy registry: a root and two rival children of  *)
(* it, each with rules of its own.                                         *)
EXTENDS PolicyOverlap, Functions

CONSTANTS root, left, right

MCVersionOf == (root :> 1) @@ (left :> 2) @@ (right :> 3)
MCParentOf == (root :> None) @@ (left :> root) @@ (right :> root)
MCRulesOf == (root :> "r1") @@ (left :> "r2") @@ (right :> "r3")

(* The processes are interchangeable. *)
OperatorSymmetry == Permutations(Operator)

(* The registry and what the commands are about to write of it. *)
InSight(Holds(_)) ==
  /\ registry \notin {None, Torn} => Holds(registry)
  /\ \A o \in Operator : job[o].registry # None => Holds(job[o].registry)

(* Operators overlap once the root and one child are drafted, on a clock   *)
(* that stands still; one alone has a clock that steps back.               *)
Rivals(r) ==
  /\ r.policies[root].events # <<>> /\ r.policies[left].events # <<>>
  /\ \A p \in Policy : r.policies[p].events # <<>> => LastEvent(r.policies[p]).at = 0

Instance == overlapped => InSight(Rivals)

(* The histories acked and crashed matter to one operator at a time only. *)
FilesProcessesHistory ==
  <<registry, view, pc, job, overlapped,
    IF overlapped THEN {} ELSE acked, IF overlapped THEN FALSE ELSE crashed>>
===============================================================================
