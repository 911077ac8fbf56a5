---------------------------- MODULE PolicyLifecycle ----------------------------
(***************************************************************************)
(* What the Policy Registry promises one operator at a time: the registry  *)
(* and the materialized rule file change together, one lifecycle step at a *)
(* time. A process that dies may leave the materialized file behind the    *)
(* registry, or, while it restores the registry, a destroyed registry; it  *)
(* may do nothing else.                                                    *)
(***************************************************************************)
EXTENDS PolicyDocument

CONSTANTS
  RulesOf,     \* the rule set of each policy
  EmptyRules,  \* the rule set with no rules
  Torn         \* the content of a file whose bytes are incomplete

VARIABLES
  book,        \* the registry: a Registry, None before the first build, or Torn
  view,        \* the materialized approved rules, or None
  crashed      \* whether some process has died

vars == <<book, view, crashed>>

Init ==
  /\ book = None
  /\ view = None
  /\ crashed = FALSE

Base == IF book = None THEN EmptyRegistry ELSE book

(* The view follows the registry, unless the process dies in between.      *)
ViewFollows(rules) ==
  \/ view' = rules /\ UNCHANGED crashed
  \/ crashed' = TRUE /\ UNCHANGED view

BuildStep(p, t) ==
  /\ book # Torn
  /\ CanBuild(Base, p)
  /\ book' = Build(Base, p, t)
  /\ UNCHANGED <<view, crashed>>

ApproveStep(p, t) ==
  /\ book \notin {None, Torn}
  /\ CanApprove(book, p, t)
  /\ book' = Approve(book, p, t)
  /\ ViewFollows(RulesOf[p])

RetireStep(p, t) ==
  /\ book \notin {None, Torn}
  /\ CanRetire(book, p, t)
  /\ book' = Retire(book, p, t)
  /\ IF book.active = p THEN ViewFollows(EmptyRules) ELSE UNCHANGED <<view, crashed>>

MaterializeStep ==
  /\ book \notin {None, Torn}
  /\ book.active # None
  /\ view' = RulesOf[book.active]
  /\ UNCHANGED <<book, crashed>>

Die ==
  /\ crashed' = TRUE
  /\ book' \in {book, Torn}
  /\ UNCHANGED view

Next ==
  \/ \E p \in Policy, t \in Time : BuildStep(p, t) \/ ApproveStep(p, t) \/ RetireStep(p, t)
  \/ MaterializeStep
  \/ Die

Spec == Init /\ [][Next]_vars
=============================================================================
