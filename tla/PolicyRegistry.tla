---------------------------- MODULE PolicyRegistry ----------------------------
(***************************************************************************)
(* The Policy Registry as operators run it: processes that read the        *)
(* registry file, compute a new content, and replace the registry and the  *)
(* materialized rule file one after the other, with no lock between them.  *)
(*                                                                         *)
(* policy_registry.py: build_policy, approve_policy, retire_policy,        *)
(* materialize_active_policy and the _atomic_write they end in. Reading a  *)
(* file and os.replace are atomic; the rollback's write_bytes is not: it   *)
(* truncates the file and then writes it.                                  *)
(***************************************************************************)
EXTENDS PolicyDocument, TLC

CONSTANTS
  Operator,    \* processes that may run a pie-policy command at the same time
  RulesOf,     \* the rule set of each policy
  EmptyRules,  \* the rule set with no rules
  Torn,        \* the content of a file whose bytes are incomplete
  MayCrash     \* whether a process may die between two file operations

ASSUME RegistryAssumption ==
  /\ RulesOf \in [Policy -> {RulesOf[p] : p \in Policy}]
  /\ None \notin {RulesOf[p] : p \in Policy} \cup {EmptyRules}
  /\ None \notin Registry
  /\ Torn \notin Registry \cup {None}
  /\ MayCrash \in BOOLEAN

VARIABLES
  registry,    \* the registry file
  view,        \* the materialized approved rules file
  pc,          \* where each operator's command is
  job,         \* what its command has computed and remembered
  acked,       \* history: the lifecycle events whose command reported success
  crashed      \* history: whether a process has died

vars == <<registry, view, pc, job, acked, crashed>>

RuleSet == {RulesOf[p] : p \in Policy} \cup {EmptyRules}

Phase == {"idle", "staging", "replacing_registry", "replacing_view", "restoring"}

(* registry and view: the new contents, None where the command writes no   *)
(* such file; old: the original registry bytes kept for the rollback;      *)
(* claim: the events the command reports when it succeeds.                 *)
Job == [registry : Registry \cup {None},
        view     : RuleSet \cup {None},
        old      : Registry \cup {None, Torn},
        claim    : SUBSET (Policy \X EventType)]

NoJob == [registry |-> None, view |-> None, old |-> None, claim |-> {}]

TypeOK ==
  /\ registry \in Registry \cup {None, Torn}
  /\ view \in RuleSet \cup {None}
  /\ pc \in [Operator -> Phase]
  /\ job \in [Operator -> Job]
  /\ acked \subseteq Policy \X EventType
  /\ crashed \in BOOLEAN

Init ==
  /\ registry = None
  /\ view = None
  /\ pc = [o \in Operator |-> "idle"]
  /\ job = [o \in Operator |-> NoJob]
  /\ acked = {}
  /\ crashed = FALSE

-----------------------------------------------------------------------------
(* Read and compute: load_policy_registry, the guards, the new content and *)
(* its verification.                                                       *)

(* load_policy_registry: the file exists, parses and verifies. *)
Loadable ==
  /\ registry \notin {None, Torn}
  /\ VerifyRegistry(registry)

Start(o, newRegistry, newView, claim) ==
  /\ pc' = [pc EXCEPT ![o] = "staging"]
  /\ job' = [job EXCEPT ![o] =
       [registry |-> newRegistry, view |-> newView, old |-> None, claim |-> claim]]
  /\ UNCHANGED <<registry, view, acked, crashed>>

BuildPolicy(o, p, t) ==
  LET base == IF registry = None THEN EmptyRegistry ELSE registry
  IN  /\ pc[o] = "idle"
      /\ registry = None \/ Loadable
      /\ CanBuild(base, p)
      /\ VerifyRegistry(Build(base, p, t))
      /\ Start(o, Build(base, p, t), None, {<<p, "BUILT">>})

ApprovePolicy(o, p, t) ==
  /\ pc[o] = "idle"
  /\ Loadable
  /\ CanApprove(registry, p, t)
  /\ VerifyRegistry(Approve(registry, p, t))
  /\ Start(o, Approve(registry, p, t), RulesOf[p],
           {<<p, "ACTIVATED">>}
             \cup (IF registry.active = None THEN {} ELSE {<<registry.active, "SUPERSEDED">>}))

RetirePolicy(o, p, t) ==
  /\ pc[o] = "idle"
  /\ Loadable
  /\ CanRetire(registry, p, t)
  /\ VerifyRegistry(Retire(registry, p, t))
  /\ Start(o, Retire(registry, p, t),
           IF registry.active = p THEN EmptyRules ELSE None,
           {<<p, "RETIRED">>})

Materialize(o) ==
  /\ pc[o] = "idle"
  /\ Loadable
  /\ registry.active # None
  /\ Start(o, None, RulesOf[registry.active], {})

-----------------------------------------------------------------------------
(* _atomic_write.                                                          *)

(* The originals are read here, after the contents were computed. *)
Stage(o) ==
  /\ pc[o] = "staging"
  /\ job' = [job EXCEPT ![o].old = registry]
  /\ pc' = [pc EXCEPT ![o] = IF job[o].registry = None THEN "replacing_view"
                             ELSE "replacing_registry"]
  /\ UNCHANGED <<registry, view, acked, crashed>>

Quit(o) ==
  /\ pc' = [pc EXCEPT ![o] = "idle"]
  /\ job' = [job EXCEPT ![o] = NoJob]

Report(o) == acked' = acked \cup job[o].claim

ReplaceRegistry(o) ==
  /\ pc[o] = "replacing_registry"
  /\ registry' = job[o].registry
  /\ IF job[o].view = None
       THEN Quit(o) /\ Report(o)
       ELSE pc' = [pc EXCEPT ![o] = "replacing_view"] /\ UNCHANGED <<job, acked>>
  /\ UNCHANGED <<view, crashed>>

ReplaceView(o) ==
  /\ pc[o] = "replacing_view"
  /\ view' = job[o].view
  /\ Quit(o)
  /\ Report(o)
  /\ UNCHANGED <<registry, crashed>>

(* An error before anything was replaced: only temporary files go away. *)
FailClean(o) ==
  /\ \/ pc[o] \in {"staging", "replacing_registry"}
     \/ pc[o] = "replacing_view" /\ job[o].registry = None
  /\ Quit(o)
  /\ UNCHANGED <<registry, view, acked, crashed>>

(* A slip that leaves the replaced registry as it is. *)
RollbackNothing(o) ==
  /\ pc[o] = "replacing_view"
  /\ job[o].registry # None
  /\ Quit(o)
  /\ UNCHANGED <<registry, view, acked, crashed>>

(* A slip that replaces the view first and rolls back the registry only. *)
RollbackAfterView(o) ==
  /\ pc[o] = "replacing_view"
  /\ job[o].registry # None
  /\ view' = job[o].view
  /\ registry' = job[o].old
  /\ Quit(o)
  /\ UNCHANGED <<acked, crashed>>

(* The view cannot be replaced: the registry is put back. A registry that  *)
(* did not exist is unlinked, another one is truncated and then rewritten. *)
Rollback(o) ==
  /\ pc[o] = "replacing_view"
  /\ job[o].registry # None
  /\ IF job[o].old = None
       THEN registry' = None /\ Quit(o)
       ELSE registry' = Torn /\ pc' = [pc EXCEPT ![o] = "restoring"] /\ UNCHANGED job
  /\ UNCHANGED <<view, acked, crashed>>

(* A slip that recreates an empty registry instead of the kept bytes. *)
RestoreEmpty(o) ==
  /\ pc[o] = "restoring"
  /\ registry' = EmptyRegistry
  /\ Quit(o)
  /\ UNCHANGED <<view, acked, crashed>>

Restore(o) ==
  /\ pc[o] = "restoring"
  /\ registry' = job[o].old
  /\ Quit(o)
  /\ UNCHANGED <<view, acked, crashed>>

(* The process dies: the files stay as they are. *)
Crash(o) ==
  /\ MayCrash
  /\ pc[o] # "idle"
  /\ Quit(o)
  /\ crashed' = TRUE
  /\ UNCHANGED <<registry, view, acked>>

-----------------------------------------------------------------------------
Command(o) ==
  \/ \E p \in Policy, t \in Time : BuildPolicy(o, p, t)
  \/ \E p \in Policy, t \in Time : ApprovePolicy(o, p, t)
  \/ \E p \in Policy, t \in Time : RetirePolicy(o, p, t)
  \/ Materialize(o)

AtomicWrite(o) ==
  \/ Stage(o)
  \/ ReplaceRegistry(o)
  \/ ReplaceView(o)
  \/ FailClean(o)
  \/ Rollback(o)
  \/ Restore(o)

Next == \E o \in Operator : Command(o) \/ AtomicWrite(o) \/ Crash(o)

Spec == Init /\ [][Next]_vars

-----------------------------------------------------------------------------
(* Properties.                                                             *)

Readable == registry \notin {None, Torn}

Quiescent == \A o \in Operator : pc[o] = "idle"

(* approve_policy keeps the active lineage linear: of two policies that    *)
(* have ever been active, no two share a parent, whatever the interleaving *)
(* of commands, failures and crashes, and after any number of retirements. *)
(* The verifier never looks at this, only the approval's guards do.        *)
NoForkedLineage ==
  Readable => \A p, q \in Policy :
    /\ HasBeenActive(registry.policies[p])
    /\ HasBeenActive(registry.policies[q])
    /\ ParentOf[p] # None
    /\ ParentOf[p] = ParentOf[q]
    => p = q

(* The commands verify what they computed before they write it. That check *)
(* never refuses a change the guards of build, approve and retire admit:   *)
(* a legal sequence of commands is never stuck on the verifier.            *)
AdmittedChangesVerify ==
  Readable => \A p \in Policy, t \in Time :
    /\ CanBuild(registry, p) => VerifyRegistry(Build(registry, p, t))
    /\ CanApprove(registry, p, t) => VerifyRegistry(Approve(registry, p, t))
    /\ CanRetire(registry, p, t) => VerifyRegistry(Retire(registry, p, t))

(* One operator at a time: a lifecycle event whose command reported        *)
(* success stays in the registry through every later error, rollback and   *)
(* crash, as long as the registry can be read at all.                      *)
ReportedEventsStay ==
  Readable => \A c \in acked :
    \E i \in DOMAIN registry.policies[c[1]].events :
      registry.policies[c[1]].events[i].type = c[2]

(* One operator at a time: the materialized file never holds the rules of  *)
(* a policy the registry does not record as activated, at no point of an   *)
(* activation, a failed one or an interrupted one.                         *)
OnlyActivatedRulesInForce ==
  Readable /\ view \notin {None, EmptyRules} =>
    \E p \in Policy : RulesOf[p] = view /\ HasBeenActive(registry.policies[p])

(* One operator at a time, the registry does one lifecycle step at a time: *)
(* a command takes effect when its last file is replaced, or when the      *)
(* process dies after the first.                                           *)
Committing == {o \in Operator : pc[o] \in {"replacing_view", "restoring"} /\ job[o].registry # None}

Book == IF Committing = {} THEN registry ELSE job[CHOOSE o \in Committing : TRUE].old

Lifecycle == INSTANCE PolicyLifecycle WITH book <- Book

LifecycleSpec == Lifecycle!Spec
=============================================================================
