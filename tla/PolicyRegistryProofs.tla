------------------------ MODULE PolicyRegistryProofs ------------------------
(***************************************************************************)
(* Theorems about PolicyRegistry for every set of operators, policies and  *)
(* timestamps, with or without crashes.                                    *)
(***************************************************************************)
EXTENDS PolicyOverlap, TLAPS, WellFoundedInduction

-----------------------------------------------------------------------------
(* Histories and entries.                                                  *)

(* Extending a verified history by an event that may follow its last one,  *)
(* no earlier than it, gives a verified history.                           *)
LEMMA HistoryExtends ==
  ASSUME NEW events \in Seq(Event), HistoryVerified(events),
         NEW ev \in Event,
         MayFollow(events[Len(events)].type, ev.type),
         events[Len(events)].at <= ev.at
  PROVE  /\ Append(events, ev) \in Seq(Event)
         /\ HistoryVerified(Append(events, ev))
         /\ Append(events, ev)[Len(Append(events, ev))] = ev
<1> DEFINE longer == Append(events, ev)
<1>1. longer \in Seq(Event) /\ Len(longer) = Len(events) + 1
  OBVIOUS
<1>2. longer[Len(longer)] = ev
  OBVIOUS
<1>3. \A i \in 1 .. Len(events) : longer[i] = events[i]
  OBVIOUS
<1>4. Len(longer) > 0 /\ longer[1].type = "BUILT"
  BY <1>1, <1>3 DEF HistoryVerified
<1>5. ASSUME NEW i \in 2 .. Len(longer)
      PROVE  /\ MayFollow(longer[i - 1].type, longer[i].type)
             /\ longer[i - 1].at <= longer[i].at
  <2>1. CASE i = Len(longer)
    BY <2>1, <1>1, <1>2, <1>3 DEF HistoryVerified
  <2>2. CASE i # Len(longer)
    <3>1. i \in 2 .. Len(events) /\ i - 1 \in 1 .. Len(events)
      BY <2>2, <1>1
    <3>2. QED
      BY <3>1, <1>3 DEF HistoryVerified
  <2>3. QED
    BY <2>1, <2>2
<1>6. QED
  BY <1>1, <1>2, <1>4, <1>5 DEF HistoryVerified
(* Where every present parent has a smaller version, no set of policies is *)
(* closed under the parent pointers: the cycle search finds nothing.       *)
LEMMA SmallerParentsAcyclic ==
  ASSUME NEW r \in Registry,
         \A p \in Present(r) : ParentOf[p] # None => VersionOf[p] > VersionOf[ParentOf[p]]
  PROVE  \A S \in SUBSET Present(r) : S # {} => ~ ({ParentOf[p] : p \in S} \subseteq S)
<1> SUFFICES ASSUME NEW S \in SUBSET Present(r), S # {}, {ParentOf[p] : p \in S} \subseteq S
             PROVE  FALSE
  OBVIOUS
<1> DEFINE versions == {VersionOf[p] : p \in S}
<1>1. S \subseteq Policy /\ versions \subseteq Nat /\ versions # {}
  BY PolicyAssumption DEF Present
<1>2. PICK least \in versions : \A v \in versions : ~ (<<v, least>> \in OpToRel(<, Nat))
  <2> DEFINE R == OpToRel(<, Nat)
  <2>1. IsWellFoundedOn(R, Nat)
    BY NatLessThanWellFounded
  <2> HIDE DEF versions, R
  <2>2. \E x \in versions : \A y \in versions : ~ (<<y, x>> \in R)
    BY <1>1, <2>1, WFMin
  <2> QED BY <2>2 DEF R
<1>3. PICK p \in S : VersionOf[p] = least
  BY <1>2
<1>4. ParentOf[p] \in S /\ ParentOf[p] # None
  BY <1>1, PolicyAssumption
<1>5. VersionOf[ParentOf[p]] \in versions /\ VersionOf[ParentOf[p]] < least
  BY <1>1, <1>3, <1>4, PolicyAssumption
<1>6. <<VersionOf[ParentOf[p]], least>> \in OpToRel(<, Nat)
  BY <1>1, <1>2, <1>5 DEF OpToRel
<1>7. QED
  BY <1>2, <1>5, <1>6

-----------------------------------------------------------------------------
(* What every registry content satisfies: the verifier's conditions and    *)
(* three the verifier does not look at. An active policy has no successor, *)
(* a policy that has been active is the successor of its parent, and one   *)
(* that is absent has no events.                                           *)

ActiveHasNoSuccessor(r) ==
  \A p \in Policy : r.policies[p].status = "ACTIVE" => r.policies[p].supersededBy = None

SuccessorsRecorded(r) ==
  \A p \in Policy : HasBeenActive(r.policies[p]) /\ ParentOf[p] # None
                      => r.policies[ParentOf[p]].supersededBy = p

AbsentAreEmpty(r) ==
  \A p \in Policy : r.policies[p].status = "ABSENT" => r.policies[p].events = <<>>

Sound(r) ==
  /\ r \in Registry
  /\ VerifyRegistry(r)
  /\ ActiveHasNoSuccessor(r)
  /\ SuccessorsRecorded(r)
  /\ AbsentAreEmpty(r)

LEMMA EmptyRegistrySound == Sound(EmptyRegistry)
<1>1. AbsentEntry \in Entry
  BY DEF AbsentEntry, Entry, Status
<1>2. EmptyRegistry \in Registry /\ Present(EmptyRegistry) = {}
  BY <1>1 DEF EmptyRegistry, Registry, Present, AbsentEntry
<1>3. \A p \in Policy : EmptyRegistry.policies[p].status = "ABSENT"
  BY DEF EmptyRegistry, AbsentEntry
<1>4. EmptyRegistry.active = None
  BY DEF EmptyRegistry
<1>5. VerifyRegistry(EmptyRegistry)
  BY <1>2, <1>3, <1>4 DEF VerifyRegistry, ActiveVerified, LineageVerified
<1>6. AbsentAreEmpty(EmptyRegistry)
  BY DEF AbsentAreEmpty, EmptyRegistry, AbsentEntry
<1>7. QED
  BY <1>2, <1>3, <1>5, <1>6 DEF Sound, ActiveHasNoSuccessor, SuccessorsRecorded, HasBeenActive

(* The first event of a policy. *)
LEMMA DraftedEntry ==
  ASSUME NEW t \in Time
  PROVE  /\ Drafted(t) \in Entry
         /\ EntryVerified(Drafted(t))
         /\ Drafted(t).status = "DRAFT"
         /\ Drafted(t).supersededBy = None
<1> DEFINE ev == NewEvent("BUILT", t, None)
<1>1. ev \in Event
  BY DEF NewEvent, Event, EventType
<1>2. Drafted(t) \in Entry
  BY <1>1 DEF Drafted, Entry, Status
<1>3. EntryVerified(Drafted(t))
  BY DEF EntryVerified, HistoryVerified, LastEvent, ProjectsTo, Drafted, NewEvent
<1>4. QED
  BY <1>2, <1>3 DEF Drafted

(* The three transitions of an entry. *)
LEMMA ActivatedEntry ==
  ASSUME NEW e \in Entry, EntryVerified(e), e.status = "DRAFT",
         NEW t \in Time, t >= LastEvent(e).at
  PROVE  /\ Activated(e, t) \in Entry
         /\ EntryVerified(Activated(e, t))
         /\ Activated(e, t).status = "ACTIVE"
         /\ Activated(e, t).supersededBy = None
<1> DEFINE ev1 == NewEvent("APPROVED", t, None)
           ev2 == NewEvent("ACTIVATED", t, None)
           h1 == Append(e.events, ev1)
           h2 == Append(h1, ev2)
<1>1. ev1 \in Event /\ ev2 \in Event
  BY DEF NewEvent, Event, EventType
<1>2. e.events \in Seq(Event) /\ HistoryVerified(e.events) /\ Len(e.events) > 0
  BY DEF Entry, EntryVerified, HistoryVerified
<1>3. LastEvent(e) \in Event /\ LastEvent(e).type = "BUILT"
  BY <1>2 DEF EntryVerified, ProjectsTo, LastEvent
<1>4. t \in Nat /\ LastEvent(e).at \in Nat
  BY <1>3, PolicyAssumption DEF Event
<1>5. MayFollow(e.events[Len(e.events)].type, ev1.type) /\ e.events[Len(e.events)].at <= ev1.at
  BY <1>3, <1>4 DEF MayFollow, LastEvent, NewEvent
<1>6. h1 \in Seq(Event) /\ HistoryVerified(h1) /\ h1[Len(h1)] = ev1
  BY <1>1, <1>2, <1>5, HistoryExtends
<1>7. MayFollow(h1[Len(h1)].type, ev2.type) /\ h1[Len(h1)].at <= ev2.at
  BY <1>4, <1>6 DEF MayFollow, NewEvent
<1>8. h2 \in Seq(Event) /\ HistoryVerified(h2) /\ h2[Len(h2)] = ev2
  <2> HIDE DEF h1
  <2> QED BY <1>1, <1>6, <1>7, HistoryExtends
<1>9. Activated(e, t) = [status |-> "ACTIVE", events |-> h2, supersededBy |-> e.supersededBy]
  BY DEF Activated
<1>10. e.supersededBy = None
  BY DEF EntryVerified
<1>11. Activated(e, t) \in Entry
  BY <1>8, <1>9, <1>10 DEF Entry, Status
<1>12. EntryVerified(Activated(e, t))
  <2> HIDE DEF h2
  <2> QED BY <1>8, <1>9 DEF EntryVerified, LastEvent, NewEvent, ProjectsTo
<1>13. QED
  BY <1>9, <1>10, <1>11, <1>12

LEMMA SupersededEntry ==
  ASSUME NEW e \in Entry, EntryVerified(e), e.status = "ACTIVE",
         NEW t \in Time, t >= LastEvent(e).at, NEW p \in Policy
  PROVE  /\ Superseded(e, p, t) \in Entry
         /\ EntryVerified(Superseded(e, p, t))
         /\ Superseded(e, p, t).status = "SUPERSEDED"
         /\ Superseded(e, p, t).supersededBy = p
<1> DEFINE ev == NewEvent("SUPERSEDED", t, p)
           h == Append(e.events, ev)
<1>1. ev \in Event
  BY DEF NewEvent, Event, EventType
<1>2. e.events \in Seq(Event) /\ HistoryVerified(e.events) /\ Len(e.events) > 0
  BY DEF Entry, EntryVerified, HistoryVerified
<1>3. LastEvent(e) \in Event /\ LastEvent(e).type = "ACTIVATED"
  BY <1>2 DEF EntryVerified, ProjectsTo, LastEvent
<1>4. t \in Nat /\ LastEvent(e).at \in Nat
  BY <1>3, PolicyAssumption DEF Event
<1>5. MayFollow(e.events[Len(e.events)].type, ev.type) /\ e.events[Len(e.events)].at <= ev.at
  BY <1>3, <1>4 DEF MayFollow, LastEvent, NewEvent
<1>6. h \in Seq(Event) /\ HistoryVerified(h) /\ h[Len(h)] = ev
  BY <1>1, <1>2, <1>5, HistoryExtends
<1>7. Superseded(e, p, t) = [status |-> "SUPERSEDED", events |-> h, supersededBy |-> p]
  BY DEF Superseded
<1>8. Superseded(e, p, t) \in Entry
  BY <1>6, <1>7 DEF Entry, Status
<1>9. EntryVerified(Superseded(e, p, t))
  <2>1. p # None
    BY PolicyAssumption
  <2> HIDE DEF h
  <2> QED BY <1>6, <1>7, <2>1 DEF EntryVerified, LastEvent, NewEvent, ProjectsTo
<1>10. QED
  BY <1>7, <1>8, <1>9

LEMMA RetiredEntry ==
  ASSUME NEW e \in Entry, EntryVerified(e), e.status \in {"ACTIVE", "SUPERSEDED"},
         NEW t \in Time, t >= LastEvent(e).at
  PROVE  /\ Retired(e, t) \in Entry
         /\ EntryVerified(Retired(e, t))
         /\ Retired(e, t).status = "RETIRED"
         /\ Retired(e, t).supersededBy = e.supersededBy
<1> DEFINE ev == NewEvent("RETIRED", t, None)
           h == Append(e.events, ev)
<1>1. ev \in Event
  BY DEF NewEvent, Event, EventType
<1>2. e.events \in Seq(Event) /\ HistoryVerified(e.events) /\ Len(e.events) > 0
  BY DEF Entry, EntryVerified, HistoryVerified
<1>3. LastEvent(e) \in Event /\ LastEvent(e).type \in {"ACTIVATED", "SUPERSEDED"}
  BY <1>2 DEF EntryVerified, ProjectsTo, LastEvent
<1>4. t \in Nat /\ LastEvent(e).at \in Nat
  BY <1>3, PolicyAssumption DEF Event
<1>5. MayFollow(e.events[Len(e.events)].type, ev.type) /\ e.events[Len(e.events)].at <= ev.at
  BY <1>3, <1>4 DEF MayFollow, LastEvent, NewEvent
<1>6. h \in Seq(Event) /\ HistoryVerified(h) /\ h[Len(h)] = ev
  BY <1>1, <1>2, <1>5, HistoryExtends
<1>7. Retired(e, t) = [status |-> "RETIRED", events |-> h, supersededBy |-> e.supersededBy]
  BY DEF Retired
<1>8. Retired(e, t) \in Entry
  BY <1>6, <1>7 DEF Entry, Status
<1>9. EntryVerified(Retired(e, t))
  <2> HIDE DEF h
  <2> QED BY <1>6, <1>7 DEF EntryVerified, LastEvent, NewEvent, ProjectsTo
<1>10. QED
  BY <1>7, <1>8, <1>9
-----------------------------------------------------------------------------
(* The three transformations keep a registry sound.                        *)

(* What a sound registry gives at one policy. *)
LEMMA SoundEntry ==
  ASSUME NEW r, Sound(r), NEW p \in Policy
  PROVE  /\ r.active \in Policy \cup {None}
         /\ r.policies \in [Policy -> Entry]
         /\ r.policies[p] \in Entry
         /\ p \in Present(r) <=> r.policies[p].status # "ABSENT"
         /\ p \in Present(r) => EntryVerified(r.policies[p])
         /\ r.policies[p].status = "DRAFT" => r.policies[p].supersededBy = None
         /\ r.policies[p].status = "ACTIVE" <=> r.active = p
BY PolicyAssumption
   DEF Sound, Registry, Present, VerifyRegistry, EntryVerified, ActiveVerified

LEMMA BuildSound ==
  ASSUME NEW r, Sound(r), NEW p \in Policy, NEW t \in Time, CanBuild(r, p)
  PROVE  Sound(Build(r, p, t))
<1> DEFINE n == Build(r, p, t)
<1>1. r \in Registry /\ r.policies \in [Policy -> Entry] /\ r.active \in Policy \cup {None}
  BY DEF Sound, Registry
<1>2. n = [active |-> r.active, policies |-> [r.policies EXCEPT ![p] = Drafted(t)]]
  BY <1>1 DEF Build, Registry
<1>3. n \in Registry
  BY <1>1, <1>2, DraftedEntry DEF Registry
<1>4. /\ n.policies[p] = Drafted(t)
      /\ \A q \in Policy : q # p => n.policies[q] = r.policies[q]
      /\ n.active = r.active
  BY <1>1, <1>2
<1> HIDE DEF n
<1>5. r.policies[p].status = "ABSENT" /\ p \notin Present(r)
  BY DEF CanBuild, Present
<1>6. Present(n) = Present(r) \cup {p}
  BY <1>4, DraftedEntry DEF Present
<1>7. \A q \in Policy : q # p => (q \in Present(n) <=> q \in Present(r))
  BY <1>6
<1>8. Present(n) \subseteq Evaluated
  BY <1>6 DEF Sound, VerifyRegistry, CanBuild
<1>9. \A q1, q2 \in Present(n) : VersionOf[q1] = VersionOf[q2] => q1 = q2
  BY <1>6 DEF Sound, VerifyRegistry, CanBuild
<1>10. \A q \in Present(n) : EntryVerified(n.policies[q])
  BY <1>4, <1>6, DraftedEntry DEF Sound, VerifyRegistry, Present
<1>11. ActiveVerified(n)
  <2>1. \A q \in Policy : n.policies[q].status = "ACTIVE" <=> r.policies[q].status = "ACTIVE"
    BY <1>4, <1>5, DraftedEntry
  <2>2. ASSUME NEW q \in Policy
        PROVE  n.policies[q].status = "ACTIVE" <=> n.active = q
    <3>1. r.policies[q].status = "ACTIVE" <=> r.active = q
      BY SoundEntry
    <3>2. QED
      BY <3>1, <2>1, <1>4
  <2>3. QED
    BY <2>2, <1>1, <1>4, PolicyAssumption DEF ActiveVerified, Present
<1>12. \A q \in Present(n) : ParentOf[q] # None =>
         ParentOf[q] \in Present(n) /\ VersionOf[q] > VersionOf[ParentOf[q]]
  BY <1>6 DEF Sound, VerifyRegistry, LineageVerified, CanBuild
<1>13. \A q \in Present(n) : n.policies[q].supersededBy # None =>
         n.policies[q].supersededBy \in Present(n) /\ ParentOf[n.policies[q].supersededBy] = q
  BY <1>4, <1>6, DraftedEntry DEF Sound, VerifyRegistry, LineageVerified, Present
<1>14. LineageVerified(n)
  BY <1>3, <1>12, <1>13, SmallerParentsAcyclic DEF LineageVerified
<1>15. ActiveHasNoSuccessor(n)
  BY <1>4, DraftedEntry DEF Sound, ActiveHasNoSuccessor
<1>16. SuccessorsRecorded(n)
  <2> SUFFICES ASSUME NEW q \in Policy, HasBeenActive(n.policies[q]), ParentOf[q] # None
               PROVE  n.policies[ParentOf[q]].supersededBy = q
    BY DEF SuccessorsRecorded
  <2>1. q # p
    BY <1>4, DraftedEntry DEF HasBeenActive
  <2>2. HasBeenActive(r.policies[q]) /\ q \in Present(r)
    BY <2>1, <1>4 DEF HasBeenActive, Present
  <2>3. ParentOf[q] \in Present(r) /\ r.policies[ParentOf[q]].supersededBy = q
    BY <2>2 DEF Sound, VerifyRegistry, LineageVerified, SuccessorsRecorded
  <2>4. ParentOf[q] # p /\ ParentOf[q] \in Policy
    BY <2>3, <1>5 DEF Present
  <2>5. QED
    BY <2>3, <2>4, <1>4
<1>17. AbsentAreEmpty(n)
  BY <1>4, DraftedEntry DEF Sound, AbsentAreEmpty
<1>18. QED
  BY <1>3, <1>8, <1>9, <1>10, <1>11, <1>14, <1>15, <1>16, <1>17 DEF Sound, VerifyRegistry, n

LEMMA ApproveSound ==
  ASSUME NEW r, Sound(r), NEW p \in Policy, NEW t \in Time, CanApprove(r, p, t)
  PROVE  Sound(Approve(r, p, t))
<1> DEFINE n == Approve(r, p, t)
<1>1. r \in Registry /\ r.policies \in [Policy -> Entry] /\ r.active \in Policy \cup {None}
  BY DEF Sound, Registry
<1>2. /\ r.policies[p].status = "DRAFT" /\ p \in Present(r) /\ r.active # p
      /\ EntryVerified(r.policies[p]) /\ r.policies[p] \in Entry
      /\ t >= LastEvent(r.policies[p]).at
  BY SoundEntry DEF CanApprove
<1>3. /\ Activated(r.policies[p], t) \in Entry
      /\ EntryVerified(Activated(r.policies[p], t))
      /\ Activated(r.policies[p], t).status = "ACTIVE"
      /\ Activated(r.policies[p], t).supersededBy = None
  BY <1>2, ActivatedEntry
<1>4. ASSUME r.active # None
      PROVE  /\ r.active \in Policy /\ r.policies[r.active].status = "ACTIVE"
             /\ Superseded(r.policies[r.active], p, t) \in Entry
             /\ EntryVerified(Superseded(r.policies[r.active], p, t))
             /\ Superseded(r.policies[r.active], p, t).status = "SUPERSEDED"
             /\ Superseded(r.policies[r.active], p, t).supersededBy = p
  <2>1. r.active \in Policy
    BY <1>1, <1>4
  <2>2. r.policies[r.active].status = "ACTIVE" /\ r.policies[r.active] \in Entry
        /\ EntryVerified(r.policies[r.active])
    BY <2>1, SoundEntry
  <2>3. t >= LastEvent(r.policies[r.active]).at
    BY <1>4 DEF CanApprove
  <2>4. QED
    BY <2>1, <2>2, <2>3, SupersededEntry
<1>5. /\ n.active = p
      /\ n.policies[p] = Activated(r.policies[p], t)
      /\ r.active # None => n.policies[r.active] = Superseded(r.policies[r.active], p, t)
      /\ \A q \in Policy : q # p /\ q # r.active => n.policies[q] = r.policies[q]
  BY <1>1, <1>2, <1>4 DEF Approve
<1>6. n \in Registry
  <2>1. ASSUME NEW q \in Policy
        PROVE  n.policies[q] \in Entry
    <3>1. CASE q = p
      BY <3>1, <1>3, <1>5
    <3>2. CASE q # p /\ q = r.active
      BY <3>2, <1>4, <1>5, PolicyAssumption
    <3>3. CASE q # p /\ q # r.active
      BY <3>3, <1>1, <1>5
    <3>4. QED
      BY <3>1, <3>2, <3>3
  <2>2. n = [active |-> p, policies |-> [q \in Policy |-> n.policies[q]]]
    BY DEF Approve
  <2> HIDE DEF n
  <2>3. QED
    BY <2>1, <2>2 DEF Registry
<1> HIDE DEF n
<1>7. Present(n) = Present(r)
  <2>1. ASSUME NEW q \in Policy
        PROVE  n.policies[q].status # "ABSENT" <=> r.policies[q].status # "ABSENT"
    <3>1. CASE q = p
      BY <3>1, <1>2, <1>3, <1>5
    <3>2. CASE q # p /\ q = r.active
      BY <3>2, <1>4, <1>5, PolicyAssumption
    <3>3. CASE q # p /\ q # r.active
      BY <3>3, <1>5
    <3>4. QED
      BY <3>1, <3>2, <3>3
  <2>2. QED
    BY <2>1 DEF Present
<1>8. ASSUME NEW q \in Present(n)
      PROVE  EntryVerified(n.policies[q])
  <2>1. q \in Policy /\ EntryVerified(r.policies[q])
    BY <1>7 DEF Sound, VerifyRegistry, Present
  <2>2. CASE q = p
    BY <2>2, <1>3, <1>5
  <2>3. CASE q # p /\ q = r.active
    BY <2>1, <2>3, <1>4, <1>5, PolicyAssumption
  <2>4. CASE q # p /\ q # r.active
    BY <2>1, <2>4, <1>5
  <2>5. QED
    BY <2>2, <2>3, <2>4
<1>9. ASSUME NEW q \in Policy
      PROVE  n.policies[q].status = "ACTIVE" <=> q = p
  <2>1. CASE q = p
    BY <2>1, <1>3, <1>5
  <2>2. CASE q # p /\ q = r.active
    BY <2>2, <1>4, <1>5, PolicyAssumption
  <2>3. CASE q # p /\ q # r.active
    <3>1. r.policies[q].status # "ACTIVE"
      BY <2>3, SoundEntry
    <3>2. QED
      BY <3>1, <2>3, <1>5
  <2>4. QED
    BY <2>1, <2>2, <2>3
<1>10. ActiveVerified(n)
  BY <1>2, <1>5, <1>7, <1>9, PolicyAssumption DEF ActiveVerified, Present
<1>11. \A q \in Present(n) : n.policies[q].supersededBy # None =>
         n.policies[q].supersededBy \in Present(n) /\ ParentOf[n.policies[q].supersededBy] = q
  <2> SUFFICES ASSUME NEW q \in Present(n), n.policies[q].supersededBy # None
               PROVE  /\ n.policies[q].supersededBy \in Present(n)
                      /\ ParentOf[n.policies[q].supersededBy] = q
    OBVIOUS
  <2>1. q \in Policy /\ q \in Present(r) /\ q # p
    BY <1>3, <1>5, <1>7 DEF Present
  <2>2. CASE q = r.active
    BY <2>1, <2>2, <1>2, <1>4, <1>5, <1>7, PolicyAssumption DEF CanApprove
  <2>3. CASE q # r.active
    BY <2>1, <2>3, <1>5, <1>7 DEF Sound, VerifyRegistry, LineageVerified
  <2>4. QED
    BY <2>2, <2>3
<1>12. LineageVerified(n)
  <2>1. \A q \in Present(n) : ParentOf[q] # None =>
          ParentOf[q] \in Present(n) /\ VersionOf[q] > VersionOf[ParentOf[q]]
    BY <1>7 DEF Sound, VerifyRegistry, LineageVerified
  <2>2. QED
    BY <2>1, <1>6, <1>11, SmallerParentsAcyclic DEF LineageVerified
<1>13. ActiveHasNoSuccessor(n)
  BY <1>3, <1>5, <1>9 DEF ActiveHasNoSuccessor
<1>14. SuccessorsRecorded(n)
  <2> SUFFICES ASSUME NEW q \in Policy, HasBeenActive(n.policies[q]), ParentOf[q] # None
               PROVE  n.policies[ParentOf[q]].supersededBy = q
    BY DEF SuccessorsRecorded
  <2>1. CASE q = p
    BY <2>1, <1>4, <1>5 DEF CanApprove
  <2>2. CASE q # p
    <3>1. HasBeenActive(r.policies[q])
      <4>1. CASE q = r.active
        BY <4>1, <1>4, PolicyAssumption DEF HasBeenActive
      <4>2. CASE q # r.active
        BY <4>2, <2>2, <1>5
      <4>3. QED
        BY <4>1, <4>2
    <3>2. ParentOf[q] \in Policy /\ r.policies[ParentOf[q]].supersededBy = q
      BY <3>1, PolicyAssumption DEF Sound, SuccessorsRecorded
    <3>3. ParentOf[q] # p
      BY <3>2, <1>2, SoundEntry, PolicyAssumption
    <3>4. ParentOf[q] # r.active
      BY <3>2, <1>4, PolicyAssumption DEF Sound, ActiveHasNoSuccessor
    <3>5. QED
      BY <3>2, <3>3, <3>4, <1>5
  <2>3. QED
    BY <2>1, <2>2
<1>15. /\ Present(n) \subseteq Evaluated
       /\ \A q1, q2 \in Present(n) : VersionOf[q1] = VersionOf[q2] => q1 = q2
  BY <1>7 DEF Sound, VerifyRegistry
<1>16. AbsentAreEmpty(n)
  BY <1>3, <1>4, <1>5, PolicyAssumption DEF Sound, AbsentAreEmpty
<1>17. QED
  BY <1>6, <1>8, <1>10, <1>12, <1>13, <1>14, <1>15, <1>16 DEF Sound, VerifyRegistry, n

LEMMA RetireSound ==
  ASSUME NEW r, Sound(r), NEW p \in Policy, NEW t \in Time, CanRetire(r, p, t)
  PROVE  Sound(Retire(r, p, t))
<1> DEFINE n == Retire(r, p, t)
<1>1. r \in Registry /\ r.policies \in [Policy -> Entry] /\ r.active \in Policy \cup {None}
  BY DEF Sound, Registry
<1>2. /\ r.policies[p].status \in {"ACTIVE", "SUPERSEDED"} /\ p \in Present(r)
      /\ EntryVerified(r.policies[p]) /\ r.policies[p] \in Entry
      /\ t >= LastEvent(r.policies[p]).at
  BY SoundEntry DEF CanRetire
<1>3. /\ Retired(r.policies[p], t) \in Entry
      /\ EntryVerified(Retired(r.policies[p], t))
      /\ Retired(r.policies[p], t).status = "RETIRED"
      /\ Retired(r.policies[p], t).supersededBy = r.policies[p].supersededBy
  BY <1>2, RetiredEntry
<1>4. /\ n.active = IF r.active = p THEN None ELSE r.active
      /\ n.policies[p] = Retired(r.policies[p], t)
      /\ \A q \in Policy : q # p => n.policies[q] = r.policies[q]
  BY <1>1 DEF Retire
<1>5. n \in Registry
  BY <1>1, <1>3 DEF Retire, Registry
<1> HIDE DEF n
<1>6. Present(n) = Present(r)
  BY <1>2, <1>3, <1>4 DEF Present
<1>7. \A q \in Policy : n.policies[q].supersededBy = r.policies[q].supersededBy
  BY <1>3, <1>4
<1>8. \A q \in Present(n) : EntryVerified(n.policies[q])
  BY <1>3, <1>4, <1>6 DEF Sound, VerifyRegistry, Present
<1>9. ASSUME NEW q \in Policy
      PROVE  n.policies[q].status = "ACTIVE" <=> q # p /\ r.active = q
  <2>1. r.policies[q].status = "ACTIVE" <=> r.active = q
    BY SoundEntry
  <2>2. QED
    BY <2>1, <1>3, <1>4
<1>10. ActiveVerified(n)
  BY <1>1, <1>4, <1>9, PolicyAssumption DEF ActiveVerified, Present
<1>11. LineageVerified(n)
  BY <1>6, <1>7 DEF Sound, VerifyRegistry, LineageVerified, Present
<1>12. ActiveHasNoSuccessor(n)
  BY <1>7, <1>9, SoundEntry DEF Sound, ActiveHasNoSuccessor
<1>13. SuccessorsRecorded(n)
  <2> SUFFICES ASSUME NEW q \in Policy, HasBeenActive(n.policies[q]), ParentOf[q] # None
               PROVE  n.policies[ParentOf[q]].supersededBy = q
    BY DEF SuccessorsRecorded
  <2>1. HasBeenActive(r.policies[q])
    BY <1>2, <1>4 DEF HasBeenActive
  <2>2. QED
    BY <2>1, <1>7, PolicyAssumption DEF Sound, SuccessorsRecorded
<1>14. /\ Present(n) \subseteq Evaluated
       /\ \A q1, q2 \in Present(n) : VersionOf[q1] = VersionOf[q2] => q1 = q2
  BY <1>6 DEF Sound, VerifyRegistry
<1>15. AbsentAreEmpty(n)
  BY <1>3, <1>4 DEF Sound, AbsentAreEmpty
<1>16. QED
  BY <1>5, <1>8, <1>10, <1>11, <1>12, <1>13, <1>14, <1>15 DEF Sound, VerifyRegistry, n
-----------------------------------------------------------------------------
(* The inductive invariant: every registry content a file or a running     *)
(* command holds is sound. A command computes from one content read whole, *)
(* and a rollback puts back one content kept whole, so no interleaving     *)
(* mixes two of them.                                                      *)

ContentSound(c) == c \in {None, Torn} \/ Sound(c)

IInv ==
  /\ TypeOK
  /\ ContentSound(registry)
  /\ \A o \in Operator : ContentSound(job[o].registry) /\ ContentSound(job[o].old)

LEMMA NoJobTyped == NoJob \in Job /\ NoJob.registry = None /\ NoJob.old = None
BY DEF NoJob, Job

LEMMA InitIInv == Init => IInv
<1> SUFFICES ASSUME Init PROVE IInv
  OBVIOUS
<1>1. TypeOK
  BY NoJobTyped DEF Init, TypeOK, Phase
<1>2. QED
  BY <1>1, NoJobTyped DEF Init, IInv, ContentSound

(* Starting a command with a sound content, or with none. *)
LEMMA StartIInv ==
  ASSUME IInv, NEW o \in Operator,
         NEW newRegistry, NEW newView \in RuleSet \cup {None},
         NEW claim \in SUBSET (Policy \X EventType),
         newRegistry = None \/ Sound(newRegistry),
         Start(o, newRegistry, newView, claim)
  PROVE  IInv'
<1> DEFINE j == [registry |-> newRegistry, view |-> newView, old |-> None, claim |-> claim]
<1>1. j \in Job
  BY DEF Job, Sound
<1>2. /\ job' = [job EXCEPT ![o] = j]
      /\ pc' = [pc EXCEPT ![o] = "staging"]
      /\ UNCHANGED <<registry, view, acked, crashed>>
  BY DEF Start
<1>3. j.registry = newRegistry /\ j.old = None
  OBVIOUS
<1> HIDE DEF j
<1>4. TypeOK'
  BY <1>1, <1>2 DEF IInv, TypeOK, Phase
<1>5. ASSUME NEW q \in Operator
      PROVE  ContentSound(job'[q].registry) /\ ContentSound(job'[q].old)
  BY <1>2, <1>3 DEF IInv, TypeOK, ContentSound
<1>6. QED
  BY <1>2, <1>4, <1>5 DEF IInv, ContentSound

LEMMA CommandIInv ==
  ASSUME IInv, NEW o \in Operator, Command(o)
  PROVE  IInv'
<1>1. ASSUME NEW p \in Policy, NEW t \in Time, BuildPolicy(o, p, t)
      PROVE  IInv'
  <2> DEFINE base == IF registry = None THEN EmptyRegistry ELSE registry
  <2>1. Sound(base)
    BY <1>1, EmptyRegistrySound DEF BuildPolicy, Loadable, IInv, ContentSound
  <2>2. CanBuild(base, p) /\ Start(o, Build(base, p, t), None, {<<p, "BUILT">>})
    BY <1>1 DEF BuildPolicy
  <2> HIDE DEF base
  <2>3. Sound(Build(base, p, t))
    BY <2>1, <2>2, BuildSound
  <2>4. {<<p, "BUILT">>} \in SUBSET (Policy \X EventType)
    BY DEF EventType
  <2>5. QED
    BY <2>2, <2>3, <2>4, StartIInv
<1>2. ASSUME NEW p \in Policy, NEW t \in Time, ApprovePolicy(o, p, t)
      PROVE  IInv'
  <2> DEFINE claim == {<<p, "ACTIVATED">>}
                \cup (IF registry.active = None THEN {} ELSE {<<registry.active, "SUPERSEDED">>})
  <2>1. Sound(registry) /\ CanApprove(registry, p, t)
    BY <1>2 DEF ApprovePolicy, Loadable, IInv, ContentSound
  <2>2. Sound(Approve(registry, p, t))
    BY <2>1, ApproveSound
  <2>3. claim \in SUBSET (Policy \X EventType)
    BY <2>1 DEF EventType, Sound, Registry
  <2>4. Start(o, Approve(registry, p, t), RulesOf[p], claim)
    BY <1>2 DEF ApprovePolicy
  <2>5. RulesOf[p] \in RuleSet
    BY DEF RuleSet
  <2> HIDE DEF claim
  <2>6. QED
    BY <2>2, <2>3, <2>4, <2>5, StartIInv
<1>3. ASSUME NEW p \in Policy, NEW t \in Time, RetirePolicy(o, p, t)
      PROVE  IInv'
  <2> DEFINE rules == IF registry.active = p THEN EmptyRules ELSE None
  <2>1. Sound(registry) /\ CanRetire(registry, p, t)
    BY <1>3 DEF RetirePolicy, Loadable, IInv, ContentSound
  <2>2. Sound(Retire(registry, p, t))
    BY <2>1, RetireSound
  <2>3. {<<p, "RETIRED">>} \in SUBSET (Policy \X EventType)
    BY DEF EventType
  <2>4. Start(o, Retire(registry, p, t), rules, {<<p, "RETIRED">>})
    BY <1>3 DEF RetirePolicy
  <2>5. rules \in RuleSet \cup {None}
    BY DEF RuleSet
  <2> HIDE DEF rules
  <2>6. QED
    BY <2>2, <2>3, <2>4, <2>5, StartIInv
<1>4. ASSUME Materialize(o)
      PROVE  IInv'
  <2>1. registry.active \in Policy
    BY <1>4 DEF Materialize, Loadable, IInv, TypeOK, Registry
  <2>2. Start(o, None, RulesOf[registry.active], {}) /\ RulesOf[registry.active] \in RuleSet
    BY <1>4, <2>1 DEF Materialize, RuleSet
  <2>3. {} \in SUBSET (Policy \X EventType) /\ RulesOf[registry.active] \in RuleSet \cup {None}
    BY <2>2
  <2> DEFINE rules == RulesOf[registry.active]
             claim == {}
             none == None
  <2>4. Start(o, none, rules, claim) /\ none = None
    BY <2>2
  <2>5. rules \in RuleSet \cup {None} /\ claim \in SUBSET (Policy \X EventType)
    BY <2>3
  <2> HIDE DEF rules, claim, none
  <2>6. QED
    BY <2>4, <2>5, StartIInv
<1>5. QED
  BY <1>1, <1>2, <1>3, <1>4 DEF Command

LEMMA QuitKeepsJobsSound ==
  ASSUME IInv, NEW o \in Operator, Quit(o)
  PROVE  /\ pc' \in [Operator -> Phase]
         /\ job' \in [Operator -> Job]
         /\ \A q \in Operator : ContentSound(job'[q].registry) /\ ContentSound(job'[q].old)
<1>1. job' = [job EXCEPT ![o] = NoJob] /\ pc' = [pc EXCEPT ![o] = "idle"]
  BY DEF Quit
<1>2. \A q \in Operator : job'[q] = IF q = o THEN NoJob ELSE job[q]
  BY <1>1 DEF IInv, TypeOK
<1>3. QED
  BY <1>1, <1>2, NoJobTyped DEF IInv, TypeOK, Phase, ContentSound

LEMMA AtomicWriteIInv ==
  ASSUME IInv, NEW o \in Operator, AtomicWrite(o)
  PROVE  IInv'
<1>1. job[o] \in Job /\ ContentSound(job[o].registry) /\ ContentSound(job[o].old)
  BY DEF IInv, TypeOK
<1>2. ASSUME Stage(o)
      PROVE  IInv'
  <2>1. job' = [job EXCEPT ![o] = [job[o] EXCEPT !.old = registry]]
    BY <1>2 DEF Stage
  <2>2. [job[o] EXCEPT !.old = registry] \in Job
    BY <1>1 DEF Job, IInv, TypeOK
  <2>3. TypeOK'
    BY <1>2, <2>1, <2>2 DEF Stage, IInv, TypeOK, Phase
  <2>4. ASSUME NEW q \in Operator
        PROVE  ContentSound(job'[q].registry) /\ ContentSound(job'[q].old)
    <3>1. CASE q = o
      BY <3>1, <1>1, <2>1 DEF IInv, TypeOK, Job, ContentSound
    <3>2. CASE q # o
      BY <3>2, <2>1 DEF IInv, TypeOK
    <3>3. QED
      BY <3>1, <3>2
  <2>5. QED
    BY <1>2, <2>3, <2>4 DEF Stage, IInv, ContentSound
<1>3. ASSUME ReplaceRegistry(o)
      PROVE  IInv'
  <2>1. registry' = job[o].registry /\ UNCHANGED <<view, crashed>>
    BY <1>3 DEF ReplaceRegistry
  <2>2. CASE job[o].view = None
    <3>1. Quit(o) /\ acked' = acked \cup job[o].claim
      BY <1>3, <2>2 DEF ReplaceRegistry, Report
    <3>2. acked' \subseteq Policy \X EventType
      BY <1>1, <3>1 DEF IInv, TypeOK, Job
    <3>3. registry' \in Registry \cup {None, Torn} /\ ContentSound(registry')
      BY <1>1, <2>1 DEF Job
    <3>4. TypeOK'
      BY <2>1, <3>1, <3>2, <3>3, QuitKeepsJobsSound DEF IInv, TypeOK
    <3>5. QED
      BY <3>1, <3>3, <3>4, QuitKeepsJobsSound DEF IInv, ContentSound
  <2>3. CASE job[o].view # None
    BY <1>1, <1>3, <2>1, <2>3
       DEF ReplaceRegistry, IInv, TypeOK, Job, Phase, ContentSound
  <2>4. QED
    BY <2>2, <2>3
<1>4. ASSUME ReplaceView(o)
      PROVE  IInv'
  BY <1>1, <1>4, QuitKeepsJobsSound
     DEF ReplaceView, Report, IInv, TypeOK, Job, ContentSound
<1>5. ASSUME FailClean(o)
      PROVE  IInv'
  BY <1>5, QuitKeepsJobsSound DEF FailClean, IInv, TypeOK, ContentSound
<1>6. ASSUME Rollback(o)
      PROVE  IInv'
  <2>1. CASE job[o].old = None
    BY <1>6, <2>1, QuitKeepsJobsSound DEF Rollback, IInv, TypeOK, ContentSound
  <2>2. CASE job[o].old # None
    BY <1>6, <2>2 DEF Rollback, IInv, TypeOK, Phase, ContentSound
  <2>3. QED
    BY <2>1, <2>2
<1>7. ASSUME Restore(o)
      PROVE  IInv'
  BY <1>1, <1>7, QuitKeepsJobsSound DEF Restore, IInv, TypeOK, Job, ContentSound
<1>8. QED
  BY <1>2, <1>3, <1>4, <1>5, <1>6, <1>7 DEF AtomicWrite

LEMMA NextIInv == IInv /\ [Next]_vars => IInv'
<1> SUFFICES ASSUME IInv, [Next]_vars PROVE IInv'
  OBVIOUS
<1>1. ASSUME NEW o \in Operator, Crash(o)
      PROVE  IInv'
  BY <1>1, QuitKeepsJobsSound DEF Crash, IInv, TypeOK, ContentSound
<1>2. CASE UNCHANGED vars
  BY <1>2 DEF vars, IInv, TypeOK, ContentSound
<1>3. QED
  BY <1>1, <1>2, CommandIInv, AtomicWriteIInv DEF Next

(* Every registry content that is in the file, in the hands of a command,  *)
(* or kept for a rollback stays well formed.                               *)
THEOREM Invariance == Spec => []IInv
BY InitIInv, NextIInv, PTL DEF Spec

(* The variables keep their types. *)
THEOREM TypeCorrect == Spec => []TypeOK
<1>1. IInv => TypeOK
  BY DEF IInv
<1>2. QED
  BY <1>1, Invariance, PTL

(* Whatever the operators interleave, and wherever a command fails, rolls  *)
(* back or dies, a registry file that can be read verifies.                *)
THEOREM ReadableRegistryVerifies == Spec => [](Readable => VerifyRegistry(registry))
<1>1. IInv => (Readable => VerifyRegistry(registry))
  BY DEF IInv, ContentSound, Readable, Sound
<1>2. QED
  BY <1>1, Invariance, PTL

(* No policy ever gets two activated children. *)
THEOREM LineageStaysLinear == Spec => []NoForkedLineage
<1>1. IInv => NoForkedLineage
  BY DEF IInv, ContentSound, Readable, Sound, SuccessorsRecorded, NoForkedLineage
<1>2. QED
  BY <1>1, Invariance, PTL

(* The verification before each write refuses nothing the guards admit. *)
THEOREM VerifierRefusesNothing == Spec => []AdmittedChangesVerify
<1>1. ASSUME IInv
      PROVE  AdmittedChangesVerify
  <2> SUFFICES ASSUME Readable, NEW p \in Policy, NEW t \in Time
               PROVE  /\ CanBuild(registry, p) => VerifyRegistry(Build(registry, p, t))
                      /\ CanApprove(registry, p, t) => VerifyRegistry(Approve(registry, p, t))
                      /\ CanRetire(registry, p, t) => VerifyRegistry(Retire(registry, p, t))
    BY DEF AdmittedChangesVerify
  <2>1. Sound(registry)
    BY <1>1 DEF IInv, ContentSound, Readable
  <2>2. CanBuild(registry, p) => VerifyRegistry(Build(registry, p, t))
    BY <2>1, BuildSound DEF Sound
  <2>3. CanApprove(registry, p, t) => VerifyRegistry(Approve(registry, p, t))
    BY <2>1, ApproveSound DEF Sound
  <2>4. CanRetire(registry, p, t) => VerifyRegistry(Retire(registry, p, t))
    BY <2>1, RetireSound DEF Sound
  <2>5. QED
    BY <2>2, <2>3, <2>4
<1>2. QED
  BY <1>1, Invariance, PTL

-----------------------------------------------------------------------------
(* One operator at a time. A command plans its change on the content it    *)
(* read; while it runs nobody else moves, so that content is the registry  *)
(* until the first file is replaced, and the one kept for the rollback     *)
(* after. The book is the content that counts at each point, and every     *)
(* event reported and every rule in force is in it.                        *)

BaseOf(r) == IF r = None THEN EmptyRegistry ELSE r

PlansBuild(r, j) ==
  /\ r # Torn /\ Sound(BaseOf(r))
  /\ \E p \in Policy, t \in Time :
       /\ CanBuild(BaseOf(r), p)
       /\ j.registry = Build(BaseOf(r), p, t) /\ j.view = None /\ j.claim = {<<p, "BUILT">>}

PlansApprove(r, j) ==
  /\ Sound(r)
  /\ \E p \in Policy, t \in Time :
       /\ CanApprove(r, p, t)
       /\ j.registry = Approve(r, p, t) /\ j.view = RulesOf[p]
       /\ j.claim = {<<p, "ACTIVATED">>}
                      \cup (IF r.active = None THEN {} ELSE {<<r.active, "SUPERSEDED">>})

PlansRetire(r, j) ==
  /\ Sound(r)
  /\ \E p \in Policy, t \in Time :
       /\ CanRetire(r, p, t)
       /\ j.registry = Retire(r, p, t) /\ j.claim = {<<p, "RETIRED">>}
       /\ j.view = IF r.active = p THEN EmptyRules ELSE None

PlansRules(r, j) ==
  /\ Sound(r) /\ r.active # None
  /\ j.registry = None /\ j.view = RulesOf[r.active] /\ j.claim = {}

Planned(r, j) == PlansBuild(r, j) \/ PlansApprove(r, j) \/ PlansRetire(r, j) \/ PlansRules(r, j)

(* What the command of an operator that is alone is about.                 *)
Running(o) ==
  /\ pc[o] = "staging" => Planned(registry, job[o])
  /\ pc[o] = "replacing_registry" =>
       /\ Planned(registry, job[o])
       /\ job[o].old = registry /\ job[o].registry # None
  /\ pc[o] = "replacing_view" =>
       /\ Planned(job[o].old, job[o]) /\ job[o].view # None
       /\ registry = IF job[o].registry = None THEN job[o].old ELSE job[o].registry
  /\ pc[o] = "restoring" =>
       /\ Planned(job[o].old, job[o])
       /\ job[o].registry # None /\ job[o].view # None /\ registry = Torn

Alone(o) == \A p \in Operator \ {o} : pc[p] = "idle"

Recorded(r, c) == r # None /\ \E i \in DOMAIN r.policies[c[1]].events : r.policies[c[1]].events[i].type = c[2]

InForce(r, rules) == r # None /\ \E p \in Policy : RulesOf[p] = rules /\ HasBeenActive(r.policies[p])

BookOK ==
  Book # Torn => /\ \A c \in acked : Recorded(Book, c)
                 /\ view \notin {None, EmptyRules} => InForce(Book, view)

AloneInv ==
  /\ ~Overlapping
  /\ \A o \in Operator : Running(o)
  /\ BookOK

OverlapIInv == IInv /\ overlapped \in BOOLEAN /\ (~overlapped => AloneInv)

(* Where the book is.                                                      *)
LEMMA BookAt ==
  ASSUME NEW o \in Operator, Alone(o)
  PROVE  Book = IF pc[o] \in {"replacing_view", "restoring"} /\ job[o].registry # None
                THEN job[o].old ELSE registry
<1>1. Committing \subseteq {o}
  BY DEF Committing, Alone
<1>2. CASE o \in Committing
  <2>1. Committing = {o}
    BY <1>1, <1>2
  <2>2. (CHOOSE x \in Committing : TRUE) = o
    BY <2>1
  <2>. QED BY <1>2, <2>1, <2>2 DEF Book, Committing
<1>3. CASE o \notin Committing
  <2>1. Committing = {}
    BY <1>1, <1>3
  <2>. QED BY <1>3, <2>1 DEF Book, Committing
<1>. QED BY <1>2, <1>3

LEMMA BookAtNext ==
  ASSUME NEW o \in Operator, Alone(o)'
  PROVE  Book' = IF pc'[o] \in {"replacing_view", "restoring"} /\ job'[o].registry # None
                 THEN job'[o].old ELSE registry'
<1>1. Committing' \subseteq {o}
  BY DEF Committing, Alone
<1>2. CASE o \in Committing'
  <2>1. Committing' = {o}
    BY <1>1, <1>2
  <2>2. (CHOOSE x \in Committing' : TRUE) = o
    BY <2>1
  <2>3. Book' = job'[o].old
    BY <2>1, <2>2 DEF Book
  <2>. QED BY <1>2, <2>3 DEF Committing
<1>3. CASE o \notin Committing'
  <2>1. Committing' = {}
    BY <1>1, <1>3
  <2>2. Book' = registry'
    BY <2>1 DEF Book
  <2>. QED BY <1>3, <2>2 DEF Committing
<1>. QED BY <1>2, <1>3

(* No change takes an event or an activation out of the registry.          *)
GrowsFrom(r, n) ==
  /\ \A c \in Policy \X EventType : Recorded(r, c) => Recorded(n, c)
  /\ \A rules : InForce(r, rules) => InForce(n, rules)

LEMMA Grows ==
  ASSUME NEW r \in Registry, NEW n \in Registry,
         \A p \in Policy : /\ Len(r.policies[p].events) <= Len(n.policies[p].events)
                           /\ \A i \in 1 .. Len(r.policies[p].events) :
                                n.policies[p].events[i] = r.policies[p].events[i]
                           /\ HasBeenActive(r.policies[p]) => HasBeenActive(n.policies[p])
  PROVE  GrowsFrom(r, n)
<1>1. n # None
  BY RegistryAssumption
<1>2. \A p \in Policy : /\ r.policies[p].events \in Seq(Event)
                        /\ n.policies[p].events \in Seq(Event)
  BY DEF Registry, Entry
<1>3. \A s \in Seq(Event) : DOMAIN s = 1 .. Len(s) /\ Len(s) \in Nat
  OBVIOUS
<1>4. ASSUME NEW c \in Policy \X EventType, Recorded(r, c)
      PROVE  Recorded(n, c)
  <2> DEFINE p == c[1]
             old == r.policies[p].events
             new == n.policies[p].events
  <2>1. p \in Policy
    OBVIOUS
  <2>2. /\ Len(old) <= Len(new)
        /\ \A i \in 1 .. Len(old) : new[i] = old[i]
    BY <2>1
  <2>3. /\ DOMAIN old = 1 .. Len(old) /\ Len(old) \in Nat
        /\ DOMAIN new = 1 .. Len(new) /\ Len(new) \in Nat
    BY <1>2, <1>3, <2>1
  <2>4. PICK i \in DOMAIN old : old[i].type = c[2]
    BY <1>4 DEF Recorded
  <2> HIDE DEF old, new
  <2>5. i \in 1 .. Len(new) /\ new[i] = old[i]
    BY <2>2, <2>3, <2>4
  <2>6. i \in DOMAIN new /\ new[i].type = c[2]
    BY <2>3, <2>4, <2>5
  <2>. QED BY <1>1, <2>6 DEF Recorded, new
<1>5. ASSUME NEW rules, InForce(r, rules)
      PROVE  InForce(n, rules)
  BY <1>1, <1>5 DEF InForce
<1>. QED BY <1>4, <1>5 DEF GrowsFrom

(* The last event of an entry is in its history.                           *)
LEMMA LastRecorded ==
  ASSUME NEW r \in Registry, NEW p \in Policy, NEW type, Len(r.policies[p].events) > 0,
         LastEvent(r.policies[p]).type = type
  PROVE  Recorded(r, <<p, type>>)
<1>1. r # None /\ r.policies[p].events \in Seq(Event)
  BY RegistryAssumption DEF Registry, Entry
<1>2. Len(r.policies[p].events) \in DOMAIN r.policies[p].events
  BY <1>1
<1>. QED BY <1>1, <1>2 DEF Recorded, LastEvent

(* What a plan gives: its registry is sound and grows from the one it was  *)
(* planned on, and has what the command will report and put in force.      *)
LEMMA BuildGrows ==
  ASSUME NEW r, Sound(r), NEW p \in Policy, NEW t \in Time, CanBuild(r, p)
  PROVE  GrowsFrom(r, Build(r, p, t)) /\ Recorded(Build(r, p, t), <<p, "BUILT">>)
<1> DEFINE n == Build(r, p, t)
<1>1. Sound(n) /\ r \in Registry /\ n \in Registry
  BY BuildSound DEF Sound
<1>2. /\ n.policies[p] = Drafted(t)
      /\ \A q \in Policy : q # p => n.policies[q] = r.policies[q]
  BY <1>1 DEF Build, Registry
<1> HIDE DEF n
<1>3. r.policies[p].status = "ABSENT" /\ r.policies[p].events = <<>>
  BY DEF CanBuild, Present, Sound, AbsentAreEmpty
<1>4. Drafted(t).events = <<NewEvent("BUILT", t, None)>> /\ LastEvent(Drafted(t)).type = "BUILT"
  BY DEF Drafted, LastEvent, NewEvent
<1>5. \A q \in Policy :
        /\ Len(r.policies[q].events) <= Len(n.policies[q].events)
        /\ \A i \in 1 .. Len(r.policies[q].events) : n.policies[q].events[i] = r.policies[q].events[i]
        /\ HasBeenActive(r.policies[q]) => HasBeenActive(n.policies[q])
  <2> SUFFICES ASSUME NEW q \in Policy
               PROVE  /\ Len(r.policies[q].events) <= Len(n.policies[q].events)
                      /\ \A i \in 1 .. Len(r.policies[q].events) :
                           n.policies[q].events[i] = r.policies[q].events[i]
                      /\ HasBeenActive(r.policies[q]) => HasBeenActive(n.policies[q])
    OBVIOUS
  <2>1. CASE q = p
    BY <1>2, <1>3, <1>4, <2>1 DEF HasBeenActive
  <2>2. CASE q # p
    <3>1. Len(r.policies[q].events) \in Nat
      BY <1>1 DEF Registry, Entry
    <3>. QED BY <1>2, <2>2, <3>1
  <2>. QED BY <2>1, <2>2
<1>6. Recorded(n, <<p, "BUILT">>)
  BY <1>1, <1>2, <1>4, LastRecorded
<1>. QED BY <1>1, <1>5, <1>6, Grows DEF n

(* An entry that an operation extends: the history it had, and more.       *)
Extends(e, f) ==
  /\ Len(e.events) \in Nat /\ Len(f.events) \in Nat /\ Len(e.events) <= Len(f.events)
  /\ \A i \in 1 .. Len(e.events) : f.events[i] = e.events[i]

LEMMA Appended ==
  ASSUME NEW s \in Seq(Event), NEW ev \in Event
  PROVE  /\ Append(s, ev) \in Seq(Event) /\ Len(s) \in Nat /\ Len(Append(s, ev)) = Len(s) + 1
         /\ \A i \in 1 .. Len(s) : Append(s, ev)[i] = s[i]
         /\ Append(s, ev)[Len(s) + 1] = ev
  OBVIOUS

LEMMA TransitionsExtend ==
  ASSUME NEW e \in Entry, NEW t \in Time, NEW p \in Policy
  PROVE  /\ Extends(e, Activated(e, t)) /\ LastEvent(Activated(e, t)).type = "ACTIVATED"
         /\ Extends(e, Superseded(e, p, t)) /\ LastEvent(Superseded(e, p, t)).type = "SUPERSEDED"
         /\ Extends(e, Retired(e, t)) /\ LastEvent(Retired(e, t)).type = "RETIRED"
<1> DEFINE approved == NewEvent("APPROVED", t, None)
           activated == NewEvent("ACTIVATED", t, None)
           superseded == NewEvent("SUPERSEDED", t, p)
           retired == NewEvent("RETIRED", t, None)
<1>1. /\ approved \in Event /\ activated \in Event /\ superseded \in Event /\ retired \in Event
      /\ activated.type = "ACTIVATED" /\ superseded.type = "SUPERSEDED" /\ retired.type = "RETIRED"
  BY DEF NewEvent, Event, EventType
<1>2. e.events \in Seq(Event)
  BY DEF Entry
<1>3. /\ Activated(e, t).events = Append(Append(e.events, approved), activated)
      /\ Superseded(e, p, t).events = Append(e.events, superseded)
      /\ Retired(e, t).events = Append(e.events, retired)
  BY DEF Activated, Superseded, Retired
<1> HIDE DEF approved, activated, superseded, retired
<1>4. Extends(e, Superseded(e, p, t)) /\ Extends(e, Retired(e, t))
  BY <1>1, <1>2, <1>3, Appended DEF Extends
<1>5. /\ LastEvent(Superseded(e, p, t)).type = "SUPERSEDED"
      /\ LastEvent(Retired(e, t)).type = "RETIRED"
  BY <1>1, <1>2, <1>3, Appended DEF LastEvent
<1> DEFINE h == Append(e.events, approved)
<1>6. h \in Seq(Event) /\ Len(h) = Len(e.events) + 1 /\ \A i \in 1 .. Len(e.events) : h[i] = e.events[i]
  BY <1>1, <1>2, Appended
<1>7. Activated(e, t).events = Append(h, activated)
  BY <1>3
<1> HIDE DEF h
<1>8. Extends(e, Activated(e, t)) /\ LastEvent(Activated(e, t)).type = "ACTIVATED"
  <2>1. /\ Len(Append(h, activated)) = Len(h) + 1
        /\ \A i \in 1 .. Len(h) : Append(h, activated)[i] = h[i]
        /\ Append(h, activated)[Len(h) + 1] = activated
    BY <1>1, <1>6, Appended
  <2>2. Len(e.events) \in Nat
    BY <1>2
  <2>. QED BY <1>1, <1>6, <1>7, <2>1, <2>2 DEF Extends, LastEvent
<1>. QED BY <1>4, <1>5, <1>8

LEMMA ApproveGrows ==
  ASSUME NEW r, Sound(r), NEW p \in Policy, NEW t \in Time, CanApprove(r, p, t)
  PROVE  /\ GrowsFrom(r, Approve(r, p, t))
         /\ Recorded(Approve(r, p, t), <<p, "ACTIVATED">>)
         /\ r.active # None => Recorded(Approve(r, p, t), <<r.active, "SUPERSEDED">>)
         /\ InForce(Approve(r, p, t), RulesOf[p])
<1> DEFINE n == Approve(r, p, t)
<1>1. Sound(n) /\ r \in Registry /\ n \in Registry
  BY ApproveSound DEF Sound
<1>2. /\ n.policies[p] = Activated(r.policies[p], t)
      /\ r.active # None /\ r.active # p => n.policies[r.active] = Superseded(r.policies[r.active], p, t)
      /\ \A q \in Policy : q # p /\ q # r.active => n.policies[q] = r.policies[q]
  BY <1>1 DEF Approve, Registry
<1> HIDE DEF n
<1>3. r.policies[p].status = "DRAFT" /\ r.active # p /\ \A q \in Policy : r.policies[q] \in Entry
  BY SoundEntry DEF CanApprove
<1>4. n.policies[p].status = "ACTIVE" /\ (r.active # None => n.policies[r.active].status = "SUPERSEDED")
  BY <1>2, <1>3 DEF Activated, Superseded
<1>5. \A q \in Policy :
        /\ Extends(r.policies[q], n.policies[q])
        /\ HasBeenActive(r.policies[q]) => HasBeenActive(n.policies[q])
  <2> SUFFICES ASSUME NEW q \in Policy
               PROVE  /\ Extends(r.policies[q], n.policies[q])
                      /\ HasBeenActive(r.policies[q]) => HasBeenActive(n.policies[q])
    OBVIOUS
  <2>1. CASE q = p
    BY <1>2, <1>3, <1>4, <2>1, TransitionsExtend DEF HasBeenActive
  <2>2. CASE q # p /\ q = r.active
    BY <1>2, <1>3, <1>4, <2>2, TransitionsExtend, PolicyAssumption DEF HasBeenActive
  <2>3. CASE q # p /\ q # r.active
    <3>1. Len(r.policies[q].events) \in Nat
      BY <1>1 DEF Registry, Entry
    <3>. QED BY <1>2, <2>3, <3>1 DEF Extends
  <2>. QED BY <2>1, <2>2, <2>3
<1>6. GrowsFrom(r, n)
  BY <1>1, <1>5, Grows DEF Extends
<1>7. \A q \in Policy : HasBeenActive(n.policies[q]) => Len(n.policies[q].events) > 0
  BY <1>1, SoundEntry DEF HasBeenActive, EntryVerified, HistoryVerified
<1>8. Recorded(n, <<p, "ACTIVATED">>)
  BY <1>1, <1>2, <1>3, <1>4, <1>7, TransitionsExtend, LastRecorded DEF HasBeenActive
<1>9. r.active # None => Recorded(n, <<r.active, "SUPERSEDED">>)
  BY <1>1, <1>2, <1>3, <1>4, <1>7, TransitionsExtend, LastRecorded DEF HasBeenActive, Registry
<1>10. InForce(n, RulesOf[p])
  BY <1>1, <1>4, RegistryAssumption DEF InForce, HasBeenActive
<1>. QED BY <1>6, <1>8, <1>9, <1>10 DEF n

LEMMA RetireGrows ==
  ASSUME NEW r, Sound(r), NEW p \in Policy, NEW t \in Time, CanRetire(r, p, t)
  PROVE  GrowsFrom(r, Retire(r, p, t)) /\ Recorded(Retire(r, p, t), <<p, "RETIRED">>)
<1> DEFINE n == Retire(r, p, t)
<1>1. Sound(n) /\ r \in Registry /\ n \in Registry
  BY RetireSound DEF Sound
<1>2. /\ n.policies[p] = Retired(r.policies[p], t)
      /\ \A q \in Policy : q # p => n.policies[q] = r.policies[q]
  BY <1>1 DEF Retire, Registry
<1> HIDE DEF n
<1>3. n.policies[p].status = "RETIRED" /\ \A q \in Policy : r.policies[q] \in Entry
  BY <1>1, <1>2 DEF Retired, Registry
<1>4. \A q \in Policy :
        /\ Extends(r.policies[q], n.policies[q])
        /\ HasBeenActive(r.policies[q]) => HasBeenActive(n.policies[q])
  <2> SUFFICES ASSUME NEW q \in Policy
               PROVE  /\ Extends(r.policies[q], n.policies[q])
                      /\ HasBeenActive(r.policies[q]) => HasBeenActive(n.policies[q])
    OBVIOUS
  <2>1. CASE q = p
    BY <1>2, <1>3, <2>1, TransitionsExtend DEF HasBeenActive
  <2>2. CASE q # p
    <3>1. Len(r.policies[q].events) \in Nat
      BY <1>1 DEF Registry, Entry
    <3>. QED BY <1>2, <2>2, <3>1 DEF Extends
  <2>. QED BY <2>1, <2>2
<1>5. GrowsFrom(r, n)
  BY <1>1, <1>4, Grows DEF Extends
<1>6. Len(n.policies[p].events) > 0
  BY <1>1, <1>3, SoundEntry DEF EntryVerified, HistoryVerified
<1>7. Recorded(n, <<p, "RETIRED">>)
  BY <1>1, <1>2, <1>3, <1>6, TransitionsExtend, LastRecorded
<1>. QED BY <1>5, <1>7 DEF n

LEMMA PlanGrows ==
  ASSUME NEW r \in Registry \cup {None, Torn}, NEW j \in Job, Planned(r, j)
  PROVE  /\ r # Torn
         /\ j.registry # None =>
              /\ Sound(j.registry)
              /\ \A c \in Policy \X EventType : Recorded(r, c) => Recorded(j.registry, c)
              /\ \A c \in j.claim : Recorded(j.registry, c)
              /\ \A rules : InForce(r, rules) => InForce(j.registry, rules)
              /\ j.view \notin {None, EmptyRules} => InForce(j.registry, j.view)
         /\ j.registry = None => j.claim = {} /\ j.view # None /\ InForce(r, j.view)
<1>1. CASE PlansBuild(r, j)
  <2>1. PICK p \in Policy, t \in Time :
          /\ CanBuild(BaseOf(r), p)
          /\ j.registry = Build(BaseOf(r), p, t) /\ j.view = None /\ j.claim = {<<p, "BUILT">>}
    BY <1>1 DEF PlansBuild
  <2>2. r # Torn /\ Sound(BaseOf(r))
    BY <1>1 DEF PlansBuild
  <2>3. /\ Sound(j.registry) /\ GrowsFrom(BaseOf(r), j.registry)
        /\ Recorded(j.registry, <<p, "BUILT">>)
    BY <2>1, <2>2, BuildSound, BuildGrows
  <2>4. /\ \A c : Recorded(r, c) => Recorded(BaseOf(r), c)
        /\ \A rules : InForce(r, rules) => InForce(BaseOf(r), rules)
    BY DEF BaseOf, Recorded, InForce
  <2>5. j.registry # None
    BY <2>3, RegistryAssumption DEF Sound
  <2>. QED BY <2>1, <2>2, <2>3, <2>4, <2>5 DEF GrowsFrom
<1>2. CASE PlansApprove(r, j)
  <2>1. PICK p \in Policy, t \in Time :
          /\ CanApprove(r, p, t)
          /\ j.registry = Approve(r, p, t) /\ j.view = RulesOf[p]
          /\ j.claim = {<<p, "ACTIVATED">>}
                         \cup (IF r.active = None THEN {} ELSE {<<r.active, "SUPERSEDED">>})
    BY <1>2 DEF PlansApprove
  <2>2. Sound(r) /\ r # Torn
    BY <1>2, RegistryAssumption DEF PlansApprove, Sound
  <2>3. /\ Sound(j.registry) /\ GrowsFrom(r, j.registry)
        /\ Recorded(j.registry, <<p, "ACTIVATED">>)
        /\ r.active # None => Recorded(j.registry, <<r.active, "SUPERSEDED">>)
        /\ InForce(j.registry, RulesOf[p])
    BY <2>1, <2>2, ApproveSound, ApproveGrows
  <2>4. j.registry # None
    BY <2>3, RegistryAssumption DEF Sound
  <2>5. \A c \in j.claim : Recorded(j.registry, c)
    BY <2>1, <2>3
  <2>. QED BY <2>1, <2>2, <2>3, <2>4, <2>5 DEF GrowsFrom
<1>3. CASE PlansRetire(r, j)
  <2>1. PICK p \in Policy, t \in Time :
          /\ CanRetire(r, p, t)
          /\ j.registry = Retire(r, p, t) /\ j.claim = {<<p, "RETIRED">>}
          /\ j.view \in {EmptyRules, None}
    BY <1>3 DEF PlansRetire
  <2>2. Sound(r) /\ r # Torn
    BY <1>3, RegistryAssumption DEF PlansRetire, Sound
  <2>3. /\ Sound(j.registry) /\ GrowsFrom(r, j.registry)
        /\ Recorded(j.registry, <<p, "RETIRED">>)
    BY <2>1, <2>2, RetireSound, RetireGrows
  <2>4. j.registry # None
    BY <2>3, RegistryAssumption DEF Sound
  <2>. QED BY <2>1, <2>2, <2>3, <2>4 DEF GrowsFrom
<1>4. CASE PlansRules(r, j)
  <2>1. /\ Sound(r) /\ r.active \in Policy /\ r.active # None
        /\ j.registry = None /\ j.view = RulesOf[r.active] /\ j.claim = {}
    BY <1>4 DEF PlansRules, Sound, Registry
  <2>2. r # Torn /\ r # None /\ RulesOf[r.active] # None
    BY <2>1, RegistryAssumption DEF Sound
  <2>3. r.policies[r.active].status = "ACTIVE"
    BY <2>1, SoundEntry
  <2>. QED BY <2>1, <2>2, <2>3 DEF InForce, HasBeenActive
<1>. QED BY <1>1, <1>2, <1>3, <1>4 DEF Planned

-----------------------------------------------------------------------------
(* The steps of the lifecycle.                                             *)

(* The definitions that PolicyLifecycle has of the document are those of   *)
(* the registry.                                                           *)
LEMMA SameDocument ==
  /\ \A r, p : Lifecycle!CanBuild(r, p) = CanBuild(r, p)
  /\ \A r, p, t : Lifecycle!CanApprove(r, p, t) = CanApprove(r, p, t)
  /\ \A r, p, t : Lifecycle!CanRetire(r, p, t) = CanRetire(r, p, t)
  /\ \A r, p, t : Lifecycle!Build(r, p, t) = Build(r, p, t)
  /\ \A r, p, t : Lifecycle!Approve(r, p, t) = Approve(r, p, t)
  /\ \A r, p, t : Lifecycle!Retire(r, p, t) = Retire(r, p, t)
  /\ Lifecycle!Base = BaseOf(Book)
<1>1. \A r, p : Lifecycle!CanBuild(r, p) = CanBuild(r, p)
  BY DEF Lifecycle!CanBuild, CanBuild, Lifecycle!Present, Present
<1>2. \A r, p, t : Lifecycle!CanApprove(r, p, t) = CanApprove(r, p, t)
  BY DEF Lifecycle!CanApprove, CanApprove, Lifecycle!LastEvent, LastEvent
<1>3. \A r, p, t : Lifecycle!CanRetire(r, p, t) = CanRetire(r, p, t)
  BY DEF Lifecycle!CanRetire, CanRetire, Lifecycle!LastEvent, LastEvent
<1>4. ASSUME NEW r, NEW p, NEW t PROVE Lifecycle!Build(r, p, t) = Build(r, p, t)
  BY DEF Lifecycle!Build, Build, Lifecycle!Drafted, Drafted, Lifecycle!NewEvent, NewEvent
<1>5. ASSUME NEW r, NEW p, NEW t PROVE Lifecycle!Approve(r, p, t) = Approve(r, p, t)
  BY DEF Lifecycle!Approve, Approve, Lifecycle!Activated, Activated, Lifecycle!Superseded, Superseded,
     Lifecycle!NewEvent, NewEvent
<1>6. ASSUME NEW r, NEW p, NEW t PROVE Lifecycle!Retire(r, p, t) = Retire(r, p, t)
  BY DEF Lifecycle!Retire, Retire, Lifecycle!Retired, Retired, Lifecycle!NewEvent, NewEvent
<1>7. Lifecycle!Base = BaseOf(Book)
  BY DEF Lifecycle!Base, Lifecycle!EmptyRegistry, EmptyRegistry, Lifecycle!AbsentEntry, AbsentEntry, BaseOf
<1>. QED BY <1>1, <1>2, <1>3, <1>4, <1>5, <1>6, <1>7

(* A planned change takes effect with its rule file, or without it when    *)
(* the process dies.                                                       *)
LEMMA CommitMaps ==
  ASSUME NEW j \in Job, Planned(Book, j), Book \in Registry \cup {None, Torn},
         j.registry # None, Book' = j.registry,
         \/ view' = (IF j.view = None THEN view ELSE j.view) /\ crashed' = crashed
         \/ j.view # None /\ view' = view /\ crashed' = TRUE
  PROVE  Lifecycle!Next
<1>1. CASE PlansBuild(Book, j)
  <2>1. PICK p \in Policy, t \in Time :
          CanBuild(BaseOf(Book), p) /\ j.registry = Build(BaseOf(Book), p, t) /\ j.view = None
    BY <1>1 DEF PlansBuild
  <2>2. Book # Torn
    BY <1>1 DEF PlansBuild
  <2>3. Lifecycle!BuildStep(p, t)
    BY <2>1, <2>2, SameDocument DEF Lifecycle!BuildStep
  <2>. QED BY <2>3 DEF Lifecycle!Next
<1>2. CASE PlansApprove(Book, j)
  <2>1. PICK p \in Policy, t \in Time :
          CanApprove(Book, p, t) /\ j.registry = Approve(Book, p, t) /\ j.view = RulesOf[p]
    BY <1>2 DEF PlansApprove
  <2>2. Book \notin {None, Torn} /\ j.view # None
    BY <1>2, <2>1, RegistryAssumption DEF PlansApprove, Sound
  <2>3. Lifecycle!ApproveStep(p, t)
    BY <2>1, <2>2, SameDocument DEF Lifecycle!ApproveStep, Lifecycle!ViewFollows
  <2>. QED BY <2>3 DEF Lifecycle!Next
<1>3. CASE PlansRetire(Book, j)
  <2>1. PICK p \in Policy, t \in Time :
          /\ CanRetire(Book, p, t) /\ j.registry = Retire(Book, p, t)
          /\ j.view = IF Book.active = p THEN EmptyRules ELSE None
    BY <1>3 DEF PlansRetire
  <2>2. Book \notin {None, Torn} /\ EmptyRules # None
    BY <1>3, RegistryAssumption DEF PlansRetire, Sound
  <2>3. Lifecycle!RetireStep(p, t)
    BY <2>1, <2>2, SameDocument DEF Lifecycle!RetireStep, Lifecycle!ViewFollows
  <2>. QED BY <2>3 DEF Lifecycle!Next
<1>4. ~PlansRules(Book, j)
  BY DEF PlansRules
<1>. QED BY <1>1, <1>2, <1>3, <1>4 DEF Planned

LEMMA RulesMap ==
  ASSUME NEW j \in Job, Planned(Book, j), j.registry = None,
         Book' = Book, view' = j.view, crashed' = crashed
  PROVE  Lifecycle!Next
<1>1. ~PlansBuild(Book, j) /\ ~PlansApprove(Book, j) /\ ~PlansRetire(Book, j)
  <2>1. \A r : Sound(r) => r # None
    BY RegistryAssumption DEF Sound
  <2>2. ~PlansBuild(Book, j)
    BY <2>1, BuildSound DEF PlansBuild
  <2>3. ~PlansApprove(Book, j)
    BY <2>1, ApproveSound DEF PlansApprove
  <2>4. ~PlansRetire(Book, j)
    BY <2>1, RetireSound DEF PlansRetire
  <2>. QED BY <2>2, <2>3, <2>4
<1>2. Sound(Book) /\ Book.active # None /\ j.view = RulesOf[Book.active]
  BY <1>1 DEF Planned, PlansRules
<1>3. Book \notin {None, Torn}
  BY <1>2, RegistryAssumption DEF Sound
<1>4. Lifecycle!MaterializeStep
  BY <1>2, <1>3 DEF Lifecycle!MaterializeStep
<1>. QED BY <1>4 DEF Lifecycle!Next

LEMMA DeathMaps ==
  ASSUME Book' \in {Book, Torn}, view' = view, crashed' = TRUE
  PROVE  Lifecycle!Next
  BY DEF Lifecycle!Next, Lifecycle!Die

Mapped == Lifecycle!Next \/ UNCHANGED Lifecycle!vars

LEMMA NothingMaps ==
  ASSUME UNCHANGED <<Book, view, crashed>>
  PROVE  Mapped
  BY DEF Mapped, Lifecycle!vars

-----------------------------------------------------------------------------
(* Each step of an operator that is alone.                                 *)

(* Of such a step the others have no part.                                 *)
Promised(o) == Running(o)' /\ BookOK' /\ Mapped

LEMMA SameBookOK ==
  ASSUME BookOK, UNCHANGED <<Book, acked, view>>
  PROVE  BookOK'
  BY DEF BookOK, Recorded, InForce

LEMMA BookTyped ==
  ASSUME IInv, NEW o \in Operator, Alone(o)
  PROVE  Book \in Registry \cup {None, Torn}
  BY BookAt DEF IInv, TypeOK, Job

LEMMA StartPromised ==
  ASSUME IInv, AloneInv, NEW o \in Operator, Alone(o), Alone(o)', pc[o] = "idle",
         NEW newRegistry, NEW newView, NEW claim,
         Start(o, newRegistry, newView, claim),
         Planned(registry, [registry |-> newRegistry, view |-> newView, old |-> None, claim |-> claim])
  PROVE  Promised(o)
<1> DEFINE j == [registry |-> newRegistry, view |-> newView, old |-> None, claim |-> claim]
<1>1. /\ pc'[o] = "staging" /\ job'[o] = j
      /\ UNCHANGED <<registry, view, acked, crashed>>
  BY DEF Start, IInv, TypeOK
<1>2. Planned(registry, j)
  OBVIOUS
<1> HIDE DEF j
<1>3. Book' = Book
  BY <1>1, BookAt, BookAtNext
<1>4. Running(o)'
  BY <1>1, <1>2 DEF Running
<1>. QED BY <1>1, <1>3, <1>4, SameBookOK, NothingMaps DEF AloneInv, Promised

LEMMA CommandPromised ==
  ASSUME IInv, AloneInv, NEW o \in Operator, Alone(o), Alone(o)', Command(o)
  PROVE  Promised(o)
<1>1. ASSUME NEW p \in Policy, NEW t \in Time, BuildPolicy(o, p, t)
      PROVE  Promised(o)
  <2> DEFINE j == [registry |-> Build(BaseOf(registry), p, t), view |-> None, old |-> None,
                   claim |-> {<<p, "BUILT">>}]
  <2>1. /\ pc[o] = "idle" /\ (registry = None \/ Loadable)
        /\ CanBuild(BaseOf(registry), p)
        /\ Start(o, Build(BaseOf(registry), p, t), None, {<<p, "BUILT">>})
    BY <1>1 DEF BuildPolicy, BaseOf
  <2>2. registry # Torn /\ Sound(BaseOf(registry))
    BY <2>1, EmptyRegistrySound, RegistryAssumption DEF Loadable, IInv, ContentSound, BaseOf
  <2>3. j.registry = Build(BaseOf(registry), p, t) /\ j.view = None /\ j.claim = {<<p, "BUILT">>}
    OBVIOUS
  <2> HIDE DEF j
  <2>4. Planned(registry, j)
    BY <2>1, <2>2, <2>3 DEF Planned, PlansBuild
  <2>. QED BY <2>1, <2>4, StartPromised DEF j
<1>2. ASSUME NEW p \in Policy, NEW t \in Time, ApprovePolicy(o, p, t)
      PROVE  Promised(o)
  <2> DEFINE claim == {<<p, "ACTIVATED">>}
                \cup (IF registry.active = None THEN {} ELSE {<<registry.active, "SUPERSEDED">>})
             j == [registry |-> Approve(registry, p, t), view |-> RulesOf[p], old |-> None,
                   claim |-> claim]
  <2>1. /\ pc[o] = "idle" /\ Loadable /\ CanApprove(registry, p, t)
        /\ Start(o, Approve(registry, p, t), RulesOf[p], claim)
    BY <1>2 DEF ApprovePolicy
  <2>2. Sound(registry)
    BY <2>1 DEF Loadable, IInv, ContentSound
  <2>3. j.registry = Approve(registry, p, t) /\ j.view = RulesOf[p] /\ j.claim = claim
    OBVIOUS
  <2> HIDE DEF j
  <2>4. Planned(registry, j)
    BY <2>1, <2>2, <2>3 DEF Planned, PlansApprove
  <2> HIDE DEF claim
  <2>. QED BY <2>1, <2>4, StartPromised DEF j
<1>3. ASSUME NEW p \in Policy, NEW t \in Time, RetirePolicy(o, p, t)
      PROVE  Promised(o)
  <2> DEFINE rules == IF registry.active = p THEN EmptyRules ELSE None
             j == [registry |-> Retire(registry, p, t), view |-> rules, old |-> None,
                   claim |-> {<<p, "RETIRED">>}]
  <2>1. /\ pc[o] = "idle" /\ Loadable /\ CanRetire(registry, p, t)
        /\ Start(o, Retire(registry, p, t), rules, {<<p, "RETIRED">>})
    BY <1>3 DEF RetirePolicy
  <2>2. Sound(registry)
    BY <2>1 DEF Loadable, IInv, ContentSound
  <2>3. j.registry = Retire(registry, p, t) /\ j.view = rules /\ j.claim = {<<p, "RETIRED">>}
    OBVIOUS
  <2> HIDE DEF j
  <2>4. Planned(registry, j)
    BY <2>1, <2>2, <2>3 DEF Planned, PlansRetire
  <2> HIDE DEF rules
  <2>. QED BY <2>1, <2>4, StartPromised DEF j
<1>4. ASSUME Materialize(o)
      PROVE  Promised(o)
  <2> DEFINE rules == RulesOf[registry.active]
             none == None
             claim == {}
             j == [registry |-> none, view |-> rules, old |-> None, claim |-> claim]
  <2>1. /\ pc[o] = "idle" /\ Loadable /\ registry.active # None
        /\ Start(o, none, rules, claim)
    BY <1>4 DEF Materialize
  <2>2. Sound(registry)
    BY <2>1 DEF Loadable, IInv, ContentSound
  <2>3. j.registry = None /\ j.view = rules /\ j.claim = {}
    OBVIOUS
  <2> HIDE DEF j
  <2>4. Planned(registry, j)
    BY <2>1, <2>2, <2>3 DEF Planned, PlansRules
  <2> HIDE DEF rules, none, claim
  <2>. QED BY <2>1, <2>4, StartPromised DEF j
<1>. QED BY <1>1, <1>2, <1>3, <1>4 DEF Command

LEMMA QuitRuns ==
  ASSUME IInv, NEW o \in Operator, Quit(o)
  PROVE  pc'[o] = "idle" /\ job'[o] = NoJob /\ Running(o)'
<1>1. pc'[o] = "idle" /\ job'[o] = NoJob
  BY DEF Quit, IInv, TypeOK
<1>. QED BY <1>1 DEF Running

(* A command that ends with the book as it was and nothing reported.       *)
LEMMA QuitPromised ==
  ASSUME IInv, AloneInv, NEW o \in Operator, Alone(o), Alone(o)', Quit(o),
         registry' = Book, UNCHANGED <<view, acked, crashed>>
  PROVE  Promised(o)
<1>1. Book' = Book
  BY QuitRuns, BookAtNext
<1>. QED BY <1>1, QuitRuns, SameBookOK, NothingMaps DEF AloneInv, Promised

LEMMA StagePromised ==
  ASSUME IInv, AloneInv, NEW o \in Operator, Alone(o), Alone(o)', Stage(o)
  PROVE  Promised(o)
<1>1. /\ pc[o] = "staging" /\ UNCHANGED <<registry, view, acked, crashed>>
      /\ pc'[o] = IF job[o].registry = None THEN "replacing_view" ELSE "replacing_registry"
      /\ job'[o].registry = job[o].registry /\ job'[o].view = job[o].view
      /\ job'[o].claim = job[o].claim /\ job'[o].old = registry
  BY DEF Stage, IInv, TypeOK, Job
<1>2. Planned(registry, job[o])
  BY <1>1 DEF AloneInv, Running
<1>3. Planned(registry, job'[o])
  BY <1>1, <1>2 DEF Planned, PlansBuild, PlansApprove, PlansRetire, PlansRules
<1>4. job[o].registry = None => job[o].view # None
  BY <1>2, PlanGrows DEF IInv, TypeOK
<1>5. Running(o)'
  BY <1>1, <1>3, <1>4 DEF Running
<1>6. Book' = Book
  BY <1>1, BookAt, BookAtNext
<1>. QED BY <1>1, <1>5, <1>6, SameBookOK, NothingMaps DEF AloneInv, Promised

(* The book takes the planned registry, reported or not.                   *)
LEMMA CommitBookOK ==
  ASSUME IInv, BookOK, NEW j \in Job, Planned(Book, j), Book \in Registry \cup {None, Torn},
         j.registry # None, Book' = j.registry, acked' \subseteq acked \cup j.claim,
         view' \in {view, j.view}
  PROVE  BookOK'
<1>1. /\ Book # Torn
      /\ \A c \in Policy \X EventType : Recorded(Book, c) => Recorded(j.registry, c)
      /\ \A c \in j.claim : Recorded(j.registry, c)
      /\ \A rules : InForce(Book, rules) => InForce(j.registry, rules)
      /\ j.view \notin {None, EmptyRules} => InForce(j.registry, j.view)
  BY PlanGrows
<1>2. acked \subseteq Policy \X EventType
  BY DEF IInv, TypeOK
<1>3. \A c \in acked' : Recorded(j.registry, c)
  BY <1>1, <1>2 DEF BookOK
<1>4. view' \notin {None, EmptyRules} => InForce(j.registry, view')
  BY <1>1 DEF BookOK
<1>5. /\ \A c : Recorded(j.registry, c) => Recorded(Book, c)'
      /\ InForce(j.registry, view') => InForce(Book, view)'
  BY DEF Recorded, InForce
<1>6. \A c \in acked' : Recorded(Book, c)'
  BY <1>3, <1>5
<1>. QED BY <1>4, <1>5, <1>6 DEF BookOK

LEMMA ReplaceRegistryPromised ==
  ASSUME IInv, AloneInv, NEW o \in Operator, Alone(o), Alone(o)', ReplaceRegistry(o)
  PROVE  Promised(o)
<1>1. /\ pc[o] = "replacing_registry" /\ registry' = job[o].registry /\ UNCHANGED <<view, crashed>>
      /\ job[o] \in Job
  BY DEF ReplaceRegistry, IInv, TypeOK
<1>2. Planned(registry, job[o]) /\ job[o].old = registry /\ job[o].registry # None
  BY <1>1 DEF AloneInv, Running
<1>3. Book = registry /\ Book \in Registry \cup {None, Torn}
  BY <1>1, BookAt, BookTyped
<1>4. CASE job[o].view = None
  <2>1. Quit(o) /\ acked' = acked \cup job[o].claim
    BY <1>1, <1>4 DEF ReplaceRegistry, Report
  <2>2. Book' = job[o].registry
    BY <1>1, <2>1, QuitRuns, BookAtNext
  <2>3. BookOK'
    BY <1>1, <1>2, <1>3, <2>1, <2>2, CommitBookOK DEF AloneInv
  <2>4. Mapped
    BY <1>1, <1>2, <1>3, <1>4, <2>2, CommitMaps DEF Mapped
  <2>. QED BY <2>1, <2>3, <2>4, QuitRuns DEF Promised
<1>5. CASE job[o].view # None
  <2>1. pc' = [pc EXCEPT ![o] = "replacing_view"] /\ UNCHANGED <<job, acked>>
    BY <1>1, <1>5 DEF ReplaceRegistry
  <2>2. pc'[o] = "replacing_view"
    BY <2>1 DEF IInv, TypeOK
  <2>3. Book' = Book
    BY <1>2, <1>3, <2>1, <2>2, BookAtNext
  <2>4. Running(o)'
    BY <1>1, <1>2, <1>5, <2>1, <2>2 DEF Running
  <2>. QED BY <1>1, <2>1, <2>3, <2>4, SameBookOK, NothingMaps DEF AloneInv, Promised
<1>. QED BY <1>4, <1>5

LEMMA ReplaceViewPromised ==
  ASSUME IInv, AloneInv, NEW o \in Operator, Alone(o), Alone(o)', ReplaceView(o)
  PROVE  Promised(o)
<1>1. /\ pc[o] = "replacing_view" /\ view' = job[o].view /\ UNCHANGED <<registry, crashed>>
      /\ Quit(o) /\ acked' = acked \cup job[o].claim /\ job[o] \in Job
  BY DEF ReplaceView, Report, IInv, TypeOK
<1>2. /\ Planned(job[o].old, job[o]) /\ job[o].view # None
      /\ registry = IF job[o].registry = None THEN job[o].old ELSE job[o].registry
  BY <1>1 DEF AloneInv, Running
<1>3. Book = job[o].old /\ Book \in Registry \cup {None, Torn}
  BY <1>1, <1>2, BookAt, BookTyped
<1>4. Book' = registry
  BY <1>1, QuitRuns, BookAtNext
<1>5. CASE job[o].registry # None
  <2>1. BookOK'
    BY <1>1, <1>2, <1>3, <1>4, <1>5, CommitBookOK DEF AloneInv
  <2>2. Mapped
    BY <1>1, <1>2, <1>3, <1>4, <1>5, CommitMaps DEF Mapped
  <2>. QED BY <1>1, <2>1, <2>2, QuitRuns DEF Promised
<1>6. CASE job[o].registry = None
  <2>1. Book' = Book
    BY <1>2, <1>3, <1>4, <1>6
  <2>2. job[o].claim = {} /\ InForce(Book, job[o].view)
    BY <1>1, <1>2, <1>3, <1>6, PlanGrows
  <2>3. acked' = acked
    BY <1>1, <2>2
  <2>4. BookOK'
    BY <1>1, <2>1, <2>2, <2>3 DEF AloneInv, BookOK, Recorded, InForce
  <2>5. Mapped
    BY <1>1, <1>2, <1>3, <1>6, <2>1, RulesMap DEF Mapped
  <2>. QED BY <1>1, <2>4, <2>5, QuitRuns DEF Promised
<1>. QED BY <1>5, <1>6

LEMMA FailCleanPromised ==
  ASSUME IInv, AloneInv, NEW o \in Operator, Alone(o), Alone(o)', FailClean(o)
  PROVE  Promised(o)
<1>1. /\ \/ pc[o] \in {"staging", "replacing_registry"}
         \/ pc[o] = "replacing_view" /\ job[o].registry = None
      /\ Quit(o) /\ UNCHANGED <<registry, view, acked, crashed>>
  BY DEF FailClean
<1>2. Book = registry
  BY <1>1, BookAt
<1>. QED BY <1>1, <1>2, QuitPromised

LEMMA RollbackPromised ==
  ASSUME IInv, AloneInv, NEW o \in Operator, Alone(o), Alone(o)', Rollback(o)
  PROVE  Promised(o)
<1>1. /\ pc[o] = "replacing_view" /\ job[o].registry # None /\ UNCHANGED <<view, acked, crashed>>
  BY DEF Rollback
<1>2. Planned(job[o].old, job[o]) /\ job[o].view # None
  BY <1>1 DEF AloneInv, Running
<1>3. Book = job[o].old
  BY <1>1, BookAt
<1>4. CASE job[o].old = None
  BY <1>1, <1>3, <1>4, QuitPromised DEF Rollback
<1>5. CASE job[o].old # None
  <2>1. registry' = Torn /\ pc'[o] = "restoring" /\ job' = job
    BY <1>5 DEF Rollback, IInv, TypeOK
  <2>2. Book' = Book
    BY <1>1, <1>3, <2>1, BookAtNext
  <2>3. Running(o)'
    BY <1>1, <1>2, <2>1 DEF Running
  <2>. QED BY <1>1, <2>2, <2>3, SameBookOK, NothingMaps DEF AloneInv, Promised
<1>. QED BY <1>4, <1>5

LEMMA RestorePromised ==
  ASSUME IInv, AloneInv, NEW o \in Operator, Alone(o), Alone(o)', Restore(o)
  PROVE  Promised(o)
<1>1. /\ pc[o] = "restoring" /\ registry' = job[o].old /\ Quit(o)
      /\ UNCHANGED <<view, acked, crashed>>
  BY DEF Restore
<1>2. job[o].registry # None
  BY <1>1 DEF AloneInv, Running
<1>3. Book = job[o].old
  BY <1>1, <1>2, BookAt
<1>. QED BY <1>1, <1>3, QuitPromised

(* A process that dies after the first file has made its change; one that  *)
(* dies while it restores has destroyed the registry.                      *)
LEMMA CrashPromised ==
  ASSUME IInv, AloneInv, NEW o \in Operator, Alone(o), Alone(o)', Crash(o)
  PROVE  Promised(o)
<1>1. /\ pc[o] # "idle" /\ Quit(o) /\ crashed' = TRUE /\ UNCHANGED <<registry, view, acked>>
      /\ job[o] \in Job /\ pc[o] \in Phase
  BY DEF Crash, IInv, TypeOK
<1>2. Book' = registry
  BY <1>1, QuitRuns, BookAtNext
<1>3. CASE pc[o] = "replacing_view" /\ job[o].registry # None
  <2>1. Planned(job[o].old, job[o]) /\ job[o].view # None /\ registry = job[o].registry
    BY <1>3 DEF AloneInv, Running
  <2>2. Book = job[o].old /\ Book \in Registry \cup {None, Torn}
    BY <1>3, BookAt, BookTyped
  <2>3. BookOK'
    BY <1>1, <1>2, <1>3, <2>1, <2>2, CommitBookOK DEF AloneInv
  <2>4. Mapped
    BY <1>1, <1>2, <1>3, <2>1, <2>2, CommitMaps DEF Mapped
  <2>. QED BY <1>1, <2>3, <2>4, QuitRuns DEF Promised
<1>4. CASE pc[o] = "restoring"
  <2>1. registry = Torn
    BY <1>4 DEF AloneInv, Running
  <2>2. BookOK'
    BY <1>2, <2>1 DEF BookOK
  <2>3. Mapped
    BY <1>1, <1>2, <2>1, DeathMaps DEF Mapped
  <2>. QED BY <1>1, <2>2, <2>3, QuitRuns DEF Promised
<1>5. CASE \/ pc[o] \in {"staging", "replacing_registry"}
           \/ pc[o] = "replacing_view" /\ job[o].registry = None
  <2>1. Book = registry
    BY <1>5, BookAt
  <2>2. BookOK'
    BY <1>1, <1>2, <2>1, SameBookOK DEF AloneInv
  <2>3. Mapped
    BY <1>1, <1>2, <2>1, DeathMaps DEF Mapped
  <2>. QED BY <1>1, <2>2, <2>3, QuitRuns DEF Promised
<1>. QED BY <1>1, <1>3, <1>4, <1>5 DEF Phase

-----------------------------------------------------------------------------
(* While no two commands have been under way together, every step is one   *)
(* of an operator that is alone.                                           *)
LEMMA OthersKept ==
  ASSUME IInv, NEW o \in Operator, Command(o) \/ AtomicWrite(o) \/ Crash(o)
  PROVE  /\ \A p \in Operator \ {o} : pc'[p] = pc[p]
         /\ pc[o] # "idle" \/ pc'[o] # "idle"
<1>1. pc \in [Operator -> Phase]
  BY DEF IInv, TypeOK
<1>2. CASE Command(o)
  <2>1. pc' = [pc EXCEPT ![o] = "staging"]
    BY <1>2 DEF Command, BuildPolicy, ApprovePolicy, RetirePolicy, Materialize, Start
  <2>. QED BY <1>1, <2>1
<1>3. CASE AtomicWrite(o) \/ Crash(o)
  <2>1. pc[o] # "idle" /\ \E phase : pc' = [pc EXCEPT ![o] = phase]
    BY <1>3 DEF AtomicWrite, Stage, ReplaceRegistry, ReplaceView, FailClean, Rollback, Restore, Crash, Quit
  <2>. QED BY <1>1, <2>1
<1>. QED BY <1>2, <1>3

LEMMA AloneStep ==
  ASSUME IInv, AloneInv, ~Overlapping', [Next]_vars
  PROVE  AloneInv' /\ Mapped
<1>1. CASE UNCHANGED vars
  <2>1. UNCHANGED <<registry, view, pc, job, acked, crashed>>
    BY <1>1 DEF vars
  <2>2. Book' = Book
    BY <2>1 DEF Book, Committing
  <2>3. \A o \in Operator : Running(o)'
    BY <2>1 DEF AloneInv, Running
  <2>. QED BY <2>1, <2>2, <2>3, SameBookOK, NothingMaps DEF AloneInv
<1>2. ASSUME NEW o \in Operator, Command(o) \/ AtomicWrite(o) \/ Crash(o)
      PROVE  AloneInv' /\ Mapped
  <2>1. Alone(o) /\ Alone(o)'
    BY <1>2, OthersKept DEF AloneInv, Overlapping, Alone
  <2>2. Promised(o)
    BY <1>2, <2>1, CommandPromised, StagePromised, ReplaceRegistryPromised, ReplaceViewPromised,
       FailCleanPromised, RollbackPromised, RestorePromised, CrashPromised DEF AtomicWrite
  <2>3. \A p \in Operator : Running(p)'
    <3>1. \A p \in Operator \ {o} : Running(p)'
      BY <2>1 DEF Alone, Running
    <3>. QED BY <2>2, <3>1 DEF Promised
  <2>. QED BY <2>2, <2>3 DEF Promised, AloneInv
<1>. QED BY <1>1, <1>2 DEF Next

LEMMA OverlapInitInv == OverlapInit => OverlapIInv /\ Lifecycle!Init
<1> SUFFICES ASSUME OverlapInit PROVE OverlapIInv /\ Lifecycle!Init
  OBVIOUS
<1>1. Init /\ IInv /\ overlapped = FALSE
  BY InitIInv DEF OverlapInit
<1>2. \A o \in Operator : pc[o] = "idle"
  BY <1>1 DEF Init
<1>3. Committing = {} /\ Book = None
  BY <1>1, <1>2 DEF Committing, Book, Init
<1>4. ~Overlapping /\ \A o \in Operator : Running(o)
  BY <1>2 DEF Overlapping, Running
<1>5. BookOK
  BY <1>1, <1>3 DEF BookOK, Init
<1>6. Lifecycle!Init
  BY <1>1, <1>3 DEF Lifecycle!Init, Init
<1>. QED BY <1>1, <1>4, <1>5, <1>6 DEF OverlapIInv, AloneInv

LEMMA OverlapStep ==
  ASSUME OverlapIInv, [OverlapNext]_<<vars, overlapped>>
  PROVE  OverlapIInv' /\ (~overlapped' => Mapped)
<1>1. [Next]_vars /\ (overlapped' = overlapped \/ overlapped' = (overlapped \/ Overlapping'))
  BY DEF OverlapNext
<1>2. IInv'
  BY <1>1, NextIInv DEF OverlapIInv
<1>3. overlapped' \in BOOLEAN
  BY <1>1 DEF OverlapIInv
<1>4. ASSUME ~overlapped'
      PROVE  AloneInv' /\ Mapped
  <2>1. ~overlapped /\ AloneInv
    BY <1>1, <1>4 DEF OverlapIInv
  <2>2. ~Overlapping'
    <3>1. CASE OverlapNext
      BY <1>4, <3>1 DEF OverlapNext
    <3>2. CASE UNCHANGED vars
      BY <2>1, <3>2 DEF AloneInv, Overlapping, vars
    <3>. QED BY <3>1, <3>2
  <2>. QED BY <1>1, <2>1, <2>2, AloneStep DEF OverlapIInv
<1>. QED BY <1>2, <1>3, <1>4 DEF OverlapIInv

(* While no two commands overlap, the running command works on the content *)
(* it read, and every event reported and rule in force is in the book.     *)
THEOREM OverlapInvariance == OverlapSpec => []OverlapIInv
BY OverlapInitInv, OverlapStep, PTL DEF OverlapSpec

(* What the content of the book says of the registry file.                 *)
LEMMA ReadableBook ==
  ASSUME OverlapIInv, ~overlapped, Readable
  PROVE  /\ \A c \in acked : Recorded(registry, c)
         /\ view \notin {None, EmptyRules} => InForce(registry, view)
<1>1. IInv /\ AloneInv /\ registry \notin {None, Torn}
  BY DEF OverlapIInv, Readable
<1>2. CASE \E o \in Operator : pc[o] \in {"replacing_view", "restoring"} /\ job[o].registry # None
  <2>1. PICK o \in Operator : pc[o] \in {"replacing_view", "restoring"} /\ job[o].registry # None
    BY <1>2
  <2>2. Alone(o) /\ job[o] \in Job
    BY <1>1, <2>1 DEF AloneInv, Overlapping, Alone, IInv, TypeOK
  <2>3. Book = job[o].old /\ Book \in Registry \cup {None, Torn}
    BY <1>1, <2>1, <2>2, BookAt, BookTyped
  <2>4. Planned(Book, job[o]) /\ registry = job[o].registry
    BY <1>1, <2>1, <2>3 DEF AloneInv, Running
  <2>5. /\ Book # Torn
        /\ \A c \in Policy \X EventType : Recorded(Book, c) => Recorded(registry, c)
        /\ \A rules : InForce(Book, rules) => InForce(registry, rules)
    BY <2>1, <2>2, <2>3, <2>4, PlanGrows
  <2>. QED BY <1>1, <2>5 DEF AloneInv, BookOK, IInv, TypeOK
<1>3. CASE ~\E o \in Operator : pc[o] \in {"replacing_view", "restoring"} /\ job[o].registry # None
  <2>1. Book = registry
    BY <1>3 DEF Book, Committing
  <2>. QED BY <1>1, <2>1 DEF AloneInv, BookOK
<1>. QED BY <1>2, <1>3

(* One operator at a time, no error, rollback or crash takes back an event *)
(* that was reported.                                                      *)
THEOREM ReportedEventsKept == OverlapSpec => []AloneReportedEventsStay
<1>1. OverlapIInv => AloneReportedEventsStay
  BY ReadableBook DEF AloneReportedEventsStay, ReportedEventsStay, Recorded
<1>. QED BY <1>1, OverlapInvariance, PTL

(* One operator at a time, the rules in force are those of a policy that   *)
(* the registry records as activated, at every point of every command.     *)
THEOREM RulesInForceActivated == OverlapSpec => []AloneOnlyActivatedRulesInForce
<1>1. OverlapIInv => AloneOnlyActivatedRulesInForce
  BY ReadableBook DEF AloneOnlyActivatedRulesInForce, OnlyActivatedRulesInForce, InForce
<1>. QED BY <1>1, OverlapInvariance, PTL

(* One operator at a time, the registry and the rule file implement the    *)
(* lifecycle of PolicyLifecycle: each step is one of its steps or none.    *)
THEOREM LifecycleImplemented == OverlapSpec => AloneLifecycleSpec
<1>1. OverlapInit => Lifecycle!Init
  BY OverlapInitInv
<1>2. OverlapIInv /\ [OverlapNext]_<<vars, overlapped>>
        => [~overlapped' => (Lifecycle!Next \/ UNCHANGED Lifecycle!vars)]_<<vars, overlapped>>
  BY OverlapStep DEF Mapped
<1>. QED BY <1>1, <1>2, OverlapInvariance, PTL DEF OverlapSpec, AloneLifecycleSpec
=============================================================================
