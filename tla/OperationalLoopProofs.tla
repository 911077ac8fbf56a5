------------------------- MODULE OperationalLoopProofs -------------------------
(***************************************************************************)
(* Proofs about OperationalLoop, for any revisions and any number of       *)
(* artifacts, moves and deaths.                                            *)
(*                                                                         *)
(* Two facts carry them. An answer has the head of what it answers and is  *)
(* younger, so whoever lists a packet lists the decisions on it, and       *)
(* whoever lists a context the outcomes it backs. And runs of one workflow *)
(* are serial: between a run's discovery and its upload nothing of its own *)
(* kind is uploaded, and what it found can only expire.                    *)
(*                                                                         *)
(* The last part is about GovernedExecution, the adapter that acts on the  *)
(* same pull request.                                                      *)
(***************************************************************************)
EXTENDS OperationalLoop, GovernedExecution, TLAPS

(* The kind of artifact a workflow works from. *)
Before(w) == IF w = "orl4" THEN "auto2" ELSE IF w = "orl5" THEN "orl4" ELSE "orl5"

(* What an artifact says of where it comes from is so. *)
Traced(i) ==
  LET a == store[i] IN
  /\ a.source \in 1..(i - 1)
  /\ store[a.source].kind = Before(a.kind)
  /\ Assessment(store[a.source]) = Assessment(a)
  /\ a.action \in 1..i
  /\ Assessment(store[a.action]) = Assessment(a)
  /\ a.kind # "orl4" => a.action = store[a.source].action

StoreInv == \A i \in 1..Len(store) : store[i].kind # "auto2" => Traced(i)

(* What a run must find before it answers i, and what it must not. *)
Answers(p, i) == store[p].source = i \/ (p \in Listed /\ Assessment(store[p]) = Assessment(store[i]))

Same(w, p, i) ==
  IF w = "orl4" THEN Assessment(store[p]) = Assessment(store[i]) ELSE store[p].action = store[i].action

Repeats(w, p, i) == store[p].source = i \/ (p \in Listed /\ Same(w, p, i))

Source(w, i) == i \in 1..Len(store) /\ store[i].kind = Before(w)

(* A run r of workflow w. *)
Bridging(r) ==
  /\ r.at \in {"checking", "analyzing", "preparing", "uploading"} => r.head \in HeadOid /\ r.base \in BaseOid
  /\ r.at \in {"preparing", "uploading"} => r.seen \in BaseOid

Finding(w, r) ==
  /\ r.at = "discovering" => r.valid = {}
  /\ r.at = "inspecting" => \A i \in r.todo \cup r.valid :
      /\ Source(w, i)
      /\ w # "orl5" => \A p \in Made(w) : Answers(p, i) => p \in r.prior

Chosen(w, r) ==
  r.at \in {"submitting", "confirming", "uploading"} =>
    /\ Source(w, r.chosen)
    /\ w # "orl5" => \A p \in Made(w) : ~Repeats(w, p, r.chosen)

Sound(w, r) ==
  /\ r \in Run
  /\ w = "auto2" => Bridging(r)
  /\ w # "auto2" => Finding(w, r) /\ Chosen(w, r)

IInv ==
  /\ TypeOK
  /\ pull.view <= pull.moves
  /\ StoreInv
  /\ \A w \in Workflow : Sound(w, runs[w])
  /\ EachArtifactAnsweredOnce
  /\ OneListedAnswer

-----------------------------------------------------------------------------
(* Helpers.                                                                *)

LEMMA SameAssessment ==
  \A a, b : Assessment(a) = Assessment(b) <=> a.head = b.head /\ a.authority = b.authority
BY DEF Assessment

LEMMA IdleTyped == LoopAssumption => Idle \in Run
BY DEF LoopAssumption, Idle, Run, Phase

LEMMA IdleSound == \A w \in Workflow : Sound(w, Idle)
BY IdleTyped, LoopAssumption DEF Sound, Bridging, Finding, Chosen, Idle

(* What an appended artifact leaves as it was. *)
LEMMA Appended ==
  ASSUME store \in Seq(Artifact), NEW a \in Artifact, store' = Append(store, a)
  PROVE  /\ store' \in Seq(Artifact)
         /\ Len(store') = Len(store) + 1 /\ Len(store) \in Nat
         /\ \A i \in 1..Len(store) : store'[i] = store[i]
         /\ store'[Len(store) + 1] = a
OBVIOUS

LEMMA Indices ==
  ASSUME TypeOK
  PROVE  /\ Len(store) \in Nat /\ gone \in 0..Len(store)
         /\ \A i \in 1..Len(store) : store[i] \in Artifact
         /\ \A w \in Workflow : runs[w] \in Run
BY DEF TypeOK

LEMMA InitIInv == Init => IInv
<1>. SUFFICES ASSUME Init PROVE IInv
  OBVIOUS
<1>1. TypeOK
  BY IdleTyped, LoopAssumption DEF Init, TypeOK, LoopAssumption, Pull
<1>2. \A w \in Workflow : Sound(w, runs[w])
  BY IdleSound DEF Init
<1>3. Len(store) = 0
  BY DEF Init
<1>4. StoreInv /\ EachArtifactAnsweredOnce /\ OneListedAnswer
  BY <1>3 DEF StoreInv, EachArtifactAnsweredOnce, OneListedAnswer, Made
<1>5. pull.view <= pull.moves
  BY DEF Init
<1>. QED
  BY <1>1, <1>2, <1>4, <1>5 DEF IInv

-----------------------------------------------------------------------------
(* The kinds of steps.                                                     *)

(* The pull request or the authority repository changes: no artifact and   *)
(* no run does.                                                            *)
LEMMA OutsideKept ==
  ASSUME IInv, UNCHANGED <<store, gone, runs>>, TypeOK', (pull.view <= pull.moves)'
  PROVE  IInv'
BY DEF IInv, StoreInv, Traced, Sound, Bridging, Finding, Chosen, Source, Answers, Repeats, Same,
       Listed, Made, EachArtifactAnsweredOnce, OneListedAnswer

LEMMA BecomesKept ==
  \A w \in Workflow : \A r : IInv /\ Becomes(w, r) /\ Sound(w, r) => IInv'
<1>. SUFFICES ASSUME NEW w \in Workflow, NEW r, IInv, Becomes(w, r), Sound(w, r) PROVE IInv'
  OBVIOUS
<1>1. UNCHANGED <<pull, authority, store, gone, deaths>>
  BY DEF Becomes
<1>2. \A v \in Workflow : runs'[v] = IF v = w THEN r ELSE runs[v]
  BY DEF Becomes
<1>3. r \in Run
  BY DEF Sound
<1>4. TypeOK'
  BY <1>1, <1>2, <1>3 DEF IInv, TypeOK, Becomes
<1>5. \A v \in Workflow : Sound(v, runs'[v])
  BY <1>2 DEF IInv
<1>6. (\A v \in Workflow : Sound(v, runs[v]))'
  BY <1>1, <1>5 DEF Sound, Bridging, Finding, Chosen, Source, Answers, Repeats, Same, Listed, Made
<1>7. (StoreInv /\ EachArtifactAnsweredOnce /\ OneListedAnswer)'
  BY <1>1 DEF IInv, StoreInv, Traced, EachArtifactAnsweredOnce, OneListedAnswer, Listed, Made
<1>. QED
  BY <1>1, <1>4, <1>6, <1>7 DEF IInv

LEMMA DieKept == \A w \in Workflow : IInv /\ Die(w) => IInv'
<1>. SUFFICES ASSUME NEW w \in Workflow, IInv, Die(w) PROVE IInv'
  OBVIOUS
<1>1. UNCHANGED <<pull, authority, store, gone>> /\ deaths < MaxDeaths /\ deaths' = deaths + 1
  BY DEF Die
<1>2. \A v \in Workflow : runs'[v] = IF v = w THEN Idle ELSE runs[v]
  BY DEF Die
<1>3. TypeOK'
  BY <1>1, <1>2, IdleTyped, LoopAssumption DEF IInv, TypeOK, Die, LoopAssumption
<1>4. \A v \in Workflow : Sound(v, runs'[v])
  BY <1>2, IdleSound DEF IInv
<1>5. (\A v \in Workflow : Sound(v, runs[v]))'
  BY <1>1, <1>4 DEF Sound, Bridging, Finding, Chosen, Source, Answers, Repeats, Same, Listed, Made
<1>6. (StoreInv /\ EachArtifactAnsweredOnce /\ OneListedAnswer)'
  BY <1>1 DEF IInv, StoreInv, Traced, EachArtifactAnsweredOnce, OneListedAnswer, Listed, Made
<1>. QED
  BY <1>1, <1>3, <1>5, <1>6 DEF IInv

(* What is listed can only become less by expiry. *)
LEMMA ExpireKept == IInv /\ Expire => IInv'
<1>. SUFFICES ASSUME IInv, Expire PROVE IInv'
  OBVIOUS
<1>1. UNCHANGED <<pull, authority, store, runs, deaths>> /\ gone < Len(store) /\ gone' = gone + 1
  BY DEF Expire
<1>2. Len(store) \in Nat /\ gone \in 0..Len(store)
  BY Indices DEF IInv
<1>3. TypeOK'
  BY <1>1, <1>2 DEF IInv, TypeOK
<1>4. Listed' \subseteq Listed
  BY <1>1, <1>2 DEF Listed
<1>5. (StoreInv /\ EachArtifactAnsweredOnce)'
  BY <1>1 DEF IInv, StoreInv, Traced, EachArtifactAnsweredOnce, Made
<1>6. OneListedAnswer'
  BY <1>1, <1>4 DEF IInv, OneListedAnswer, Made
<1>7. \A p, i : Answers(p, i)' => Answers(p, i)
  BY <1>1, <1>4 DEF Answers
<1>8. \A w, p, i : Repeats(w, p, i)' => Repeats(w, p, i)
  BY <1>1, <1>4 DEF Repeats, Same
<1>9. ASSUME NEW w \in Workflow PROVE Sound(w, runs[w])'
  <2>1. Sound(w, runs[w])
    BY DEF IInv
  <2>2. UNCHANGED <<runs[w], Made(w)>> /\ \A i : Source(w, i)' <=> Source(w, i)
    BY <1>1 DEF Made, Source
  <2>. QED
    BY <2>1, <2>2, <1>7, <1>8 DEF Sound, Bridging, Finding, Chosen
<1>. QED
  BY <1>1, <1>3, <1>5, <1>6, <1>9 DEF IInv

(* What a run uploads: an answer to its source. *)
Answer(w, a) ==
  /\ a \in Artifact
  /\ a.kind = w
  /\ w # "auto2" =>
       /\ a.source = runs[w].chosen
       /\ Assessment(a) = Assessment(store[runs[w].chosen])
       /\ a.action = IF w = "orl4" THEN Len(store) + 1 ELSE store[runs[w].chosen].action

LEMMA UploadKept ==
  \A w \in Workflow : \A a : IInv /\ Upload(w, a) /\ Answer(w, a) => IInv'
<1>. SUFFICES ASSUME NEW w \in Workflow, NEW a, IInv, Upload(w, a), Answer(w, a) PROVE IInv'
  OBVIOUS
<1>. DEFINE n == Len(store) + 1
            c == runs[w].chosen
<1>1. a \in Artifact /\ a.kind = w
  BY DEF Answer
<1>2. UNCHANGED <<pull, authority, gone, deaths>> /\ store' = Append(store, a)
  BY DEF Upload
<1>3. /\ Len(store) \in Nat /\ gone \in 0..Len(store) /\ store \in Seq(Artifact)
      /\ \A i \in 1..Len(store) : store[i] \in Artifact
  BY Indices DEF IInv, TypeOK
<1>4. /\ store' \in Seq(Artifact) /\ Len(store') = n
      /\ \A i \in 1..Len(store) : store'[i] = store[i]
      /\ store'[n] = a
  BY <1>1, <1>2, <1>3, Appended
<1>5. \A v \in Workflow : runs'[v] = IF v = w THEN Idle ELSE runs[v]
  BY DEF Upload
<1>6. TypeOK'
  BY <1>2, <1>3, <1>4, <1>5, IdleTyped, LoopAssumption DEF IInv, TypeOK, Upload
<1>7. Listed' = Listed \cup {n} /\ Listed \subseteq 1..Len(store)
  BY <1>2, <1>3, <1>4 DEF Listed
<1>8. \A v : Made(v)' = IF v = w THEN Made(v) \cup {n} ELSE Made(v)
  BY <1>1, <1>3, <1>4 DEF Made
<1>9. \A v : Made(v) \subseteq 1..Len(store)
  BY DEF Made
<1>10. w # "auto2" => /\ c \in 1..Len(store) /\ store[c].kind = Before(w)
                      /\ w # "orl5" => \A p \in Made(w) : ~Repeats(w, p, c)
  BY DEF IInv, Sound, Chosen, Source, Upload, At
<1>11. \A i \in 1..Len(store) : store[i].kind # "auto2" => Traced(i)
  BY DEF IInv, StoreInv
<1>12. StoreInv'
  <2>1. ASSUME NEW i \in 1..Len(store), store[i].kind # "auto2" PROVE Traced(i)'
    <3>1. store'[i] = store[i]
      BY <1>4
    <3>2. store[i].source \in 1..Len(store) /\ store[i].action \in 1..Len(store)
      BY <1>3, <1>11, <2>1 DEF Traced
    <3>. QED
      BY <3>1, <3>2, <1>4, <1>11, <2>1 DEF Traced
  <2>2. ASSUME w # "auto2", NEW m, m = n PROVE Traced(m)'
    <3>1. /\ a.source = c /\ Assessment(a) = Assessment(store[c])
          /\ a.action = IF w = "orl4" THEN n ELSE store[c].action
      BY <2>2 DEF Answer
    <3>2. c \in 1..(n - 1) /\ store'[c] = store[c] /\ store[c].kind = Before(a.kind)
      BY <1>1, <1>3, <1>4, <1>10, <2>2
    <3>3. a.action \in 1..n /\ Assessment(store'[a.action]) = Assessment(a)
      <4>1. CASE w = "orl4"
        BY <4>1, <3>1, <1>3, <1>4
      <4>2. CASE w # "orl4"
        <5>1. store[c].kind # "auto2"
          BY <4>2, <2>2, <1>10 DEF Before
        <5>2. Traced(c)
          BY <5>1, <1>10, <1>11, <2>2
        <5>3. store[c].action \in 1..Len(store) /\ Assessment(store[store[c].action]) = Assessment(store[c])
          BY <5>2, <1>3, <1>10, <2>2 DEF Traced
        <5>. QED
          BY <5>3, <4>2, <3>1, <1>3, <1>4
      <4>. QED
        BY <4>1, <4>2
    <3>4. a.kind # "orl4" => a.action = store'[a.source].action
      BY <3>1, <3>2, <1>1
    <3>5. store'[m] = a
      BY <1>4, <2>2
    <3>. QED
      BY <3>1, <3>2, <3>3, <3>4, <3>5, <1>1, <2>2 DEF Traced
  <2>3. ASSUME NEW i \in 1..Len(store'), store'[i].kind # "auto2" PROVE Traced(i)'
    <3>1. CASE i \in 1..Len(store)
      BY <3>1, <2>1, <2>3, <1>4
    <3>2. CASE i \notin 1..Len(store)
      <4>1. i = n
        BY <3>2, <2>3, <1>3, <1>4
      <4>. QED
        BY <4>1, <2>2, <2>3, <1>1, <1>4
    <3>. QED
      BY <3>1, <3>2
  <2>. QED
    BY <2>3 DEF StoreInv
<1>13. ASSUME NEW v \in Workflow PROVE Sound(v, runs[v])'
  <2>1. CASE v = w
    <3>1. runs'[v] = Idle
      BY <2>1, <1>5
    <3>. QED
      BY <3>1, IdleTyped, LoopAssumption DEF Sound, Bridging, Finding, Chosen, Idle
  <2>2. CASE v # w
    <3>1. runs'[v] = runs[v] /\ Made(v)' = Made(v) /\ Sound(v, runs[v])
      BY <2>2, <1>5, <1>8 DEF IInv
    <3>2. \A i : Source(v, i) => Source(v, i)'
      BY <1>3, <1>4 DEF Source
    <3>3. \A p \in Made(v) : p \in 1..Len(store) /\ store'[p] = store[p] /\ (p \in Listed' => p \in Listed)
      BY <1>3, <1>4, <1>7, <1>9
    <3>4. \A p \in Made(v), i \in 1..Len(store) : Answers(p, i)' => Answers(p, i)
      BY <3>3, <1>4 DEF Answers
    <3>5. \A p \in Made(v), i \in 1..Len(store) : Repeats(v, p, i)' => Repeats(v, p, i)
      BY <3>3, <1>4 DEF Repeats, Same
    <3>6. \A i : Source(v, i) => i \in 1..Len(store)
      BY DEF Source
    <3>. QED
      BY <3>1, <3>2, <3>4, <3>5, <3>6 DEF Sound, Bridging, Finding, Chosen
  <2>. QED
    BY <2>1, <2>2
<1>14. ASSUME w \in {"orl4", "orl6"}, NEW p \in Made(w)
       PROVE  store[p].source # a.source /\ (p \in Listed => ~Same(w, p, c))
  <2>1. ~Repeats(w, p, c) /\ a.source = c
    BY <1>10, <1>14 DEF Answer
  <2>. QED
    BY <2>1 DEF Repeats
<1>15. EachArtifactAnsweredOnce'
  <2>. SUFFICES ASSUME NEW kind \in {"orl4", "orl6"}, NEW i \in Made(kind)', NEW j \in Made(kind)',
                       store'[i].source = store'[j].source
                PROVE  i = j
    BY DEF EachArtifactAnsweredOnce
  <2>1. CASE i \in Made(kind) /\ j \in Made(kind)
    BY <2>1, <1>4, <1>9 DEF IInv, EachArtifactAnsweredOnce
  <2>2. CASE i \notin Made(kind) \/ j \notin Made(kind)
    BY <2>2, <1>4, <1>8, <1>9, <1>14
  <2>. QED
    BY <2>1, <2>2
<1>16. OneListedAnswer'
  <2>. DEFINE Alike(kind, x, y) ==
                IF kind = "orl4" THEN Assessment(x) = Assessment(y) ELSE x.action = y.action
  <2>1. ASSUME NEW kind \in {"orl4", "orl6"}, NEW i \in Made(kind)' \cap Listed', NEW j \in Made(kind)' \cap Listed',
               Alike(kind, store'[i], store'[j])
        PROVE  i = j
    <3>1. CASE i \in Made(kind) /\ j \in Made(kind)
      <4>1. i \in Listed /\ j \in Listed /\ store'[i] = store[i] /\ store'[j] = store[j]
        BY <3>1, <1>3, <1>4, <1>7, <1>9
      <4>. QED
        BY <4>1, <3>1, <2>1 DEF IInv, OneListedAnswer
    <3>2. ASSUME NEW p \in Made(kind), p \in Listed', w = kind PROVE ~Alike(kind, store'[p], a) /\ ~Alike(kind, a, store'[p])
      <4>1. p \in Listed /\ store'[p] = store[p]
        BY <3>2, <1>3, <1>4, <1>7, <1>9
      <4>2. ~Same(w, p, c)
        BY <4>1, <3>2, <1>14
      <4>3. Assessment(a) = Assessment(store[c]) /\ (w = "orl6" => a.action = store[c].action)
        BY <3>2 DEF Answer
      <4>. QED
        BY <4>1, <4>2, <4>3, <3>2 DEF Same
    <3>3. CASE i \notin Made(kind) \/ j \notin Made(kind)
      BY <3>2, <3>3, <2>1, <1>4, <1>8
    <3>. QED
      BY <3>1, <3>3
  <2>. QED
    BY <2>1 DEF OneListedAnswer
<1>. QED
  BY <1>2, <1>6, <1>12, <1>13, <1>15, <1>16 DEF IInv

-----------------------------------------------------------------------------
(* The steps.                                                              *)

LEMMA PullKept ==
  IInv /\ (Push \/ MoveBase \/ Merge \/ Close \/ Reopen \/ Comment \/ AdvanceAuthority) => IInv'
<1>. SUFFICES ASSUME IInv, Push \/ MoveBase \/ Merge \/ Close \/ Reopen \/ Comment \/ AdvanceAuthority
              PROVE  IInv'
  OBVIOUS
<1>1. /\ pull \in Pull /\ pull.view <= pull.moves /\ pull.moves \in 0..MaxMoves /\ pull.view \in 0..MaxMoves
      /\ MaxMoves \in Nat /\ MaxAuthority \in Nat /\ authority \in 0..MaxAuthority
  BY LoopAssumption DEF IInv, TypeOK, Pull, LoopAssumption
<1>2. \A p \in Pull : Moves(p) /\ p.view <= pull.moves + 1 => IInv'
  <2>. SUFFICES ASSUME NEW p \in Pull, Moves(p), p.view <= pull.moves + 1 PROVE IInv'
    OBVIOUS
  <2>1. pull' \in Pull /\ pull'.view <= pull'.moves
    BY <1>1 DEF Moves, Pull
  <2>2. UNCHANGED <<authority, store, gone, runs, deaths>>
    BY DEF Moves
  <2>. QED
    BY <2>1, <2>2, OutsideKept DEF IInv, TypeOK
<1>3. CASE Push
  <2>1. PICK h \in HeadOid : Moves([pull EXCEPT !.head = h])
    BY <1>3 DEF Push
  <2>. QED
    BY <2>1, <1>1, <1>2 DEF Pull
<1>4. CASE MoveBase
  <2>1. PICK b \in BaseOid : Moves([pull EXCEPT !.base = b])
    BY <1>4 DEF MoveBase
  <2>. QED
    BY <2>1, <1>1, <1>2 DEF Pull
<1>5. CASE Merge
  BY <1>1, <1>2, <1>5 DEF Merge, Pull, State
<1>6. CASE Close
  BY <1>1, <1>2, <1>6 DEF Close, Pull, State
<1>7. CASE Reopen
  BY <1>1, <1>2, <1>7 DEF Reopen, Pull, State
<1>8. CASE Comment
  <2>1. Moves([pull EXCEPT !.view = pull.view + 1]) /\ pull.moves < MaxMoves
    BY <1>8 DEF Comment, Moves
  <2>2. [pull EXCEPT !.view = pull.view + 1] \in Pull /\ pull.view + 1 <= pull.moves + 1
    BY <2>1, <1>1 DEF Pull
  <2>3. [pull EXCEPT !.view = pull.view + 1].view = pull.view + 1
    BY <1>1 DEF Pull
  <2>. QED
    BY <2>1, <2>2, <2>3, <1>2
<1>9. CASE AdvanceAuthority
  <2>1. UNCHANGED <<pull, store, gone, runs, deaths>> /\ authority' \in 0..MaxAuthority
    BY <1>1, <1>9 DEF AdvanceAuthority
  <2>. QED
    BY <2>1, OutsideKept DEF IInv, TypeOK
<1>. QED
  BY <1>3, <1>4, <1>5, <1>6, <1>7, <1>8, <1>9

(* What an action of a workflow may use of the invariant. *)
LEMMA Known ==
  ASSUME IInv
  PROVE  /\ pull \in Pull /\ authority \in 0..MaxAuthority
         /\ Len(store) \in Nat /\ gone \in 0..Len(store)
         /\ \A i \in 1..Len(store) : store[i] \in Artifact
         /\ \A w \in Workflow : runs[w] \in Run /\ Sound(w, runs[w])
         /\ Listed \subseteq 1..Len(store)
BY Indices DEF IInv, TypeOK, Listed

LEMMA RefuseKept == \A w \in Workflow : IInv /\ Refuse(w) => IInv'
BY BecomesKept, IdleSound DEF Refuse

LEMMA BridgeKept == IInv /\ Bridge => IInv'
<1>. SUFFICES ASSUME IInv, Bridge PROVE IInv'
  OBVIOUS
<1>. DEFINE r == runs["auto2"]
<1>0. /\ pull \in Pull /\ authority \in 0..MaxAuthority /\ r \in Run /\ Bridging(r) /\ "auto2" \in Workflow
  BY Known DEF Sound, Workflow
<1>1. CASE BridgeDispatch
  <2>. DEFINE s == [Idle EXCEPT !.at = "checking", !.head = pull.head, !.base = pull.base, !.authority = authority]
  <2>1. Sound("auto2", s)
    BY <1>0, IdleTyped, LoopAssumption DEF Sound, Bridging, Run, Phase, Pull, Idle
  <2>2. Becomes("auto2", s)
    BY <1>1 DEF BridgeDispatch
  <2>. QED
    BY <2>1, <2>2, <1>0, BecomesKept
<1>2. CASE BridgeCheck
  <2>1. CASE Refuse("auto2")
    BY <2>1, <1>0, RefuseKept
  <2>2. CASE Becomes("auto2", [r EXCEPT !.at = "analyzing"]) /\ r.at = "checking"
    <3>1. Sound("auto2", [r EXCEPT !.at = "analyzing"])
      BY <2>2, <1>0 DEF Sound, Bridging, Run, Phase
    <3>. QED
      BY <3>1, <2>2, <1>0, BecomesKept
  <2>. QED
    BY <2>1, <2>2, <1>2 DEF BridgeCheck, At
<1>3. CASE BridgeAnalyze
  <2>1. CASE Refuse("auto2")
    BY <2>1, <1>0, RefuseKept
  <2>. DEFINE s == [r EXCEPT !.at = "preparing", !.seen = pull.base, !.view = pull.view]
  <2>2. CASE Becomes("auto2", s) /\ r.at = "analyzing"
    <3>1. Sound("auto2", s)
      BY <2>2, <1>0 DEF Sound, Bridging, Run, Phase, Pull
    <3>. QED
      BY <3>1, <2>2, <1>0, BecomesKept
  <2>. QED
    BY <2>1, <2>2, <1>3 DEF BridgeAnalyze, At
<1>4. CASE BridgePrepare
  <2>1. CASE Refuse("auto2")
    BY <2>1, <1>0, RefuseKept
  <2>2. CASE Becomes("auto2", [r EXCEPT !.at = "uploading"]) /\ r.at = "preparing"
    <3>1. Sound("auto2", [r EXCEPT !.at = "uploading"])
      BY <2>2, <1>0 DEF Sound, Bridging, Run, Phase
    <3>. QED
      BY <3>1, <2>2, <1>0, BecomesKept
  <2>. QED
    BY <2>1, <2>2, <1>4 DEF BridgePrepare, At
<1>5. CASE BridgeUpload
  <2>1. Upload("auto2", PacketArtifact(r)) /\ r.at = "uploading"
    BY <1>5 DEF BridgeUpload, Upload, At
  <2>2. Answer("auto2", PacketArtifact(r))
    BY <2>1, <1>0 DEF Answer, PacketArtifact, Artifact, Workflow, Bridging, Run
  <2>. QED
    BY <2>1, <2>2, <1>0, UploadKept
<1>. QED
  BY <1>1, <1>2, <1>3, <1>4, <1>5 DEF Bridge

LEMMA InspectKept ==
  \A w \in {"orl4", "orl5", "orl6"} : \A i : IInv /\ Inspect(w, i) => IInv'
<1>. SUFFICES ASSUME NEW w \in {"orl4", "orl5", "orl6"}, NEW i, IInv, Inspect(w, i) PROVE IInv'
  OBVIOUS
<1>. DEFINE r == runs[w]
<1>1. w \in Workflow /\ r \in Run /\ Finding(w, r) /\ r.at = "inspecting" /\ i \in r.todo
  BY Known DEF Sound, Workflow, Inspect, At
<1>2. CASE Becomes(w, [r EXCEPT !.todo = r.todo \ {i}, !.valid = r.valid \cup {i}])
  <2>1. Sound(w, [r EXCEPT !.todo = r.todo \ {i}, !.valid = r.valid \cup {i}])
    BY <1>1 DEF Sound, Finding, Chosen, Run
  <2>. QED
    BY <2>1, <1>1, <1>2, BecomesKept
<1>3. CASE Becomes(w, [r EXCEPT !.todo = r.todo \ {i}])
  <2>1. Sound(w, [r EXCEPT !.todo = r.todo \ {i}])
    BY <1>1 DEF Sound, Finding, Chosen, Run
  <2>. QED
    BY <2>1, <1>1, <1>3, BecomesKept
<1>. QED
  BY <1>2, <1>3 DEF Inspect

(* Whoever lists a source at the live head lists the answers to it, and    *)
(* all listed answers to its assessment.                                   *)
LEMMA Discovered ==
  ASSUME IInv, NEW w \in {"orl4", "orl6"}, NEW i \in Find(Before(w)), NEW p \in Made(w), Answers(p, i)
  PROVE  Source(w, i) /\ p \in Find(w)
<1>1. /\ Len(store) \in Nat /\ gone \in 0..Len(store) /\ i \in Listed
      /\ store[i].kind = Before(w) /\ store[i].head = pull.head
  BY Known DEF Find
<1>2. p \in 1..Len(store) /\ store[p].kind = w /\ Traced(p)
  BY DEF Made, IInv, StoreInv
<1>3. CASE store[p].source = i
  <2>1. i \in 1..(p - 1) /\ Assessment(store[i]) = Assessment(store[p])
    BY <1>2, <1>3 DEF Traced
  <2>2. p \in Listed
    BY <2>1, <1>1, <1>2 DEF Listed
  <2>. QED
    BY <2>1, <2>2, <1>1, <1>2, SameAssessment DEF Find, Source, Listed
<1>4. CASE p \in Listed /\ Assessment(store[p]) = Assessment(store[i])
  BY <1>1, <1>2, <1>4, SameAssessment DEF Find, Source, Listed
<1>. QED
  BY <1>3, <1>4 DEF Answers

LEMMA FoundAreSources ==
  ASSUME IInv, NEW w, NEW i \in Find(Before(w)) PROVE Source(w, i) /\ i \in Nat
BY Known DEF Find, Source, Listed

LEMMA FindIsNat ==
  ASSUME IInv, NEW kind PROVE Find(kind) \in SUBSET Nat
BY Known DEF Find, Listed

LEMMA ReviewKept == IInv /\ Review => IInv'
<1>. SUFFICES ASSUME IInv, Review PROVE IInv'
  OBVIOUS
<1>. DEFINE r == runs["orl4"]
<1>0. /\ pull \in Pull /\ r \in Run /\ Finding("orl4", r) /\ Chosen("orl4", r) /\ "orl4" \in Workflow
      /\ Before("orl4") = "auto2"
  BY Known DEF Sound, Workflow, Before
<1>1. CASE ReviewResolve
  <2>. DEFINE s == [Idle EXCEPT !.at = "discovering", !.head = pull.head, !.base = pull.base]
  <2>1. Sound("orl4", s)
    BY <1>0, IdleTyped, LoopAssumption DEF Sound, Finding, Chosen, Run, Phase, Pull, Idle
  <2>2. Becomes("orl4", s)
    BY <1>1 DEF ReviewResolve
  <2>. QED
    BY <2>1, <2>2, <1>0, BecomesKept
<1>2. CASE ReviewDiscover
  <2>1. CASE Refuse("orl4")
    BY <2>1, <1>0, RefuseKept
  <2>. DEFINE s == [r EXCEPT !.at = "inspecting", !.todo = Find("auto2"), !.prior = Find("orl4")]
  <2>2. CASE Becomes("orl4", s) /\ r.at = "discovering"
    <3>1. s \in Run /\ s.at = "inspecting" /\ s.todo = Find("auto2") /\ s.valid = {} /\ s.prior = Find("orl4")
      BY <2>2, <1>0, FindIsNat DEF Run, Phase, Finding
    <3>2. \A i \in s.todo \cup s.valid : Source("orl4", i) /\ \A p \in Made("orl4") : Answers(p, i) => p \in s.prior
      BY <3>1, <1>0, Discovered, FoundAreSources
    <3>3. Sound("orl4", s)
      BY <3>1, <3>2 DEF Sound, Finding, Chosen
    <3>. QED
      BY <3>3, <2>2, <1>0, BecomesKept
  <2>. QED
    BY <2>1, <2>2, <1>2 DEF ReviewDiscover, At
<1>3. CASE ReviewSelect
  <2>1. CASE Refuse("orl4")
    BY <2>1, <1>0, RefuseKept
  <2>2. ASSUME NEW i \in r.valid, r.at = "inspecting", CanReview(r, i),
               Becomes("orl4", [r EXCEPT !.at = "submitting", !.chosen = i])
        PROVE  IInv'
    <3>. DEFINE s == [r EXCEPT !.at = "submitting", !.chosen = i]
    <3>1. Source("orl4", i) /\ \A p \in Made("orl4") : Answers(p, i) => p \in r.prior
      BY <2>2, <1>0 DEF Finding
    <3>2. \A p \in r.prior : Assessment(store[p]) # Assessment(store[i])
      BY <2>2 DEF CanReview, ReviewAlreadyRecorded
    <3>3. ASSUME NEW p \in Made("orl4"), Repeats("orl4", p, i) PROVE FALSE
      <4>1. store[p].source = i => Assessment(store[p]) = Assessment(store[i])
        BY DEF Made, IInv, StoreInv, Traced
      <4>. QED
        BY <4>1, <3>1, <3>2, <3>3 DEF Repeats, Same, Answers
    <3>4. s \in Run /\ s.at = "submitting" /\ s.chosen = i
      BY <1>0, <3>1, Known DEF Run, Phase, Source
    <3>5. Sound("orl4", s)
      BY <3>1, <3>3, <3>4 DEF Sound, Finding, Chosen
    <3>. QED
      BY <3>5, <2>2, <1>0, BecomesKept
  <2>. QED
    BY <2>1, <2>2, <1>3 DEF ReviewSelect, Inspected, At
<1>4. CASE ReviewSubmit
  <2>1. CASE Refuse("orl4")
    BY <2>1, <1>0, RefuseKept
  <2>2. CASE Becomes("orl4", [r EXCEPT !.at = "confirming"]) /\ r.at = "submitting"
    <3>1. Sound("orl4", [r EXCEPT !.at = "confirming"])
      BY <2>2, <1>0 DEF Sound, Finding, Chosen, Run, Phase
    <3>. QED
      BY <3>1, <2>2, <1>0, BecomesKept
  <2>. QED
    BY <2>1, <2>2, <1>4 DEF ReviewSubmit, At
<1>5. CASE ReviewConfirm
  <2>1. CASE Refuse("orl4")
    BY <2>1, <1>0, RefuseKept
  <2>2. CASE Becomes("orl4", [r EXCEPT !.at = "uploading"]) /\ r.at = "confirming"
    <3>1. Sound("orl4", [r EXCEPT !.at = "uploading"])
      BY <2>2, <1>0 DEF Sound, Finding, Chosen, Run, Phase
    <3>. QED
      BY <3>1, <2>2, <1>0, BecomesKept
  <2>. QED
    BY <2>1, <2>2, <1>5 DEF ReviewConfirm, At
<1>6. CASE ReviewUpload
  <2>1. Upload("orl4", DecisionArtifact(r.chosen)) /\ r.at = "uploading"
    BY <1>6 DEF ReviewUpload, Upload, At
  <2>2. r.chosen \in 1..Len(store) /\ store[r.chosen] \in Artifact /\ Len(store) \in Nat
    BY <2>1, <1>0, Known DEF Chosen, Source
  <2>3. Answer("orl4", DecisionArtifact(r.chosen))
    <3>. DEFINE a == DecisionArtifact(r.chosen)
    <3>1. store[r.chosen].action \in Nat /\ Len(store) + 1 \in Nat /\ r.chosen \in Nat
      BY <2>2 DEF Artifact
    <3>2. /\ a.kind = "orl4" /\ a.source = r.chosen /\ a.action = Len(store) + 1
          /\ a.head = store[r.chosen].head /\ a.authority = store[r.chosen].authority
      BY <2>2 DEF DecisionArtifact, Artifact
    <3>3. a \in Artifact
      BY <2>2, <3>1 DEF DecisionArtifact, Artifact, Workflow
    <3>4. Assessment(a) = Assessment(store[r.chosen])
      BY <3>2, SameAssessment
    <3>. QED
      BY <3>2, <3>3, <3>4 DEF Answer
  <2>. QED
    BY <2>1, <2>3, <1>0, UploadKept
<1>. QED
  BY <1>1, <1>2, <1>3, <1>4, <1>5, <1>6 DEF Review

LEMMA ContextKept == IInv /\ Context => IInv'
<1>. SUFFICES ASSUME IInv, Context PROVE IInv'
  OBVIOUS
<1>. DEFINE r == runs["orl5"]
<1>0. /\ pull \in Pull /\ r \in Run /\ Finding("orl5", r) /\ Chosen("orl5", r) /\ "orl5" \in Workflow
      /\ Before("orl5") = "orl4"
  BY Known DEF Sound, Workflow, Before
<1>1. CASE ContextDiscover
  <2>. DEFINE s == [Idle EXCEPT !.at = "inspecting", !.todo = Find("orl4"), !.head = pull.head, !.base = pull.base]
  <2>1. s \in Run /\ s.at = "inspecting" /\ s.todo = Find("orl4") /\ s.valid = {}
    BY <1>0, IdleTyped, LoopAssumption, FindIsNat DEF Run, Phase, Pull, Idle
  <2>2. Sound("orl5", s)
    BY <2>1, <1>0, FoundAreSources DEF Sound, Finding, Chosen
  <2>3. Becomes("orl5", s)
    BY <1>1 DEF ContextDiscover
  <2>. QED
    BY <2>2, <2>3, <1>0, BecomesKept
<1>2. CASE ContextSelect
  <2>1. CASE Refuse("orl5")
    BY <2>1, <1>0, RefuseKept
  <2>2. ASSUME NEW i \in r.valid, r.at = "inspecting",
               Becomes("orl5", [r EXCEPT !.at = "uploading", !.chosen = i])
        PROVE  IInv'
    <3>. DEFINE s == [r EXCEPT !.at = "uploading", !.chosen = i]
    <3>1. Source("orl5", i)
      BY <2>2, <1>0 DEF Finding
    <3>2. s \in Run /\ s.at = "uploading" /\ s.chosen = i
      BY <1>0, <3>1, Known DEF Run, Phase, Source
    <3>3. Sound("orl5", s)
      BY <3>1, <3>2 DEF Sound, Finding, Chosen
    <3>. QED
      BY <3>3, <2>2, <1>0, BecomesKept
  <2>. QED
    BY <2>1, <2>2, <1>2 DEF ContextSelect, Inspected, At
<1>3. CASE ContextUpload
  <2>1. Upload("orl5", ContextArtifact(r.chosen)) /\ r.at = "uploading"
    BY <1>3 DEF ContextUpload, Upload, At
  <2>2. r.chosen \in 1..Len(store) /\ store[r.chosen] \in Artifact /\ Len(store) \in Nat
    BY <2>1, <1>0, Known DEF Chosen, Source
  <2>3. Answer("orl5", ContextArtifact(r.chosen))
    <3>. DEFINE a == ContextArtifact(r.chosen)
    <3>1. store[r.chosen].action \in Nat /\ Len(store) + 1 \in Nat /\ r.chosen \in Nat
      BY <2>2 DEF Artifact
    <3>2. /\ a.kind = "orl5" /\ a.source = r.chosen /\ a.action = store[r.chosen].action
          /\ a.head = store[r.chosen].head /\ a.authority = store[r.chosen].authority
      BY <2>2 DEF ContextArtifact, Artifact
    <3>3. a \in Artifact
      BY <2>2, <3>1 DEF ContextArtifact, Artifact, Workflow
    <3>4. Assessment(a) = Assessment(store[r.chosen])
      BY <3>2, SameAssessment
    <3>. QED
      BY <3>2, <3>3, <3>4 DEF Answer
  <2>. QED
    BY <2>1, <2>3, <1>0, UploadKept
<1>. QED
  BY <1>1, <1>2, <1>3 DEF Context

LEMMA OutcomeKept == IInv /\ Outcome => IInv'
<1>. SUFFICES ASSUME IInv, Outcome PROVE IInv'
  OBVIOUS
<1>. DEFINE r == runs["orl6"]
<1>0. /\ r \in Run /\ Finding("orl6", r) /\ Chosen("orl6", r) /\ "orl6" \in Workflow
      /\ Before("orl6") = "orl5"
  BY Known DEF Sound, Workflow, Before
<1>1. CASE OutcomeDiscover
  <2>. DEFINE s == [Idle EXCEPT !.at = "inspecting", !.todo = Find("orl5"), !.prior = Find("orl6")]
  <2>1. s \in Run /\ s.at = "inspecting" /\ s.todo = Find("orl5") /\ s.valid = {} /\ s.prior = Find("orl6")
    BY <1>0, IdleTyped, LoopAssumption, FindIsNat DEF Run, Phase, Idle
  <2>2. \A i \in s.todo \cup s.valid : Source("orl6", i) /\ \A p \in Made("orl6") : Answers(p, i) => p \in s.prior
    BY <2>1, <1>0, Discovered, FoundAreSources
  <2>3. Sound("orl6", s)
    BY <2>1, <2>2 DEF Sound, Finding, Chosen
  <2>4. Becomes("orl6", s)
    BY <1>1 DEF OutcomeDiscover
  <2>. QED
    BY <2>3, <2>4, <1>0, BecomesKept
<1>2. CASE OutcomeSelect
  <2>1. CASE Refuse("orl6")
    BY <2>1, <1>0, RefuseKept
  <2>2. ASSUME NEW i \in r.valid, r.at = "inspecting", CanDeclare(r, i),
               Becomes("orl6", [r EXCEPT !.at = "submitting", !.chosen = i])
        PROVE  IInv'
    <3>. DEFINE s == [r EXCEPT !.at = "submitting", !.chosen = i]
    <3>1. Source("orl6", i) /\ \A p \in Made("orl6") : Answers(p, i) => p \in r.prior
      BY <2>2, <1>0 DEF Finding
    <3>2. \A p \in r.prior :
            Assessment(store[p]) = Assessment(store[i]) => store[p].action # store[i].action
      BY <2>2 DEF CanDeclare, OutcomeAlreadyRecorded
    <3>3. ASSUME NEW p \in Made("orl6"), Repeats("orl6", p, i) PROVE FALSE
      <4>1. store[p].kind = "orl6" /\ Traced(p) /\ Traced(i)
        BY <3>1, <1>0 DEF Made, IInv, StoreInv, Source
      <4>2. CASE store[p].source = i
        <5>1. Assessment(store[p]) = Assessment(store[i]) /\ store[p].action = store[i].action
          BY <4>1, <4>2 DEF Traced
        <5>. QED
          BY <5>1, <4>2, <3>1, <3>2 DEF Answers
      <4>3. CASE p \in Listed /\ store[p].action = store[i].action
        <5>1. Assessment(store[p]) = Assessment(store[i])
          BY <4>1, <4>3 DEF Traced
        <5>. QED
          BY <5>1, <4>3, <3>1, <3>2 DEF Answers
      <4>. QED
        BY <4>2, <4>3, <3>3 DEF Repeats, Same
    <3>4. s \in Run /\ s.at = "submitting" /\ s.chosen = i
      BY <1>0, <3>1, Known DEF Run, Phase, Source
    <3>5. Sound("orl6", s)
      BY <3>1, <3>3, <3>4 DEF Sound, Finding, Chosen
    <3>. QED
      BY <3>5, <2>2, <1>0, BecomesKept
  <2>. QED
    BY <2>1, <2>2, <1>2 DEF OutcomeSelect, Inspected, At
<1>3. CASE OutcomeTransport
  <2>1. CASE Refuse("orl6")
    BY <2>1, <1>0, RefuseKept
  <2>2. CASE Becomes("orl6", [r EXCEPT !.at = "uploading"]) /\ r.at = "submitting"
    <3>1. Sound("orl6", [r EXCEPT !.at = "uploading"])
      BY <2>2, <1>0 DEF Sound, Finding, Chosen, Run, Phase
    <3>. QED
      BY <3>1, <2>2, <1>0, BecomesKept
  <2>. QED
    BY <2>1, <2>2, <1>3 DEF OutcomeTransport, At
<1>4. CASE OutcomeUpload
  <2>1. Upload("orl6", OutcomeArtifact(r.chosen)) /\ r.at = "uploading"
    BY <1>4 DEF OutcomeUpload, Upload, At
  <2>2. r.chosen \in 1..Len(store) /\ store[r.chosen] \in Artifact /\ Len(store) \in Nat
    BY <2>1, <1>0, Known DEF Chosen, Source
  <2>3. Answer("orl6", OutcomeArtifact(r.chosen))
    <3>. DEFINE a == OutcomeArtifact(r.chosen)
    <3>1. store[r.chosen].action \in Nat /\ Len(store) + 1 \in Nat /\ r.chosen \in Nat
      BY <2>2 DEF Artifact
    <3>2. /\ a.kind = "orl6" /\ a.source = r.chosen /\ a.action = store[r.chosen].action
          /\ a.head = store[r.chosen].head /\ a.authority = store[r.chosen].authority
      BY <2>2 DEF OutcomeArtifact, Artifact
    <3>3. a \in Artifact
      BY <2>2, <3>1 DEF OutcomeArtifact, Artifact, Workflow
    <3>4. Assessment(a) = Assessment(store[r.chosen])
      BY <3>2, SameAssessment
    <3>. QED
      BY <3>2, <3>3, <3>4 DEF Answer
  <2>. QED
    BY <2>1, <2>3, <1>0, UploadKept
<1>. QED
  BY <1>1, <1>2, <1>3, <1>4 DEF Outcome

LEMMA NextIInv == IInv /\ [Next]_vars => IInv'
<1>. SUFFICES ASSUME IInv, [Next]_vars PROVE IInv'
  OBVIOUS
<1>1. CASE Bridge \/ Review \/ Context \/ Outcome
  BY <1>1, BridgeKept, ReviewKept, ContextKept, OutcomeKept
<1>2. CASE Elsewhere
  BY <1>2, PullKept, ExpireKept DEF Elsewhere
<1>3. CASE \E i \in 1..Len(store) : ReviewInspect(i) \/ ContextInspect(i) \/ OutcomeInspect(i)
  BY <1>3, InspectKept DEF ReviewInspect, ContextInspect, OutcomeInspect
<1>4. CASE \E w \in Workflow : Die(w)
  BY <1>4, DieKept
<1>5. CASE UNCHANGED vars
  BY <1>5, OutsideKept DEF vars, IInv, TypeOK
<1>. QED
  BY <1>1, <1>2, <1>3, <1>4, <1>5 DEF Next

LEMMA Invariant == Spec => []IInv
BY InitIInv, NextIInv, PTL DEF Spec

-----------------------------------------------------------------------------

(* The types of OperationalLoop.                                           *)
THEOREM TypeCorrect == Spec => []TypeOK
<1>1. IInv => TypeOK
  BY DEF IInv
<1>. QED
  BY <1>1, Invariant, PTL

(* However many artifacts are made, expire and are dispatched again, a     *)
(* packet is decided on at most once and a context declared on at most     *)
(* once.                                                                   *)
THEOREM ArtifactsAnsweredOnce == Spec => []EachArtifactAnsweredOnce
<1>1. IInv => EachArtifactAnsweredOnce
  BY DEF IInv
<1>. QED
  BY <1>1, Invariant, PTL

(* Of one assessment there is at most one listed decision, and of one      *)
(* review action at most one listed outcome.                               *)
THEOREM ListedAnswersUnique == Spec => []OneListedAnswer
<1>1. IInv => OneListedAnswer
  BY DEF IInv
<1>. QED
  BY <1>1, Invariant, PTL

-----------------------------------------------------------------------------
(* The execution boundary (GovernedExecution). Its adapters work on the    *)
(* same pull request and share nothing else with the loop.                 *)

(* The call follows a reading in the state it needs; and when it hit       *)
(* another head than the bound one, the branch is not at the bound head or *)
(* was reset to it since.                                                  *)
Reading(p) ==
  /\ op[p].stage \in {"call", "after"} => InState(op[p].before, DraftBefore(op[p].of))
  /\ op[p].stage = "after" =>
       /\ op[p].since \in Nat /\ op[p].since <= resets
       /\ op[p].hit = Bound \/ pr.head # Bound \/ resets > op[p].since

Receipt(p) ==
  answer[p].kind = "receipt" =>
    /\ answer[p].hit # Bound => answer[p].reset
    /\ InState(answer[p].before, DraftBefore(answer[p].of))

PullRequest == [open : BOOLEAN, merged : BOOLEAN, draft : BOOLEAN, head : Revision]

AdapterInv ==
  /\ pr \in PullRequest /\ resets \in Nat
  /\ op = [p \in Operator |-> op[p]] /\ answer = [p \in Operator |-> answer[p]]
  /\ \A p \in Operator : Reading(p) /\ Receipt(p)

LEMMA AdapterStarts == Bound \in Revision /\ GovernedInit => AdapterInv
BY DEF GovernedInit, AdapterInv, PullRequest, Reading, Receipt, NoOperation, NoAnswer

(* An operator's step: the others are where they were.                     *)
LEMMA AdapterStep ==
  ASSUME AdapterInv, NEW p \in Operator,
         op' = [op EXCEPT ![p] = op'[p]], answer' = [answer EXCEPT ![p] = answer'[p]],
         pr' \in PullRequest, pr'.head = pr.head, resets' = resets,
         Reading(p)', Receipt(p)'
  PROVE  AdapterInv'
<1>1. op' = [q \in Operator |-> op'[q]] /\ answer' = [q \in Operator |-> answer'[q]]
  BY DEF AdapterInv
<1>2. ASSUME NEW q \in Operator, q # p PROVE Reading(q)' /\ Receipt(q)'
  <2>1. op'[q] = op[q] /\ answer'[q] = answer[q]
    BY <1>2 DEF AdapterInv
  <2>2. Reading(q) /\ Receipt(q)
    BY DEF AdapterInv
  <2>. QED
    BY <2>1, <2>2 DEF Reading, Receipt, InState, DraftBefore
<1>. QED BY <1>1, <1>2 DEF AdapterInv

LEMMA AdapterGoesOn ==
  ASSUME Bound \in Revision, AdapterInv, [GovernedNext]_governedVars
  PROVE  AdapterInv'
<1>. USE DEF NoOperation, NoAnswer
<1>1. ASSUME NEW p \in Operator, NEW x \in Operation, Begin(p, x) PROVE AdapterInv'
  <2>. USE <1>1 DEF Begin
  <2>1. op' = [op EXCEPT ![p] = op'[p]] /\ answer' = [answer EXCEPT ![p] = answer'[p]]
    BY DEF AdapterInv
  <2>2. pr' \in PullRequest /\ pr'.head = pr.head /\ resets' = resets
    BY DEF AdapterInv, PullRequest
  <2>3. Reading(p) /\ Receipt(p)
    BY DEF AdapterInv
  <2>4. Reading(p)'
    BY <2>2, <2>3 DEF Reading, AdapterInv, InState, DraftBefore
  <2>5. Receipt(p)'
    BY <2>2, <2>3 DEF Receipt, Reading, AdapterInv, InState, DraftBefore
  <2>. QED BY <2>1, <2>2, <2>4, <2>5, AdapterStep
<1>2. ASSUME NEW p \in Operator, ReadBefore(p) PROVE AdapterInv'
  <2>. USE <1>2 DEF ReadBefore, Ends
  <2>1. op' = [op EXCEPT ![p] = op'[p]] /\ answer' = [answer EXCEPT ![p] = answer'[p]]
    BY DEF AdapterInv
  <2>2. pr' \in PullRequest /\ pr'.head = pr.head /\ resets' = resets
    BY DEF AdapterInv, PullRequest
  <2>3. Reading(p) /\ Receipt(p)
    BY DEF AdapterInv
  <2>0. \A v : /\ op' = [op EXCEPT ![p] = v] => op'[p] = v
               /\ answer' = [answer EXCEPT ![p] = v] => answer'[p] = v
    BY DEF AdapterInv
  <2>6. \/ op'[p].stage = "idle" /\ answer'[p].kind # "receipt"
        \/ /\ op'[p].stage = "call" /\ op'[p].of = op[p].of /\ op'[p].before = pr
           /\ InState(pr, DraftBefore(op[p].of)) /\ answer'[p] = answer[p]
    <3>. HIDE <1>2 DEF ReadBefore, Ends
    <3>. DEFINE x == op[p].of
    <3>1. CASE ~Identified(pr)
      <4>1. /\ op' = [op EXCEPT ![p] = NoOperation]
            /\ answer' = [answer EXCEPT ![p] = [kind |-> "postcondition error", of |-> x, called |-> FALSE]]
        BY <1>2, <3>1, Zenon DEF ReadBefore, Ends
      <4>. HIDE DEF x
      <4>3. op'[p].stage = "idle"
        BY <4>1, <2>0
      <4>4. answer'[p].kind # "receipt"
        <5>1. answer'[p].kind = "postcondition error"
          BY <4>1, <2>0
        <5>. QED BY <5>1
      <4>. QED BY <4>3, <4>4, Zenon
    <3>2. CASE Identified(pr) /\ ~InState(pr, DraftBefore(x))
      <4>1. /\ op' = [op EXCEPT ![p] = NoOperation]
            /\ answer' = [answer EXCEPT ![p] = [kind |-> "precondition error", of |-> x, called |-> FALSE]]
        BY <1>2, <3>2, Zenon DEF ReadBefore, Ends
      <4>. HIDE DEF x
      <4>3. op'[p].stage = "idle"
        BY <4>1, <2>0
      <4>4. answer'[p].kind # "receipt"
        <5>1. answer'[p].kind = "precondition error"
          BY <4>1, <2>0
        <5>. QED BY <5>1
      <4>. QED BY <4>3, <4>4, Zenon
    <3>3. CASE Identified(pr) /\ InState(pr, DraftBefore(x))
      <4>1. op' = [op EXCEPT ![p] = [stage |-> "call", of |-> x, before |-> pr]] /\ answer' = answer
        BY <1>2, <3>3, Zenon DEF ReadBefore, Ends
      <4>. QED BY <4>1, <2>0, <3>3
    <3>. QED BY <3>1, <3>2, <3>3, Zenon
  <2>4. Reading(p)'
    BY <2>6 DEF Reading, InState, DraftBefore
  <2>5. Receipt(p)'
    BY <2>6, <2>3 DEF Receipt, InState, DraftBefore
  <2>. QED BY <2>1, <2>2, <2>4, <2>5, AdapterStep
<1>3. ASSUME NEW p \in Operator, Call(p) PROVE AdapterInv'
  <2>. USE <1>3 DEF Call, Effect
  <2>1. op' = [op EXCEPT ![p] = op'[p]] /\ answer' = [answer EXCEPT ![p] = answer'[p]]
    BY DEF AdapterInv
  <2>2. pr' \in PullRequest /\ pr'.head = pr.head /\ resets' = resets
    BY DEF AdapterInv, PullRequest, DraftAfter, DraftBefore
  <2>3. Reading(p) /\ Receipt(p)
    BY DEF AdapterInv
  <2>6. /\ op'[p].stage = "after" /\ op'[p].of = op[p].of /\ op'[p].before = op[p].before
        /\ op'[p].hit = pr.head /\ op'[p].since = resets
        /\ op[p].stage = "call" /\ answer' = answer
    BY DEF AdapterInv
  <2>. HIDE <1>3 DEF Call, Effect
  <2>7. InState(op[p].before, DraftBefore(op[p].of))'
    BY <2>3, <2>6 DEF Reading, InState, DraftBefore
  <2>8. op'[p].since \in Nat /\ op'[p].since <= resets'
    BY <2>2, <2>6 DEF AdapterInv
  <2>9. op'[p].hit = pr'.head
    BY <2>2, <2>6
  <2>4. Reading(p)'
    BY <2>7, <2>8, <2>9 DEF Reading
  <2>5. Receipt(p)'
    BY <2>3, <2>6 DEF Receipt, InState, DraftBefore
  <2>. QED BY <2>1, <2>2, <2>4, <2>5, AdapterStep
<1>4. ASSUME NEW p \in Operator, CallWithoutEffect(p) PROVE AdapterInv'
  <2>. USE <1>4 DEF CallWithoutEffect
  <2>1. op' = [op EXCEPT ![p] = op'[p]] /\ answer' = [answer EXCEPT ![p] = answer'[p]]
    BY DEF AdapterInv
  <2>2. pr' \in PullRequest /\ pr'.head = pr.head /\ resets' = resets
    BY DEF AdapterInv, PullRequest
  <2>3. Reading(p) /\ Receipt(p)
    BY DEF AdapterInv
  <2>6. /\ op'[p].stage = "after" /\ op'[p].of = op[p].of /\ op'[p].before = op[p].before
        /\ op'[p].hit = pr.head /\ op'[p].since = resets
        /\ op[p].stage = "call" /\ answer' = answer
    BY DEF AdapterInv
  <2>. HIDE <1>4 DEF CallWithoutEffect
  <2>7. InState(op[p].before, DraftBefore(op[p].of))'
    BY <2>3, <2>6 DEF Reading, InState, DraftBefore
  <2>8. op'[p].since \in Nat /\ op'[p].since <= resets'
    BY <2>2, <2>6 DEF AdapterInv
  <2>9. op'[p].hit = pr'.head
    BY <2>2, <2>6
  <2>4. Reading(p)'
    BY <2>7, <2>8, <2>9 DEF Reading
  <2>5. Receipt(p)'
    BY <2>3, <2>6 DEF Receipt, InState, DraftBefore
  <2>. QED BY <2>1, <2>2, <2>4, <2>5, AdapterStep
<1>5. ASSUME NEW p \in Operator, CallFails(p) PROVE AdapterInv'
  <2>. USE <1>5 DEF CallFails, Ends, Effect
  <2>1. op' = [op EXCEPT ![p] = op'[p]] /\ answer' = [answer EXCEPT ![p] = answer'[p]]
    BY DEF AdapterInv
  <2>2. pr' \in PullRequest /\ pr'.head = pr.head /\ resets' = resets
    BY DEF AdapterInv, PullRequest, DraftAfter, DraftBefore
  <2>3. Reading(p) /\ Receipt(p)
    BY DEF AdapterInv
  <2>4. Reading(p)'
    BY <2>2, <2>3 DEF Reading, AdapterInv, InState, DraftBefore
  <2>5. Receipt(p)'
    BY <2>2, <2>3 DEF Receipt, Reading, AdapterInv, InState, DraftBefore, Identified
  <2>. QED BY <2>1, <2>2, <2>4, <2>5, AdapterStep
<1>6. ASSUME NEW p \in Operator, Transport(p) PROVE AdapterInv'
  <2>. USE <1>6 DEF Transport, Ends
  <2>1. op' = [op EXCEPT ![p] = op'[p]] /\ answer' = [answer EXCEPT ![p] = answer'[p]]
    BY DEF AdapterInv
  <2>2. pr' \in PullRequest /\ pr'.head = pr.head /\ resets' = resets
    BY DEF AdapterInv, PullRequest
  <2>3. Reading(p) /\ Receipt(p)
    BY DEF AdapterInv
  <2>4. Reading(p)'
    BY <2>2, <2>3 DEF Reading, AdapterInv, InState, DraftBefore
  <2>5. Receipt(p)'
    BY <2>2, <2>3 DEF Receipt, Reading, AdapterInv, InState, DraftBefore, Identified
  <2>. QED BY <2>1, <2>2, <2>4, <2>5, AdapterStep
<1>7. ASSUME NEW p \in Operator, ReadAfter(p) PROVE AdapterInv'
  <2>. USE <1>7 DEF ReadAfter, Ends
  <2>1. op' = [op EXCEPT ![p] = op'[p]] /\ answer' = [answer EXCEPT ![p] = answer'[p]]
    BY DEF AdapterInv
  <2>2. pr' \in PullRequest /\ pr'.head = pr.head /\ resets' = resets
    BY DEF AdapterInv, PullRequest
  <2>3. Reading(p) /\ Receipt(p)
    BY DEF AdapterInv
  <2>0. \A v : /\ op' = [op EXCEPT ![p] = v] => op'[p] = v
               /\ answer' = [answer EXCEPT ![p] = v] => answer'[p] = v
    BY DEF AdapterInv
  <2>. HIDE <1>7
  <2>6. op'[p].stage = "idle"
    <3>1. op' = [op EXCEPT ![p] = NoOperation]
      BY <1>7, Zenon
    <3>. QED BY <3>1, <2>0
  <2>7. \/ answer'[p].kind # "receipt"
        \/ /\ answer'[p].of = op[p].of /\ answer'[p].before = op[p].before /\ answer'[p].hit = op[p].hit
           /\ answer'[p].reset = (resets > op[p].since)
           /\ pr.head = Bound /\ op[p].stage = "after"
    <3>1. CASE Identified(pr) /\ InState(pr, DraftAfter(op[p].of))
      <4>1. /\ op[p].stage = "after"
            /\ answer' = [answer EXCEPT ![p] = [kind |-> "receipt", of |-> op[p].of, before |-> op[p].before,
                                                after |-> pr, hit |-> op[p].hit,
                                                reset |-> resets > op[p].since]]
        BY <1>7, <3>1, Zenon
      <4>. QED BY <4>1, <2>0, <3>1, ZenonT(40) DEF Identified
    <3>2. CASE ~(Identified(pr) /\ InState(pr, DraftAfter(op[p].of)))
      <4>1. answer' = [answer EXCEPT ![p] = [kind |-> "postcondition error", of |-> op[p].of, called |-> TRUE]]
        BY <1>7, <3>2, Zenon
      <4>. QED BY <4>1, <2>0
    <3>. QED BY <3>1, <3>2, Zenon
  <2>4. Reading(p)'
    BY <2>6 DEF Reading
  <2>5. Receipt(p)'
    BY <2>7, <2>3 DEF Receipt, Reading, InState, DraftBefore
  <2>. QED BY <2>1, <2>2, <2>4, <2>5, AdapterStep
<1>8. CASE Move
  <2>1. op' = op /\ answer' = answer /\ resets' = resets
    BY <1>8 DEF Move
  <2>2. pr' \in PullRequest /\ pr'.head = pr.head
    BY <1>8 DEF Move, PullRequest, AdapterInv
  <2>. QED BY <2>1, <2>2 DEF AdapterInv, Reading, Receipt, InState, DraftBefore
<1>12. CASE MoveHead
  <2>1. op' = op /\ answer' = answer
    BY <1>12 DEF MoveHead
  <2>2. PICK h \in Revision \ {pr.head} :
          pr' = [pr EXCEPT !.head = h] /\ resets' = IF h = Bound THEN resets + 1 ELSE resets
    BY <1>12 DEF MoveHead
  <2>3. pr' \in PullRequest /\ pr'.head = h
    BY <2>2 DEF PullRequest, AdapterInv
  <2>4. resets' \in Nat /\ resets <= resets' /\ (pr'.head = Bound => resets' > resets)
    BY <2>2, <2>3 DEF AdapterInv
  <2>5. \A p \in Operator : Reading(p)'
    <3>. SUFFICES ASSUME NEW p \in Operator PROVE Reading(p)'
      OBVIOUS
    <3>1. Reading(p) /\ op'[p] = op[p] /\ resets \in Nat
      BY <2>1 DEF AdapterInv
    <3>2. op[p].stage \in {"call", "after"} => InState(op'[p].before, DraftBefore(op'[p].of))
      BY <3>1 DEF Reading
    <3>3. op[p].stage = "after" =>
            /\ op[p].since \in Nat /\ op[p].since <= resets'
            /\ op[p].hit = Bound \/ pr'.head # Bound \/ resets' > op[p].since
      BY <2>4, <3>1 DEF Reading
    <3>. QED BY <3>1, <3>2, <3>3 DEF Reading
  <2>6. \A p \in Operator : Receipt(p)'
    BY <2>1 DEF AdapterInv, Receipt, InState, DraftBefore
  <2>. QED BY <2>1, <2>3, <2>4, <2>5, <2>6 DEF AdapterInv
<1>9. ASSUME UNCHANGED <<pr, op, answer, resets>> PROVE AdapterInv'
  BY <1>9 DEF AdapterInv, Reading, Receipt, InState, DraftBefore
<1>10. CASE PrepareRequest \/ DryRun \/ AssessBoundary \/ ReportCalibration
            \/ ReviewProduction \/ EditArtifact \/ Claim
  BY <1>9, <1>10 DEF PrepareRequest, DryRun, AssessBoundary, ReportCalibration,
     ReviewProduction, EditArtifact, Claim, Keep
<1>11. CASE UNCHANGED governedVars
  BY <1>9, <1>11 DEF governedVars
<1>. QED
  BY <1>1, <1>2, <1>3, <1>4, <1>5, <1>6, <1>7, <1>8, <1>10, <1>11, <1>12 DEF GovernedNext

(* What an artifact says that no edit takes back, as far as its verifier   *)
(* does not ask for it again.                                              *)
Said(a) ==
  /\ a.kind \in {"request", "dry run", "boundary", "calibration", "review"}
  /\ a.kind = "dry run" => a.raw = [f \in DOMAIN a.raw |-> a.raw[f]] /\ "request" \in DOMAIN a.raw /\ ~a.raw.request.granted
  /\ a.kind = "boundary" => a.raw = [f \in DOMAIN a.raw |-> a.raw[f]] /\ "facts" \in DOMAIN a.raw /\ a.raw.facts \subseteq Fact
  /\ a.kind = "review" => a.raw = [f \in DOMAIN a.raw |-> a.raw[f]] /\ "references" \in DOMAIN a.raw
                          /\ a.raw.references \subseteq Evidence

ArtifactInv == artifact # Nothing => DOMAIN artifact = {"kind", "raw", "derived"} /\ Said(artifact)

LEMMA DerivedPassed ==
  ASSUME NEW r
  PROVE  /\ DryRunDerived(r).passed => \A c \in Check : r.checks[c]
         /\ BoundaryDerived(r).passed => /\ Fact \subseteq r.facts
                                                 /\ r.reach = {r.repository} /\ r.adapter = r.repository
         /\ CalibrationDerived(r).passed => PreDispatchBlockers(r) = {}
         /\ ReviewDerived(r).passed => Evidence \subseteq r.references /\ r.boundary
<1>1. DryRunDerived(r).passed => \A c \in Check : r.checks[c]
  <2>. DEFINE failed == {c \in Check : ~r.checks[c]}
  <2>1. DryRunDerived(r).passed = (failed = {})
    BY DEF DryRunDerived
  <2>. QED BY <2>1
<1>2. BoundaryDerived(r).passed => /\ Fact \subseteq r.facts
                                          /\ r.reach = {r.repository} /\ r.adapter = r.repository
  <2>. DEFINE unmet == {f \in Fact : f \notin r.facts}
              far == IF r.reach # {r.repository} \/ r.repository = Nothing THEN {"installation"} ELSE {}
              other == IF r.adapter # r.repository \/ r.repository = Nothing THEN {"surfaces"} ELSE {}
  <2>1. BoundaryDerived(r).passed = (unmet \cup far \cup other = {})
    BY DEF BoundaryDerived
  <2>. SUFFICES ASSUME unmet = {}, far = {}, other = {}
                PROVE  /\ Fact \subseteq r.facts
                       /\ r.reach = {r.repository} /\ r.adapter = r.repository
    BY <2>1
  <2>. QED OBVIOUS
<1>3. CalibrationDerived(r).passed => PreDispatchBlockers(r) = {}
  <2>. DEFINE pre == PreDispatchBlockers(r)
              odd == {b \in {"attempted", "rollback attempted"} : b \in r.did}
              missing == {b \in {"suppressed", "restored"} : b \notin r.did}
  <2>. SUFFICES ASSUME pre # {} PROVE ~CalibrationDerived(r).passed
    OBVIOUS
  <2>1. CalibrationDerived(r).passed = (pre \cup odd \cup missing = {})
    BY DEF CalibrationDerived
  <2>. QED BY <2>1
<1>4. ReviewDerived(r).passed => Evidence \subseteq r.references /\ r.boundary
  <2>. DEFINE unproven == {<<e, "not proven">> : e \in Evidence \ r.proven}
              partial == {<<e, "incomplete">> : e \in (Evidence \cap r.proven) \ r.references}
              outside == IF r.boundary THEN {} ELSE {<<"boundary", "not authorized">>}
  <2>1. ReviewDerived(r).passed = (unproven \cup partial \cup outside = {})
    BY DEF ReviewDerived
  <2>. SUFFICES ASSUME unproven = {}, partial = {}, outside = {}
                PROVE  Evidence \subseteq r.references /\ r.boundary
    BY <2>1
  <2>2. ASSUME NEW e \in Evidence PROVE e \in r.references
    <3>1. e \in r.proven
      <4>1. e \notin r.proven => <<e, "not proven">> \in unproven
        OBVIOUS
      <4>. QED BY <4>1
    <3>2. e \notin r.references => <<e, "incomplete">> \in partial
      BY <3>1
    <3>. QED BY <3>2
  <2>3. r.boundary
    OBVIOUS
  <2>. QED BY <2>2, <2>3
<1>. QED BY <1>1, <1>2, <1>3, <1>4

(* The verifiers, kind by kind.                                            *)
LEMMA SaidIsEarned == ArtifactInv => PassesAreEarned
<1>. SUFFICES ASSUME ArtifactInv, artifact # Nothing, Verifies(artifact), artifact.derived.passed
              PROVE  PassesAreEarned
  BY DEF PassesAreEarned
<1>. DEFINE a == artifact
            r == artifact.raw
<1>0. Said(a)
  BY DEF ArtifactInv
<1>1. CASE a.kind = "request"
  <2>1. ~r.granted /\ r.state = "PREPARED"
    BY <1>1 DEF Verifies, RequestVerifies
  <2>. QED BY <1>1, <2>1 DEF PassesAreEarned
<1>2. CASE a.kind = "dry run"
  <2>1. DryRunVerifies(a)
    BY <1>2 DEF Verifies
  <2>3. \A c \in Check : r.checks[c]
    BY <2>1, DerivedPassed DEF DryRunVerifies
  <2>4. r.defects = {}
    BY <2>1, <2>3 DEF DryRunVerifies, Check
  <2>5. ~r.request.granted
    BY <1>0, <1>2 DEF Said
  <2>. QED BY <1>2, <2>3, <2>4, <2>5 DEF PassesAreEarned
<1>3. CASE a.kind = "boundary"
  <2>1. a.derived = BoundaryDerived(r)
    BY <1>3 DEF Verifies, BoundaryVerifies
  <2>2. Fact \subseteq r.facts /\ r.reach = {r.repository} /\ r.adapter = r.repository
    BY <2>1, DerivedPassed
  <2>3. r.facts = Fact
    BY <1>0, <1>3, <2>2 DEF Said
  <2>. QED BY <1>3, <2>2, <2>3 DEF PassesAreEarned
<1>4. CASE a.kind = "calibration"
  <2>1. CalibrationVerifies(a)
    BY <1>4 DEF Verifies
  <2>2. PreDispatchBlockers(r) = {}
    BY <2>1, DerivedPassed DEF CalibrationVerifies
  <2>3. {"scoped", "proven"} \subseteq r.credential /\ PreDispatch \subseteq r.pre
    BY <2>2 DEF PreDispatchBlockers
  <2>4. r.readback = Seen(FALSE, r.head) /\ r.final = Seen(TRUE, r.head)
    BY <2>1, <2>2 DEF CalibrationVerifies
  <2>. QED BY <1>4, <2>3, <2>4 DEF PassesAreEarned
<1>5. CASE a.kind = "review"
  <2>1. a.derived = ReviewDerived(r) /\ r.boundary = r.authorization
    BY <1>5 DEF Verifies, ReviewVerifies
  <2>2. Evidence \subseteq r.references /\ r.boundary
    BY <2>1, DerivedPassed
  <2>3. r.references = Evidence
    BY <1>0, <1>5, <2>2 DEF Said
  <2>4. r.authorization
    BY <2>1, <2>2, Zenon
  <2>. QED BY <1>5, <2>3, <2>4 DEF PassesAreEarned
<1>. QED BY <1>0, <1>1, <1>2, <1>3, <1>4, <1>5 DEF Said


LEMMA ArtifactInit == GovernedInit => ArtifactInv
BY DEF GovernedInit, ArtifactInv

LEMMA MadeSaid ==
  ASSUME NEW kind, NEW r, artifact' = Document(kind, r), Said([kind |-> kind, raw |-> r, derived |-> 0])
  PROVE  ArtifactInv'
<1>1. artifact'.kind = kind /\ artifact'.raw = r /\ DOMAIN artifact' = {"kind", "raw", "derived"}
  BY DEF Document
<1>2. Said(artifact')
  BY <1>1 DEF Said
<1>. QED BY <1>1, <1>2 DEF ArtifactInv, Said

(* An edit of one field leaves the others.                                 *)
LEMMA EditedSaid ==
  ASSUME NEW a, Said(a), NEW r \in Edited(a.raw, a.kind)
  PROVE  Said([kind |-> a.kind, raw |-> r, derived |-> 0])
<1>. DEFINE q == a.raw
            new == [kind |-> a.kind, raw |-> r, derived |-> 0]
<1>1. CASE a.kind = "dry run"
  <2>1. r \in {[q EXCEPT !.checks = Flipped(@, c)] : c \in Check}
              \cup {[q EXCEPT !.defects = Toggled(@, d)] : d \in Defect}
              \cup {[q EXCEPT !.reported = Toggled(@, d)] : d \in Defect}
    <3>1. r \in EditedDryRun(q)
      BY <1>1 DEF Edited
    <3>. QED BY <3>1 DEF EditedDryRun
  <2>2. q = [f \in DOMAIN q |-> q[f]] /\ "request" \in DOMAIN q /\ ~q.request.granted
    BY <1>1 DEF Said
  <2>3. ASSUME NEW f \in {"checks", "defects", "reported"}, NEW v, r = [q EXCEPT ![f] = v]
        PROVE  r = [g \in DOMAIN r |-> r[g]] /\ "request" \in DOMAIN r /\ r.request = q.request
    BY <2>2, <2>3
  <2>4. r = [g \in DOMAIN r |-> r[g]] /\ "request" \in DOMAIN r /\ r.request = q.request
    <3>1. CASE r \in {[q EXCEPT !.checks = Flipped(@, c)] : c \in Check}
      BY <3>1, <2>3
    <3>2. CASE r \in {[q EXCEPT !.defects = Toggled(@, d)] : d \in Defect}
      BY <3>2, <2>3
    <3>3. CASE r \in {[q EXCEPT !.reported = Toggled(@, d)] : d \in Defect}
      BY <3>3, <2>3
    <3>. QED BY <2>1, <3>1, <3>2, <3>3
  <2>. QED BY <1>1, <2>2, <2>4 DEF Said
<1>2. CASE a.kind = "boundary"
  <2>1. r \in {[q EXCEPT !.facts = Toggled(@, f)] : f \in Fact}
              \cup {[q EXCEPT !.reach = Toggled(@, x)] : x \in {"calibration", "production"}}
              \cup {[q EXCEPT !.repository = x] : x \in {"production", Nothing}}
    <3>1. r \in EditedBoundary(q)
      BY <1>2 DEF Edited
    <3>. QED BY <3>1 DEF EditedBoundary
  <2>2. q = [f \in DOMAIN q |-> q[f]] /\ "facts" \in DOMAIN q /\ q.facts \subseteq Fact
    BY <1>2 DEF Said
  <2>3. r = [f \in DOMAIN r |-> r[f]] /\ "facts" \in DOMAIN r /\ r.facts \subseteq Fact
    <3>1. CASE r \in {[q EXCEPT !.facts = Toggled(@, f)] : f \in Fact}
      <4>1. PICK f \in Fact : r = [q EXCEPT !.facts = Toggled(@, f)]
        BY <3>1
      <4>. QED BY <4>1, <2>2 DEF Toggled
    <3>2. CASE r \in {[q EXCEPT !.reach = Toggled(@, x)] : x \in {"calibration", "production"}}
      <4>1. PICK x : r = [q EXCEPT !.reach = Toggled(@, x)]
        BY <3>2
      <4>. QED BY <4>1, <2>2
    <3>3. CASE r \in {[q EXCEPT !.repository = x] : x \in {"production", Nothing}}
      <4>1. PICK x : r = [q EXCEPT !.repository = x]
        BY <3>3
      <4>. QED BY <4>1, <2>2
    <3>. QED BY <2>1, <3>1, <3>2, <3>3
  <2>. QED BY <1>2, <2>3 DEF Said
<1>3. CASE a.kind = "review"
  <2>1. r \in {[q EXCEPT !.proven = Toggled(@, e)] : e \in Evidence \cup {"source head"}}
              \cup {[q EXCEPT !.references = Toggled(@, e)] : e \in Evidence}
              \cup {[q EXCEPT !.boundary = ~@], [q EXCEPT !.authorization = ~@]}
    <3>1. r \in EditedReview(q)
      BY <1>3 DEF Edited
    <3>. QED BY <3>1 DEF EditedReview
  <2>2. q = [f \in DOMAIN q |-> q[f]] /\ "references" \in DOMAIN q /\ q.references \subseteq Evidence
    BY <1>3 DEF Said
  <2>3. r = [f \in DOMAIN r |-> r[f]] /\ "references" \in DOMAIN r /\ r.references \subseteq Evidence
    <3>1. CASE r \in {[q EXCEPT !.proven = Toggled(@, e)] : e \in Evidence \cup {"source head"}}
      <4>1. PICK e : r = [q EXCEPT !.proven = Toggled(@, e)]
        BY <3>1
      <4>. QED BY <4>1, <2>2
    <3>2. CASE r \in {[q EXCEPT !.references = Toggled(@, e)] : e \in Evidence}
      <4>1. PICK e \in Evidence : r = [q EXCEPT !.references = Toggled(@, e)]
        BY <3>2
      <4>. QED BY <4>1, <2>2 DEF Toggled
    <3>3. CASE r \in {[q EXCEPT !.boundary = ~@], [q EXCEPT !.authorization = ~@]}
      BY <3>3, <2>2
    <3>. QED BY <2>1, <3>1, <3>2, <3>3
  <2>. QED BY <1>3, <2>3 DEF Said
<1>. QED BY <1>1, <1>2, <1>3 DEF Said

LEMMA ArtifactNext ==
  ASSUME Dossiers \subseteq SUBSET Evidence, ArtifactInv, [GovernedNext]_governedVars
  PROVE  ArtifactInv'
<1>1. ASSUME UNCHANGED artifact PROVE ArtifactInv'
  BY <1>1 DEF ArtifactInv, Said
<1>2. CASE PrepareRequest
  <2>1. PICK r : artifact' = Document("request", r)
    BY <1>2 DEF PrepareRequest, Keep
  <2>. QED BY <2>1, MadeSaid DEF Said
<1>3. CASE DryRun
  <2>1. PICK failed, defects : artifact' = Document("dry run", DryRunRaw(artifact.raw, Check \ failed, defects))
    BY <1>3 DEF DryRun
  <2>. DEFINE r == DryRunRaw(artifact.raw, Check \ failed, defects)
  <2>2. ~artifact.raw.granted
    BY <1>3 DEF DryRun, Verifies, RequestVerifies
  <2>3. r = [f \in DOMAIN r |-> r[f]] /\ "request" \in DOMAIN r /\ ~r.request.granted
    BY <2>2 DEF DryRunRaw
  <2>. QED BY <2>1, <2>3, MadeSaid DEF Said
<1>4. CASE AssessBoundary
  <2>1. PICK missing, adapter, reach :
          artifact' = Document("boundary", [facts |-> Fact \ missing, repository |-> "calibration",
                                                 adapter |-> adapter, reach |-> reach])
    BY <1>4 DEF AssessBoundary, Keep
  <2>. DEFINE r == [facts |-> Fact \ missing, repository |-> "calibration", adapter |-> adapter, reach |-> reach]
  <2>2. r = [f \in DOMAIN r |-> r[f]] /\ "facts" \in DOMAIN r /\ r.facts \subseteq Fact
    OBVIOUS
  <2>. QED BY <2>1, <2>2, MadeSaid DEF Said
<1>5. CASE ReportCalibration
  <2>1. PICK r : artifact' = Document("calibration", r)
    BY <1>5 DEF ReportCalibration, Keep
  <2>. QED BY <2>1, MadeSaid DEF Said
<1>6. CASE ReviewProduction
  <2>1. PICK boundary \in BOOLEAN, dossier \in Dossiers : artifact' = Document("review", ReviewRaw(boundary, dossier))
    BY <1>6 DEF ReviewProduction, Keep
  <2>. DEFINE r == ReviewRaw(boundary, dossier)
  <2>2. r = [f \in DOMAIN r |-> r[f]] /\ "references" \in DOMAIN r /\ r.references \subseteq Evidence
    BY DEF ReviewRaw
  <2>. QED BY <2>1, <2>2, MadeSaid DEF Said
<1>7. CASE EditArtifact
  <2>1. PICK r \in Edited(artifact.raw, artifact.kind) : artifact' = Document(artifact.kind, r)
    BY <1>7 DEF EditArtifact
  <2>2. Said(artifact)
    BY <1>7 DEF EditArtifact, ArtifactInv
  <2>. QED BY <2>1, <2>2, EditedSaid, MadeSaid
<1>8. CASE Claim
  <2>1. PICK d : artifact' = [artifact EXCEPT !.derived = d]
    BY <1>8 DEF Claim
  <2>2. artifact # Nothing
    BY <1>8 DEF Claim
  <2>3. DOMAIN artifact' = DOMAIN artifact /\ artifact'.kind = artifact.kind /\ artifact'.raw = artifact.raw
    BY <2>1, <2>2 DEF ArtifactInv
  <2>. QED BY <2>2, <2>3 DEF ArtifactInv, Said
<1>9. ASSUME NEW p \in Operator,
             \/ \E o \in Operation : Begin(p, o)
             \/ ReadBefore(p) \/ Call(p) \/ ReadAfter(p) \/ Transport(p) \/ CallWithoutEffect(p) \/ CallFails(p)
      PROVE  ArtifactInv'
  <2>1. UNCHANGED artifact
    BY <1>9 DEF Begin, Transport, CallWithoutEffect, CallFails,
       ReadBefore, Call, ReadAfter
  <2>. QED BY <1>1, <2>1
<1>10. CASE MoveHead \/ Move
  BY <1>1, <1>10 DEF MoveHead, Move
<1>11. CASE UNCHANGED governedVars
  BY <1>1, <1>11 DEF governedVars
<1>. QED
  BY <1>2, <1>3, <1>4, <1>5, <1>6, <1>7, <1>8, <1>9, <1>10, <1>11 DEF GovernedNext

(* A call that hit another head than the bound one gets a receipt only if  *)
(* the branch was reset to the bound head after it, and no call gets one   *)
(* that began in another state than it needs. Pushes may go anywhere.      *)
THEOREM StrayReceipts == GovernedSpec => []StrayReceiptsTakeAReset
<1>1. AdapterInv => StrayReceiptsTakeAReset
  BY DEF AdapterInv, Receipt, StrayReceiptsTakeAReset
<1>2. AdapterInv /\ [GovernedNext]_governedVars => AdapterInv'
  BY AdapterGoesOn, BoundAssumption
<1>3. GovernedInit => AdapterInv
  BY AdapterStarts, BoundAssumption
<1>. QED BY <1>1, <1>2, <1>3, PTL DEF GovernedSpec

(* Whatever an artifact of the execution boundary is edited into, a        *)
(* verifier passes only what its builder would have passed.                *)
THEOREM ArtifactsEarnTheirPass == GovernedSpec => []PassesAreEarned
<1>1. ArtifactInv /\ [GovernedNext]_governedVars => ArtifactInv'
  BY ArtifactNext, DossierAssumption
<1>. QED BY ArtifactInit, SaidIsEarned, <1>1, PTL DEF GovernedSpec
=============================================================================
