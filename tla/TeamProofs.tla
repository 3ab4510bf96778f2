----------------------------- MODULE TeamProofs -----------------------------
(***************************************************************************)
(* Proofs about Team for any registry, any facts and any answers of the    *)
(* members: types, that a member is dispatched once, that the required     *)
(* personas are served, that a roster for wave 2 can always be had, who is *)
(* in it, how much both waves can come to, and that nobody waits for ever  *)
(* on a wave's semaphore.                                                  *)
(***************************************************************************)
EXTENDS Team, SequenceTheorems, FiniteSetTheorems, TLAPS

-----------------------------------------------------------------------------
(* What Compute guarantees, whatever triage and the members asked for.     *)

LEMMA RequiredArePersonas ==
    ASSUME NEW c \in FactsCase, NEW a
    PROVE  Required(c, a) \subseteq Persona
  BY DEF Required, FactsCase, TeamPersona

\* A team holds what capTeam put in: the floor and the escalations add to it,
\* and only registered personas.
LEMMA SelectedKeepsRequired ==
    ASSUME NEW c \in FactsCase, NEW a, NEW wave2
    PROVE  /\ Required(c, a) \subseteq Selected(c, a, wave2)
           /\ Selected(c, a, wave2) \subseteq Persona
<1> DEFINE required == Required(c, a)
           present  == AfterExcludes(required, Volunteers(c, a))
           capped   == CapTeam(required, Volunteers(c, a) \cap present)
           filled   == FillFloor(capped)
           asked    == c.escalations \o a.suggested \o wave2
<1> HIDE DEF present
<1>1. required \subseteq capped /\ capped \subseteq Persona
  <2>1. Volunteers(c, a) \subseteq Persona
    BY DEF Volunteers, FactsCase, TeamPersona
  <2>2. Best(TeamMax - Cardinality(required), Volunteers(c, a) \cap present)
            \subseteq Volunteers(c, a)
    BY DEF Best
  <2> QED
    BY <2>1, <2>2, RequiredArePersonas DEF CapTeam
<1>2. capped \subseteq filled /\ filled \subseteq Persona
  <2>1. Best(TeamMin - Cardinality(capped), Agent \ capped) \subseteq Persona
    BY DEF Best, Agent
  <2> QED
    BY <2>1, <1>1 DEF FillFloor
<1>3. filled \subseteq Escalate(filled, asked) /\ Escalate(filled, asked) \subseteq Persona
  BY <1>2 DEF Escalate
<1>4. Selected(c, a, wave2) = Escalate(filled, asked)
  BY DEF Selected, present
<1> QED
  BY <1>1, <1>2, <1>3, <1>4

\* enforceBudget drops no required member, and the roster has its type.
LEMMA ComputeKeepsRequired ==
    ASSUME NEW c \in FactsCase, NEW a, NEW wave2
    PROVE  /\ Required(c, a) \subseteq Compute(c, a, wave2).members
           /\ Compute(c, a, wave2) \in RosterType
<1> DEFINE team == Selected(c, a, wave2)
           required == Required(c, a)
           members == team \ OverBudget(team, required)
<1>1. required \subseteq team /\ team \subseteq Persona
  BY SelectedKeepsRequired
<1>2. OverBudget(team, required) \cap required = {}
  BY DEF OverBudget
<1>3. required \subseteq members /\ members \subseteq Persona
  BY <1>1, <1>2
<1>4. Compute(c, a, wave2) = [ok      |-> ~c.ruleError /\ ~Insufficient(c, members),
                              members |-> members,
                              skipped |-> SkippedOf(team)]
  BY DEF Compute
<1>5. SkippedOf(team) \subseteq TeamPersona
  BY DEF SkippedOf
<1> HIDE DEF members, team
<1> QED
  BY <1>3, <1>4, <1>5 DEF RosterType

-----------------------------------------------------------------------------
LEMMA TeamsAreFinite ==
    ASSUME NEW S \in SUBSET Persona
    PROVE  IsFiniteSet(S) /\ Cardinality(S) \in Nat
BY RegistryAssumption, FS_Subset, FS_CardinalityType

LEMMA TokensAreNatural == TypeOK => held \in Nat /\ capacity \in Nat
<1> SUFFICES ASSUME TypeOK PROVE held \in Nat /\ capacity \in Nat
  OBVIOUS
<1>1. held \in 0 .. Slots /\ capacity \in 0 .. Slots
  BY DEF TypeOK
<1> QED
  BY <1>1

\* A wave's semaphore has room for a member if the wave has one.
LEMMA DispatchMakesRoom ==
    ASSUME NEW members \in SUBSET Persona, Dispatch(members)
    PROVE  /\ queue' = members /\ held' = 0 /\ held' \in 0 .. Slots
           /\ capacity' \in 0 .. Slots /\ capacity' =< Slots
           /\ members # {} => capacity' > 0
<1>1. Slots \in Nat /\ Slots # 0
  BY RunAssumption
<1>2. Cardinality(members) \in Nat /\ IsFiniteSet(members)
  BY TeamsAreFinite
<1>3. members # {} => Cardinality(members) # 0
  BY <1>2, FS_EmptySet
<1>4. /\ held' = 0 /\ queue' = members
      /\ \/ Cardinality(members) < Slots /\ capacity' = Cardinality(members)
         \/ capacity' = Slots
  BY DEF Dispatch
<1>5. /\ held' \in 0 .. Slots /\ capacity' \in 0 .. Slots /\ capacity' =< Slots
      /\ members # {} => capacity' > 0
  BY ONLY <1>1, <1>2, <1>3, <1>4
<1> QED
  BY <1>4, <1>5

LEMMA TypeInit == Init => TypeOK
<1> SUFFICES ASSUME Init PROVE TypeOK
  OBVIOUS
<1> QED
  BY RunAssumption, SMTT(30) DEF Init, TypeOK, Stage, RosterType, NoRoster

LEMMA TypeStep == TypeOK /\ [Next]_vars => TypeOK'
<1> SUFFICES ASSUME TypeOK, [Next]_vars PROVE TypeOK'
  OBVIOUS
<1> USE DEF TypeOK, Stage
<1>1. facts \in FactsCase
  BY RunAssumption
<1>2. CASE Triage
  BY <1>2 DEF Triage
<1>3. CASE ComputeRoster
  <2>1. Compute(facts, assessment, <<>>) \in RosterType
    BY <1>1, ComputeKeepsRequired
  <2>2. RestrictToScope(Compute(facts, assessment, <<>>)) \in RosterType
    BY <2>1 DEF RestrictToScope, RosterType
  <2>3. RestrictToScope(Compute(facts, assessment, <<>>)).members \subseteq Persona
    BY <2>2 DEF RosterType
  <2>4. queue' \in SUBSET Persona /\ capacity' \in 0 .. Slots /\ held' \in 0 .. Slots
    BY <1>3, <2>3, DispatchMakesRoom DEF ComputeRoster
  <2> QED
    BY <1>3, <2>2, <2>4 DEF ComputeRoster
<1>4. CASE \E p \in Persona : Start(p)
  <2>1. capacity' \in 0 .. Slots /\ held' \in 0 .. Slots
    <3>1. held < capacity /\ held' = held + 1 /\ capacity' = capacity
      BY <1>4 DEF Start
    <3>2. held \in 0 .. Slots /\ capacity \in 0 .. Slots /\ Slots \in Nat
      BY RunAssumption
    <3> QED
      BY ONLY <3>1, <3>2
  <2> QED
    BY <1>4, <2>1 DEF Start
<1>5. CASE \E p \in Persona : Finish(p)
  <2>1. PICK p \in Persona : Finish(p)
    BY <1>5
  <2>2. status' \in [Persona -> {"none", "ok", "error"}]
    BY <2>1 DEF Finish
  <2>3. escalate' \in [Persona -> Seq(Persona \cup {Unknown})]
    <3>1. CASE UNCHANGED escalate
      BY <3>1
    <3>2. CASE \E ids \in IF Kind[p] = "deterministic" THEN {<<>>} ELSE Asks[p] :
                  escalate' = [escalate EXCEPT ![p] = ids]
      <4>1. PICK ids \in IF Kind[p] = "deterministic" THEN {<<>>} ELSE Asks[p] :
                  escalate' = [escalate EXCEPT ![p] = ids]
        BY <3>2
      <4>2. ids \in Seq(Persona \cup {Unknown})
        <5>1. Asks[p] \subseteq Seq(Persona \cup {Unknown})
          BY RunAssumption
        <5>2. <<>> \in Seq(Persona \cup {Unknown})
          BY EmptySeq
        <5> QED
          BY <4>1, <5>1, <5>2
      <4> QED
        BY <4>1, <4>2
    <3> QED
      BY <2>1, <3>1, <3>2 DEF Finish
  <2>4. capacity' \in 0 .. Slots /\ held' \in 0 .. Slots
    <3>1. held > 0 /\ held' = held - 1 /\ capacity' = capacity
      BY <2>1 DEF Finish
    <3>2. held \in 0 .. Slots /\ capacity \in 0 .. Slots /\ Slots \in Nat
      BY RunAssumption
    <3> QED
      BY ONLY <3>1, <3>2
  <2> QED
    BY <2>1, <2>2, <2>3, <2>4 DEF Finish
<1>6. CASE Collect
  <2>1. Recompute \in RosterType
    BY <1>1, ComputeKeepsRequired DEF Recompute
  <2>2. Newcomers(Recompute.members) \subseteq Persona
    BY <2>1 DEF Newcomers, RosterType
  <2>3. queue' \in SUBSET Persona /\ capacity' \in 0 .. Slots /\ held' \in 0 .. Slots
    BY <1>6, <2>2, DispatchMakesRoom DEF Collect
  <2> QED
    BY <1>6, <2>1, <2>3 DEF Collect
<1>7. CASE StampFindings
  BY <1>7 DEF StampFindings, RosterType
<1>8. CASE UNCHANGED vars
  BY <1>8 DEF vars
<1> QED
  BY <1>2, <1>3, <1>4, <1>5, <1>6, <1>7, <1>8 DEF Next, Terminated

\* The type invariant holds for every registry and every set of runs.
THEOREM TypeCorrect == Spec => []TypeOK
<1> QED
  BY TypeInit, TypeStep, PTL DEF Spec

-----------------------------------------------------------------------------
\* Who waits, who runs and who is done: a persona is at most one of them, and
\* nobody is any of them before the first roster.
Apart ==
    /\ queue \cap running = {}
    /\ \A p \in queue \cup running : status[p] = "none"
    /\ stage \in {"triage", "roster"} =>
          queue = {} /\ running = {} /\ \A p \in Persona : status[p] = "none"

LEMMA ApartStep == TypeOK /\ Apart /\ [Next]_vars => Apart'
<1> SUFFICES ASSUME TypeOK, Apart, [Next]_vars PROVE Apart'
  OBVIOUS
<1> USE DEF TypeOK, Stage, Apart
<1>1. CASE Triage
  BY <1>1 DEF Triage
<1>2. CASE ComputeRoster
  <2>1. facts \in FactsCase
    BY RunAssumption
  <2>2. Compute(facts, assessment, <<>>).members \subseteq Persona
    BY <2>1, ComputeKeepsRequired DEF RosterType
  <2>3. RestrictToScope(Compute(facts, assessment, <<>>)).members \subseteq Persona
    BY <2>1, <2>2, ComputeKeepsRequired DEF RestrictToScope, RosterType
  <2> QED
    BY <1>2, <2>3 DEF ComputeRoster, Dispatch
<1>3. CASE \E p \in Persona : Start(p)
  BY <1>3 DEF Start
<1>4. CASE \E p \in Persona : Finish(p)
  BY <1>4 DEF Finish
<1>5. CASE Collect
  BY <1>5 DEF Collect, Dispatch, Newcomers, Drained
<1>6. CASE StampFindings
  BY <1>6 DEF StampFindings
<1>7. CASE UNCHANGED vars
  BY <1>7 DEF vars
<1> QED
  BY <1>1, <1>2, <1>3, <1>4, <1>5, <1>6, <1>7 DEF Next, Terminated

LEMMA ApartAlways == Spec => []Apart
<1>1. Init => Apart
  BY DEF Init, Apart
<1> QED
  BY <1>1, ApartStep, TypeCorrect, PTL DEF Spec

\* A persona's outcome is never overwritten: neither the semaphore, nor a
\* failure, nor the recomputed roster dispatches a member again.
THEOREM MembersRunOnce == Spec => EachRunsOnce
<1> DEFINE Once == \A p \in Persona : status[p] # "none" =>
                      /\ status'[p] = status[p] /\ escalate'[p] = escalate[p]
                      /\ p \notin queue' \cup running'
<1>1. TypeOK /\ Apart /\ Apart' /\ [Next]_vars => [Once]_vars
  <2> SUFFICES ASSUME TypeOK, Apart, Apart', Next
               PROVE  Once
    OBVIOUS
  <2>1. ASSUME NEW p \in Persona, status[p] # "none"
        PROVE  status'[p] = status[p] /\ escalate'[p] = escalate[p]
    <3>1. CASE \E q \in Persona : Finish(q)
      <4>1. PICK q \in Persona : Finish(q)
        BY <3>1
      <4>2. q # p
        BY <4>1, <2>1 DEF Finish, Apart
      <4> QED
        BY <4>1, <4>2 DEF Finish, TypeOK
    <3> QED
      BY <3>1 DEF Next, Triage, ComputeRoster, Start, Collect, StampFindings,
                  Terminated, vars
  <2> QED
    BY <2>1 DEF Apart
<1> HIDE DEF Once
<1>2. Spec => [][Once]_vars
  BY <1>1, TypeCorrect, ApartAlways, PTL DEF Spec
<1> QED
  BY <1>2 DEF Once, EachRunsOnce

-----------------------------------------------------------------------------
Rostered == stage \in {"wave 1", "wave 2", "done"}

\* A rostered run has its required personas in scope among the final members,
\* each final member is done or about to run, and the done ones are stamped.
Serving ==
    /\ Rostered =>
          \A p \in Required(facts, assessment) : InScope(p) => p \in final.members
    /\ Rostered =>
          \A p \in final.members : status[p] # "none" \/ p \in queue \cup running
    /\ stage = "done" =>
          /\ Drained
          /\ \A p \in final.members : status[p] = "ok" => p \in stamped

LEMMA ServingStep == TypeOK /\ Serving /\ [Next]_vars => Serving'
<1> SUFFICES ASSUME TypeOK, Serving, [Next]_vars PROVE Serving'
  OBVIOUS
<1> USE DEF Rostered
<1>0. facts \in FactsCase
  BY RunAssumption DEF TypeOK
<1>1. CASE Triage
  BY <1>1 DEF Triage, Serving
<1>2. CASE ComputeRoster
  <2> DEFINE first == Compute(facts, assessment, <<>>)
             scoped == RestrictToScope(first)
  <2>1. Required(facts, assessment) \subseteq first.members /\ first \in RosterType
    BY <1>0, ComputeKeepsRequired
  <2>2. \A p \in Required(facts, assessment) : InScope(p) => p \in scoped.members
    BY <2>1 DEF RestrictToScope, InScope, RosterType
  <2>3. CASE first.ok
    <3>1. /\ final' = scoped /\ queue' = scoped.members /\ stage' = "wave 1"
          /\ UNCHANGED <<facts, assessment, scope>>
      BY <1>2, <2>3 DEF ComputeRoster, Dispatch
    <3> HIDE DEF scoped
    <3> QED
      BY <2>2, <3>1 DEF Serving, InScope
  <2>4. CASE ~first.ok
    BY <1>2, <2>4 DEF ComputeRoster, Serving
  <2> QED
    BY <2>3, <2>4
<1>3. CASE \E p \in Persona : Start(p)
  BY <1>3 DEF Start, Serving, Drained, InScope
<1>4. CASE \E p \in Persona : Finish(p)
  <2>1. PICK p \in Persona : Finish(p)
    BY <1>4
  <2>2. p \in running /\ running' = running \ {p}
    BY <2>1 DEF Finish
  <2>3. status'[p] # "none" /\ \A q \in Persona \ {p} : status'[q] = status[q]
    BY <2>1 DEF Finish, TypeOK
  <2>4. UNCHANGED <<stage, facts, assessment, scope, final, queue, stamped>>
    BY <2>1 DEF Finish
  <2>5. final.members \subseteq Persona
    BY DEF TypeOK, RosterType
  <2> QED
    BY <2>2, <2>3, <2>4, <2>5 DEF Serving, Drained, InScope
<1>5. CASE Collect
  <2>1. CASE UNCHANGED <<final, queue>>
    BY <1>5, <2>1 DEF Collect, Serving, Drained, InScope
  <2>2. CASE final' = Recompute /\ queue' = Newcomers(Recompute.members)
    <3>1. Required(facts, assessment) \subseteq Recompute.members
      BY <1>0, ComputeKeepsRequired DEF Recompute
    <3> QED
      BY <1>5, <2>2, <3>1 DEF Collect, Serving, Newcomers, InScope
  <2> QED
    BY <1>5, <2>1, <2>2 DEF Collect, Dispatch
<1>6. CASE StampFindings
  BY <1>6 DEF StampFindings, Serving, Drained, InScope
<1>7. CASE UNCHANGED vars
  BY <1>7 DEF vars, Serving, Drained, InScope
<1> QED
  BY <1>1, <1>2, <1>3, <1>4, <1>5, <1>6, <1>7 DEF Next, Terminated

\* Whatever the registry, the limits, the escalations and the failures, a run
\* that completes has run the required personas of its scope and publishes
\* what they answered.
THEOREM RequiredAreServed == Spec => []RequiredServed
<1>1. Init => Serving
  BY DEF Init, Serving, Rostered
<1>2. Serving => RequiredServed
  BY DEF Serving, RequiredServed, Rostered, Drained
<1> QED
  BY <1>1, <1>2, ServingStep, TypeCorrect, PTL DEF Spec
-----------------------------------------------------------------------------
(* Sums of tokens.  The fold is a function on the subsets of a team; what  *)
(* it satisfies is shown by looking at a smallest team that does not.      *)

LEMMA LeastNatural ==
    ASSUME NEW T, T \subseteq Nat, T # {}
    PROVE  \E x \in T : \A y \in T : x =< y
<1>1. PICK x \in T : \A y \in T : ~(<<y, x>> \in OpToRel(<, Nat))
  BY NatLessThanWellFounded, WFMin
<1>2. \A y \in T : ~(y < x)
  BY <1>1 DEF OpToRel
<1>3. \A y \in T : x \in Nat /\ y \in Nat
  OBVIOUS
<1>4. \A y \in T : x =< y
  BY <1>2, <1>3
<1> QED
  BY <1>4

LEMMA Smallest ==
    ASSUME NEW U, IsFiniteSet(U), NEW F, F \subseteq SUBSET U, F # {}
    PROVE  \E S \in F : \A T \in F : Cardinality(S) =< Cardinality(T)
<1> DEFINE sizes == {Cardinality(S) : S \in F}
<1>1. sizes \subseteq Nat /\ sizes # {}
  BY FS_Subset, FS_CardinalityType
<1>2. PICK n \in sizes : \A m \in sizes : n =< m
  BY <1>1, LeastNatural
<1> QED
  BY <1>2

LEMMA SmallestTeam ==
    ASSUME NEW F, F \subseteq SUBSET Persona, F # {}
    PROVE  \E S \in F : \A T \in F : Cardinality(S) =< Cardinality(T)
BY Smallest, RegistryAssumption

LEMMA OneLess ==
    ASSUME NEW S \in SUBSET Persona, NEW p \in S
    PROVE  S \ {p} \in SUBSET Persona /\ Cardinality(S \ {p}) = Cardinality(S) - 1
BY TeamsAreFinite, FS_RemoveElement

Chosen(S) == CHOOSE p \in S : TRUE

Summing(S, sum) ==
    sum = [s \in SUBSET S |->
              IF s = {} THEN 0 ELSE Tokens[Chosen(s)] + sum[s \ {Chosen(s)}]]

LEMMA ChosenIsMember == ASSUME NEW S, S # {} PROVE Chosen(S) \in S
BY DEF Chosen

LEMMA TotalIsSumming == \A S : TotalTokens(S) = (CHOOSE sum : Summing(S, sum))[S]
BY DEF TotalTokens, FoldSet, MapThenFoldSet, Summing, Chosen

LEMMA SummingIsUnique ==
    ASSUME NEW S \in SUBSET Persona, NEW f, NEW g, Summing(S, f), Summing(S, g)
    PROVE  f = g
<1> DEFINE differ == {s \in SUBSET S : f[s] # g[s]}
<1>1. SUFFICES ASSUME differ # {} PROVE FALSE
  BY DEF Summing
<1>2. PICK s \in differ : \A t \in differ : Cardinality(s) =< Cardinality(t)
  BY <1>1, SmallestTeam
<1>3. s # {}
  BY <1>2 DEF Summing
<1>4. Chosen(s) \in s /\ s \ {Chosen(s)} \in SUBSET S
  BY <1>2, <1>3, ChosenIsMember
<1>5. s \ {Chosen(s)} \notin differ
  BY <1>2, <1>4, OneLess, TeamsAreFinite
<1>6. f[s] = g[s]
  BY <1>2, <1>3, <1>4, <1>5 DEF Summing
<1> QED
  BY <1>2, <1>6

Unfolds(S) ==
    TotalTokens(S) = IF S = {} THEN 0 ELSE Tokens[Chosen(S)] + TotalTokens(S \ {Chosen(S)})

LEMMA TotalUnfolds == \A S \in SUBSET Persona : Unfolds(S)
<1> DEFINE wrong == {S \in SUBSET Persona : ~Unfolds(S)}
<1>1. SUFFICES ASSUME wrong # {} PROVE FALSE
  OBVIOUS
<1>2. PICK S \in wrong : \A T \in wrong : Cardinality(S) =< Cardinality(T)
  BY <1>1, SmallestTeam
<1>3. S \in SUBSET Persona
  BY <1>2
<1> DEFINE sum == [s \in SUBSET S |->
                     IF s = {} THEN 0 ELSE Tokens[Chosen(s)] + TotalTokens(s \ {Chosen(s)})]
<1>4. Summing(S, sum)
  <2> SUFFICES ASSUME NEW s \in SUBSET S, s # {}
               PROVE  sum[s \ {Chosen(s)}] = TotalTokens(s \ {Chosen(s)})
    BY DEF Summing
  <2>1. Chosen(s) \in s /\ s \ {Chosen(s)} \in SUBSET S
    BY ChosenIsMember
  <2>2. Cardinality(s \ {Chosen(s)}) < Cardinality(S)
    <3>1. Cardinality(s) =< Cardinality(S)
      BY <1>3, TeamsAreFinite, FS_Subset
    <3> QED
      BY <1>3, <2>1, <3>1, OneLess, TeamsAreFinite
  <2>3. Unfolds(s \ {Chosen(s)})
    BY <1>2, <1>3, <2>1, <2>2, TeamsAreFinite
  <2> QED
    BY <2>1, <2>3 DEF Unfolds
<1> HIDE DEF sum
<1>5. (CHOOSE f : Summing(S, f)) = sum
  BY <1>3, <1>4, SummingIsUnique
<1>6. TotalTokens(S) = sum[S]
  BY <1>5, TotalIsSumming
<1>7. Unfolds(S)
  BY <1>6 DEF Unfolds, sum
<1> QED
  BY <1>2, <1>7

LEMMA TotalIsNatural == \A S \in SUBSET Persona : TotalTokens(S) \in Nat
<1> DEFINE wrong == {S \in SUBSET Persona : TotalTokens(S) \notin Nat}
<1>1. SUFFICES ASSUME wrong # {} PROVE FALSE
  OBVIOUS
<1>2. PICK S \in wrong : \A T \in wrong : Cardinality(S) =< Cardinality(T)
  BY <1>1, SmallestTeam
<1>0. Unfolds(S)
  BY <1>2, TotalUnfolds
<1>3. S # {}
  <2>1. S = {} => TotalTokens(S) = 0
    BY <1>0 DEF Unfolds
  <2> QED
    BY <1>2, <2>1
<1>4. Chosen(S) \in S /\ Tokens[Chosen(S)] \in Nat
  BY <1>2, <1>3, ChosenIsMember, RegistryAssumption
<1>5. TotalTokens(S \ {Chosen(S)}) \in Nat
  BY <1>2, <1>4, OneLess, TeamsAreFinite
<1>6. TotalTokens(S) = Tokens[Chosen(S)] + TotalTokens(S \ {Chosen(S)})
  BY <1>3, <1>0 DEF Unfolds
<1> QED
  BY <1>2, <1>4, <1>5, <1>6

\* Any member may be counted last.
TakesOut(S) == \A p \in S : TotalTokens(S) = Tokens[p] + TotalTokens(S \ {p})

LEMMA TotalTakesOut == \A S \in SUBSET Persona : TakesOut(S)
<1> DEFINE wrong == {S \in SUBSET Persona : ~TakesOut(S)}
<1>1. SUFFICES ASSUME wrong # {} PROVE FALSE
  OBVIOUS
<1>2. PICK S \in wrong : \A T \in wrong : Cardinality(S) =< Cardinality(T)
  BY <1>1, SmallestTeam
<1>3. PICK p \in S : TotalTokens(S) # Tokens[p] + TotalTokens(S \ {p})
  BY <1>2 DEF TakesOut
<1> DEFINE c == Chosen(S)
<1>4. c \in S /\ S \in SUBSET Persona
  BY <1>2, <1>3, ChosenIsMember
<1>5. TotalTokens(S) = Tokens[c] + TotalTokens(S \ {c})
  BY <1>2, <1>3, TotalUnfolds DEF Unfolds
<1> HIDE DEF c
<1>6. c # p
  BY <1>3, <1>5
<1>7. TakesOut(S \ {c}) /\ TakesOut(S \ {p})
  BY <1>2, <1>3, <1>4, OneLess, TeamsAreFinite
<1>8. TotalTokens(S \ {c}) = Tokens[p] + TotalTokens((S \ {c}) \ {p})
  BY <1>3, <1>6, <1>7 DEF TakesOut
<1>9. TotalTokens(S \ {p}) = Tokens[c] + TotalTokens((S \ {p}) \ {c})
  BY <1>4, <1>6, <1>7 DEF TakesOut
<1>10. (S \ {p}) \ {c} = (S \ {c}) \ {p}
  OBVIOUS
<1>11. /\ Tokens[c] \in Nat /\ Tokens[p] \in Nat
       /\ TotalTokens((S \ {c}) \ {p}) \in Nat
  BY <1>3, <1>4, RegistryAssumption, TotalIsNatural
<1>12. TotalTokens(S \ {p}) = Tokens[c] + TotalTokens((S \ {c}) \ {p})
  BY <1>9, <1>10
<1>13. TotalTokens(S) = Tokens[c] + (Tokens[p] + TotalTokens((S \ {c}) \ {p}))
  BY <1>5, <1>8
<1>14. TotalTokens(S) = Tokens[p] + TotalTokens(S \ {p})
  BY <1>11, <1>12, <1>13
<1> QED
  BY <1>3, <1>14

Adds(S) ==
    \A T \in SUBSET Persona : S \cap T = {} => TotalTokens(S \cup T) = TotalTokens(S) + TotalTokens(T)

LEMMA TotalAdds == \A S \in SUBSET Persona : Adds(S)
<1> DEFINE wrong == {S \in SUBSET Persona : ~Adds(S)}
<1>1. SUFFICES ASSUME wrong # {} PROVE FALSE
  OBVIOUS
<1>2. PICK S \in wrong : \A T \in wrong : Cardinality(S) =< Cardinality(T)
  BY <1>1, SmallestTeam
<1>3. PICK T \in SUBSET Persona :
        S \cap T = {} /\ TotalTokens(S \cup T) # TotalTokens(S) + TotalTokens(T)
  BY <1>2 DEF Adds
<1>4. CASE S = {}
  <2>1. TotalTokens(S) = 0 /\ S \cup T = T /\ TotalTokens(T) \in Nat
    BY <1>4, TotalUnfolds, TotalIsNatural DEF Unfolds
  <2> QED
    BY <1>3, <2>1
<1>5. CASE S # {}
  <2>1. PICK p \in S : TRUE
    BY <1>5
  <2>2. Adds(S \ {p})
    BY <1>2, <2>1, OneLess, TeamsAreFinite
  <2>3. TotalTokens((S \ {p}) \cup T) = TotalTokens(S \ {p}) + TotalTokens(T)
    BY <1>3, <2>2 DEF Adds
  <2>4. (S \cup T) \ {p} = (S \ {p}) \cup T /\ p \in S \cup T /\ S \cup T \in SUBSET Persona
    BY <1>2, <1>3, <2>1
  <2>5. TotalTokens(S \cup T) = Tokens[p] + TotalTokens((S \ {p}) \cup T)
    BY <2>4, TotalTakesOut DEF TakesOut
  <2>6. TotalTokens(S) = Tokens[p] + TotalTokens(S \ {p})
    BY <1>2, <2>1, TotalTakesOut DEF TakesOut
  <2>7. Tokens[p] \in Nat /\ TotalTokens(S \ {p}) \in Nat /\ TotalTokens(T) \in Nat
    BY <1>2, <1>3, <2>1, RegistryAssumption, TotalIsNatural
  <2> QED
    BY <1>3, <2>3, <2>5, <2>6, <2>7
<1> QED
  BY <1>4, <1>5

\* More members cost no less.
LEMMA TotalIsMonotone ==
    ASSUME NEW S \in SUBSET Persona, NEW T \in SUBSET S
    PROVE  TotalTokens(T) =< TotalTokens(S)
<1>1. T \cup (S \ T) = S /\ T \cap (S \ T) = {} /\ T \in SUBSET Persona /\ S \ T \in SUBSET Persona
  OBVIOUS
<1>2. TotalTokens(S) = TotalTokens(T) + TotalTokens(S \ T)
  BY <1>1, TotalAdds DEF Adds
<1> QED
  BY <1>1, <1>2, TotalIsNatural

\* Two teams together cost no more than each by itself.
LEMMA TotalOfBoth ==
    ASSUME NEW S \in SUBSET Persona, NEW T \in SUBSET Persona
    PROVE  TotalTokens(S \cup T) =< TotalTokens(S) + TotalTokens(T)
<1>1. S \cup T = S \cup (T \ S) /\ S \cap (T \ S) = {} /\ T \ S \in SUBSET Persona
  OBVIOUS
<1>2. TotalTokens(S \cup T) = TotalTokens(S) + TotalTokens(T \ S)
  BY <1>1, TotalAdds DEF Adds
<1>3. TotalTokens(T \ S) =< TotalTokens(T)
  BY TotalIsMonotone
<1> QED
  BY <1>1, <1>2, <1>3, TotalIsNatural

-----------------------------------------------------------------------------
(* The budget.                                                             *)

LEMMA BetterIsStrict ==
    /\ \A p \in Persona : ~Better(p, p)
    /\ \A p, q, r \in Persona : Better(p, q) /\ Better(q, r) => Better(p, r)
    /\ \A p, q \in Persona : Better(p, q) \/ Better(q, p) \/ p = q
<1>1. \A p \in Persona : p \in Nat /\ Priority[p] \in Int
  BY RegistryAssumption
<1> QED
  BY <1>1 DEF Better

\* Of any candidates one is worse than all others.
LEMMA SomeoneIsWorst ==
    ASSUME NEW S \in SUBSET Persona, S # {}
    PROVE  \E p \in S : \A q \in S : ~Better(p, q)
<1> DEFINE worse == [p \in S |-> {q \in S : Better(p, q)}]
           F == {worse[p] : p \in S}
<1>1. F \subseteq SUBSET Persona /\ F # {}
  OBVIOUS
<1>2. PICK W \in F : \A V \in F : Cardinality(W) =< Cardinality(V)
  BY <1>1, SmallestTeam
<1>3. PICK p \in S : W = worse[p]
  BY <1>2
<1>4. \A q \in S : ~Better(p, q)
  <2> SUFFICES ASSUME NEW q \in S, Better(p, q) PROVE FALSE
    OBVIOUS
  <2>1. worse[q] \subseteq W /\ q \in W /\ q \notin worse[q]
    BY <1>3, BetterIsStrict
  <2>2. Cardinality(worse[q]) =< Cardinality(W) /\ Cardinality(worse[q]) # Cardinality(W)
    BY <1>1, <1>2, <2>1, FS_Subset, TeamsAreFinite
  <2>3. Cardinality(W) =< Cardinality(worse[q])
    BY <1>2
  <2>4. Cardinality(W) \in Nat /\ Cardinality(worse[q]) \in Nat
    BY <1>1, <1>2, TeamsAreFinite
  <2> QED
    BY <2>2, <2>3, <2>4
<1> QED
  BY <1>4

\* What enforceBudget leaves fits, unless the required members alone do not.
LEMMA BudgetIsKept ==
    ASSUME NEW team \in SUBSET Persona, NEW required \in SUBSET team,
           TotalTokens(required) =< MaxTotalTokens
    PROVE  TotalTokens(team \ OverBudget(team, required)) =< MaxTotalTokens
<1> DEFINE members == team \ OverBudget(team, required)
           free == members \ required
<1>1. required \subseteq members /\ members \in SUBSET Persona
  BY DEF OverBudget
<1>2. CASE free = {}
  <2>1. members = required
    BY <1>1, <1>2
  <2> QED
    BY <2>1
<1>3. CASE free # {}
  <2>1. PICK p \in free : \A q \in free : ~Better(p, q)
    BY <1>1, <1>3, SomeoneIsWorst
  <2> DEFINE kept == team \ {q \in team \ required : Better(p, q)}
  <2>2. ~(TotalTokens(kept) > MaxTotalTokens)
    BY <2>1 DEF OverBudget
  <2>3. members \in SUBSET kept /\ kept \in SUBSET Persona
    BY <2>1
  <2> HIDE DEF kept, members
  <2>4. TotalTokens(members) =< TotalTokens(kept)
    BY <2>3, TotalIsMonotone
  <2>5. TotalTokens(members) \in Nat /\ TotalTokens(kept) \in Nat /\ MaxTotalTokens \in Nat
    BY <1>1, <2>3, TotalIsNatural, RegistryAssumption
  <2>6. TotalTokens(members) =< MaxTotalTokens
    BY <2>2, <2>4, <2>5
  <2> QED
    BY <2>6 DEF members
<1> QED
  BY <1>2, <1>3

\* Whether a fork's budget is enough depends on the required members only.
LEMMA ForkBudget ==
    ASSUME NEW c \in FactsCase, NEW a, NEW w1, NEW w2, Compute(c, a, w1).ok
    PROVE  /\ Compute(c, a, w2).ok
           /\ c.isFork => TotalTokens(Compute(c, a, w2).members) =< MaxTotalTokens
<1> DEFINE required == Required(c, a)
           Team(w) == Selected(c, a, w)
           Members(w) == Team(w) \ OverBudget(Team(w), required)
<1>1. \A w : /\ Compute(c, a, w).members = Members(w)
             /\ Compute(c, a, w).ok = (~c.ruleError /\ ~Insufficient(c, Members(w)))
  BY DEF Compute
<1>2. \A w : required \in SUBSET Team(w) /\ Team(w) \in SUBSET Persona
  BY SelectedKeepsRequired
<1>3. \A w : required \in SUBSET Members(w) /\ Members(w) \in SUBSET Persona
  BY <1>2 DEF OverBudget
<1>4. \A w : /\ TotalTokens(Members(w)) \in Nat /\ TotalTokens(required) \in Nat
             /\ TotalTokens(required) =< TotalTokens(Members(w))
  BY <1>2, <1>3, TotalIsMonotone, TotalIsNatural
<1>5. MaxTotalTokens \in Nat
  BY RegistryAssumption
<1>6. CASE ~c.isFork
  BY <1>1, <1>6 DEF Insufficient
<1>7. CASE c.isFork
  <2>1. ~c.ruleError /\ ~(TotalTokens(Members(w1)) > MaxTotalTokens)
    BY <1>1, <1>7 DEF Insufficient
  <2>2. TotalTokens(required) =< MaxTotalTokens
    BY <1>4, <1>5, <2>1
  <2>3. TotalTokens(Members(w2)) =< MaxTotalTokens
    BY <1>2, <2>2, BudgetIsKept
  <2> HIDE DEF Members
  <2>4. ~Insufficient(c, Members(w2))
    BY <1>4, <1>5, <2>3 DEF Insufficient
  <2> QED
    BY <1>1, <2>1, <2>3, <2>4
<1> QED
  BY <1>6, <1>7

\* From wave 1 on the first computation has succeeded, whatever the scope left
\* of its members.
FirstWasAccepted ==
    Rostered =>
        /\ Compute(facts, assessment, <<>>).ok
        /\ roster = RestrictToScope(Compute(facts, assessment, <<>>))

LEMMA FirstStays == ASSUME TypeOK, FirstWasAccepted, [Next]_vars PROVE FirstWasAccepted'
<1>1. CASE Triage
  BY <1>1 DEF Triage, FirstWasAccepted, Rostered
<1>2. CASE ComputeRoster
  <2>1. UNCHANGED <<facts, assessment, scope>>
    BY <1>2 DEF ComputeRoster
  <2>2. CASE Compute(facts, assessment, <<>>).ok
    <3>1. roster' = RestrictToScope(Compute(facts, assessment, <<>>))
      BY <1>2, <2>2 DEF ComputeRoster
    <3> QED
      BY <2>1, <2>2, <3>1 DEF FirstWasAccepted, RestrictToScope
  <2>3. CASE ~Compute(facts, assessment, <<>>).ok
    BY <1>2, <2>3 DEF ComputeRoster, FirstWasAccepted, Rostered
  <2> QED
    BY <2>2, <2>3
<1>3. ASSUME UNCHANGED <<facts, assessment, scope, roster>>, Rostered' => Rostered
      PROVE  FirstWasAccepted'
  BY <1>3 DEF FirstWasAccepted, RestrictToScope
<1>4. CASE \E p \in Persona : Start(p) \/ Finish(p)
  BY <1>3, <1>4 DEF Start, Finish, Rostered
<1>5. CASE Collect \/ StampFindings \/ UNCHANGED vars
  BY <1>3, <1>5 DEF Collect, StampFindings, Rostered, vars
<1> QED
  BY <1>1, <1>2, <1>4, <1>5 DEF Next, Terminated

LEMMA FirstAccepted == Spec => []FirstWasAccepted
<1>1. Init => FirstWasAccepted
  BY DEF Init, FirstWasAccepted, Rostered
<1> QED
  BY <1>1, FirstStays, TypeCorrect, PTL DEF Spec

\* The second Compute of a run succeeds, whatever wave 1 asked for, for any
\* registry and limits (RunTeam's fallback for a failed recompute).
THEOREM RecomputesSucceed == Spec => []RecomputeNeverFails
<1>1. TypeOK /\ FirstWasAccepted => RecomputeNeverFails
  <2> SUFFICES ASSUME TypeOK, FirstWasAccepted, stage = "wave 1" PROVE Recompute.ok
    BY DEF RecomputeNeverFails
  <2>1. facts \in FactsCase
    BY RunAssumption DEF TypeOK
  <2>2. Compute(facts, assessment, <<>>).ok
    BY DEF FirstWasAccepted, Rostered
  <2> QED
    BY <2>1, <2>2, ForkBudget DEF Recompute
<1> QED
  BY <1>1, FirstAccepted, TypeCorrect, PTL

-----------------------------------------------------------------------------
(* What a wave asks for, as a sequence.                                    *)

LEMMA GreatestOf ==
    ASSUME NEW U, U \subseteq Nat, IsFiniteSet(U), NEW S \in SUBSET U, S # {}
    PROVE  \E m \in S : \A q \in S : q =< m
<1> DEFINE above == [p \in S |-> {q \in S : p < q}]
           F == {above[p] : p \in S}
<1>1. F \subseteq SUBSET U /\ F # {}
  OBVIOUS
<1>2. PICK W \in F : \A V \in F : Cardinality(W) =< Cardinality(V)
  BY <1>1, Smallest
<1>3. PICK m \in S : W = above[m]
  BY <1>2
<1>4. \A q \in S : q =< m
  <2> SUFFICES ASSUME NEW q \in S, m < q PROVE FALSE
    OBVIOUS
  <2>0. m \in Nat /\ \A r \in S : r \in Nat
    OBVIOUS
  <2>a. W = {r \in S : m < r} /\ above[q] = {r \in S : q < r}
    BY <1>3
  <2>b. \A r \in S : q < r => m < r
    BY <2>0
  <2>1. above[q] \subseteq W /\ q \in W /\ q \notin above[q]
    <3> HIDE DEF above
    <3>1. above[q] \subseteq W
      BY <2>a, <2>b
    <3>2. q \in W
      BY <2>a
    <3>3. q \notin above[q]
      BY <2>0, <2>a
    <3> QED
      BY <3>1, <3>2, <3>3
  <2>2. IsFiniteSet(W) /\ Cardinality(W) \in Nat /\ Cardinality(above[q]) \in Nat
    BY <1>1, <1>2, FS_Subset, FS_CardinalityType
  <2>3. Cardinality(above[q]) =< Cardinality(W) /\ Cardinality(above[q]) # Cardinality(W)
    BY <2>1, <2>2, FS_Subset
  <2>4. Cardinality(W) =< Cardinality(above[q])
    BY <1>2
  <2> QED
    BY <2>2, <2>3, <2>4
<1> QED
  BY <1>4

Ranks(S) == \A n \in 1 .. Cardinality(S) : \E p \in S : Cardinality({q \in S : q < p}) = n - 1

LEMMA TeamsHaveRanks == \A S \in SUBSET Persona : Ranks(S)
<1> DEFINE wrong == {S \in SUBSET Persona : ~Ranks(S)}
<1>1. SUFFICES ASSUME wrong # {} PROVE FALSE
  OBVIOUS
<1>2. PICK S \in wrong : \A T \in wrong : Cardinality(S) =< Cardinality(T)
  BY <1>1, SmallestTeam
<1>3. S \in SUBSET Persona /\ IsFiniteSet(S) /\ Cardinality(S) \in Nat
  BY <1>2, TeamsAreFinite
<1>4. S # {}
  BY <1>2, FS_EmptySet DEF Ranks
<1>5. PICK m \in S : \A q \in S : q =< m
  BY <1>3, <1>4, GreatestOf, RegistryAssumption
<1>6. \A q \in S : q \in Nat
  BY <1>3, RegistryAssumption
<1>7. Cardinality(S \ {m}) = Cardinality(S) - 1 /\ Ranks(S \ {m})
  BY <1>2, <1>3, OneLess
<1>8. Ranks(S)
  <2> SUFFICES ASSUME NEW n \in 1 .. Cardinality(S)
               PROVE  \E p \in S : Cardinality({q \in S : q < p}) = n - 1
    BY DEF Ranks
  <2>1. CASE n = Cardinality(S)
    <3>1. {q \in S : q < m} = S \ {m}
      BY <1>5, <1>6
    <3> QED
      BY <1>7, <2>1, <3>1
  <2>2. CASE n # Cardinality(S)
    <3>1. n \in 1 .. Cardinality(S \ {m})
      BY <1>3, <1>7, <2>2
    <3>2. PICK p \in S \ {m} : Cardinality({q \in S \ {m} : q < p}) = n - 1
      BY <1>7, <3>1 DEF Ranks
    <3>3. {q \in S \ {m} : q < p} = {q \in S : q < p}
      BY <1>5, <1>6
    <3> QED
      BY <3>2, <3>3
  <2> QED
    BY <2>1, <2>2
<1> QED
  BY <1>2, <1>8

LEMMA InOrderLists ==
    ASSUME NEW S \in SUBSET Persona
    PROVE  /\ InOrder(S) \in [1 .. Cardinality(S) -> S]
           /\ Cardinality(S) \in Nat
BY TeamsHaveRanks, TeamsAreFinite DEF Ranks, InOrder

Gathering(s, D, ids) ==
    ids = [d \in SUBSET D |->
              IF d = {} THEN <<>> ELSE ids[d \ {Max(d)}] \o escalate[s[Max(d)]]]

Gathered(s, D) == (CHOOSE ids : Gathering(s, D, ids))[D]

LEMMA RequestsAreGathered ==
    \A S : Requests(S) = Gathered(InOrder(S), DOMAIN InOrder(S))
BY DEF Requests, FoldLeft, MapThenFoldSet, Gathered, Gathering

LEMMA MaxIsMember ==
    ASSUME NEW n \in Nat, NEW d \in SUBSET (1 .. n), d # {}
    PROVE  Max(d) \in d
<1>1. IsFiniteSet(1 .. n) /\ 1 .. n \subseteq Nat
  BY FS_Interval
<1>2. PICK m \in d : \A q \in d : q =< m
  BY <1>1, GreatestOf
<1>3. \A q \in d : m >= q
  BY <1>2
<1> QED
  BY <1>3 DEF Max

LEMMA OneIndexLess ==
    ASSUME NEW n \in Nat, NEW d \in SUBSET (1 .. n), d # {}
    PROVE  /\ d \ {Max(d)} \in SUBSET (1 .. n)
           /\ Cardinality(d \ {Max(d)}) < Cardinality(d)
<1>1. IsFiniteSet(1 .. n)
  BY FS_Interval
<1>2. IsFiniteSet(d) /\ Cardinality(d) \in Nat
  BY <1>1, FS_Subset, FS_CardinalityType
<1>3. Max(d) \in d
  BY MaxIsMember
<1>4. Cardinality(d \ {Max(d)}) = Cardinality(d) - 1
  BY <1>2, <1>3, FS_RemoveElement
<1>5. d \ {Max(d)} \in SUBSET (1 .. n)
  OBVIOUS
<1>6. Cardinality(d \ {Max(d)}) < Cardinality(d)
  BY <1>2, <1>4
<1> QED
  BY <1>5, <1>6

LEMMA SmallestIndices ==
    ASSUME NEW n \in Nat, NEW F, F \subseteq SUBSET (1 .. n), F # {}
    PROVE  \E d \in F : \A e \in F : ~(Cardinality(e) < Cardinality(d))
<1>1. IsFiniteSet(1 .. n)
  BY FS_Interval
<1>2. PICK d \in F : \A e \in F : Cardinality(d) =< Cardinality(e)
  BY <1>1, Smallest
<1>3. \A e \in F : Cardinality(e) \in Nat
  BY <1>1, FS_Subset, FS_CardinalityType
<1> QED
  BY <1>2, <1>3

LEMMA GatheringIsUnique ==
    ASSUME NEW n \in Nat, NEW s, NEW D \in SUBSET (1 .. n), NEW f, NEW g,
           Gathering(s, D, f), Gathering(s, D, g)
    PROVE  f = g
<1> DEFINE differ == {d \in SUBSET D : f[d] # g[d]}
<1>1. SUFFICES ASSUME differ # {} PROVE FALSE
  BY DEF Gathering
<1>2. PICK d \in differ : \A e \in differ : ~(Cardinality(e) < Cardinality(d))
  BY <1>1, SmallestIndices
<1>3. d # {}
  BY <1>2 DEF Gathering
<1>4. d \ {Max(d)} \in SUBSET D
  BY <1>2
<1>5. d \ {Max(d)} \notin differ
  BY <1>2, <1>3, OneIndexLess
<1>6. f[d] = g[d]
  BY <1>2, <1>3, <1>4, <1>5 DEF Gathering
<1> QED
  BY <1>2, <1>6

GatherUnfolds(s, D) ==
    Gathered(s, D) =
        IF D = {} THEN <<>> ELSE Gathered(s, D \ {Max(D)}) \o escalate[s[Max(D)]]

LEMMA GatheredUnfolds ==
    ASSUME NEW n \in Nat, NEW s
    PROVE  \A D \in SUBSET (1 .. n) : GatherUnfolds(s, D)
<1> DEFINE wrong == {D \in SUBSET (1 .. n) : ~GatherUnfolds(s, D)}
<1>1. SUFFICES ASSUME wrong # {} PROVE FALSE
  OBVIOUS
<1>2. PICK D \in wrong : \A e \in wrong : ~(Cardinality(e) < Cardinality(D))
  BY <1>1, SmallestIndices
<1>3. D \in SUBSET (1 .. n) /\ IsFiniteSet(D) /\ Cardinality(D) \in Nat
  <2>1. D \in SUBSET (1 .. n) /\ IsFiniteSet(1 .. n)
    BY <1>2, FS_Interval
  <2> QED
    BY <2>1, FS_Subset, FS_CardinalityType
<1> DEFINE ids == [d \in SUBSET D |->
              IF d = {} THEN <<>> ELSE Gathered(s, d \ {Max(d)}) \o escalate[s[Max(d)]]]
<1>4. Gathering(s, D, ids)
  <2> SUFFICES ASSUME NEW d \in SUBSET D, d # {}
               PROVE  ids[d \ {Max(d)}] = Gathered(s, d \ {Max(d)})
    BY DEF Gathering
  <2>1. d \in SUBSET (1 .. n) /\ d \ {Max(d)} \in SUBSET D
    BY <1>3
  <2>2. Cardinality(d \ {Max(d)}) < Cardinality(d) /\ d \ {Max(d)} \in SUBSET (1 .. n)
    BY <2>1, OneIndexLess
  <2>3. /\ Cardinality(d) =< Cardinality(D)
        /\ Cardinality(d) \in Nat /\ Cardinality(d \ {Max(d)}) \in Nat
    BY <1>3, <2>1, FS_Subset, FS_CardinalityType
  <2>4. Cardinality(d \ {Max(d)}) < Cardinality(D)
    BY <1>3, <2>2, <2>3
  <2>5. GatherUnfolds(s, d \ {Max(d)})
    BY <1>2, <2>2, <2>4
  <2> QED
    BY <2>1, <2>5 DEF GatherUnfolds
<1> HIDE DEF ids
<1>5. (CHOOSE f : Gathering(s, D, f)) = ids
  BY <1>3, <1>4, GatheringIsUnique
<1>6. Gathered(s, D) = ids[D]
  BY <1>5 DEF Gathered
<1>7. GatherUnfolds(s, D)
  BY <1>6 DEF GatherUnfolds, ids
<1> QED
  BY <1>2, <1>7

\* The requests of a wave are ids that its members' answers ask for.
AskedBy(S, ids) ==
    /\ ids \in Seq(Persona \cup {Unknown})
    /\ \A i \in 1 .. Len(ids) : \E q \in S : ids[i] \in Range(escalate[q])

LEMMA RequestsAreAsked ==
    ASSUME TypeOK, NEW S \in SUBSET Persona
    PROVE  AskedBy(S, Requests(S))
<1> DEFINE s == InOrder(S)
           n == Cardinality(S)
           wrong == {D \in SUBSET (1 .. n) : ~AskedBy(S, Gathered(s, D))}
<1>1. n \in Nat /\ s \in [1 .. n -> S] /\ DOMAIN s = 1 .. n
  BY InOrderLists
<1> HIDE DEF s, n
<1>2. wrong = {}
  <2> SUFFICES ASSUME wrong # {} PROVE FALSE
    OBVIOUS
  <2>1. PICK D \in wrong : \A e \in wrong : ~(Cardinality(e) < Cardinality(D))
    BY <1>1, SmallestIndices
  <2>2. GatherUnfolds(s, D)
    BY <1>1, <2>1, GatheredUnfolds
  <2>3. CASE D = {}
    <3>1. Gathered(s, D) = <<>>
      BY <2>2, <2>3 DEF GatherUnfolds
    <3>2. AskedBy(S, <<>>)
      BY EmptySeq DEF AskedBy
    <3> QED
      BY <2>1, <3>1, <3>2
  <2>4. CASE D # {}
    <3> DEFINE old == Gathered(s, D \ {Max(D)})
               p == s[Max(D)]
    <3>1. Gathered(s, D) = old \o escalate[p]
      BY <2>2, <2>4 DEF GatherUnfolds
    <3>2. AskedBy(S, old)
      BY <1>1, <2>1, <2>4, OneIndexLess
    <3>3. p \in S
      BY <1>1, <2>1, <2>4, MaxIsMember
    <3>4. escalate[p] \in Seq(Persona \cup {Unknown})
      BY <3>3 DEF TypeOK
    <3> DEFINE new == escalate[p]
    <3> HIDE DEF old, p
    <3>5. \A i \in 1 .. Len(new) : new[i] \in Range(new)
      BY <3>4 DEF Range
    <3> HIDE DEF new
    <3>6. AskedBy(S, old \o new)
      <4>1. old \in Seq(Persona \cup {Unknown}) /\ new \in Seq(Persona \cup {Unknown})
        BY <3>2, <3>4 DEF AskedBy, new
      <4>2. ASSUME NEW i \in 1 .. Len(old \o new)
            PROVE  \E q \in S : (old \o new)[i] \in Range(escalate[q])
        <5>1. CASE i =< Len(old)
          <6>1. (old \o new)[i] = old[i] /\ i \in 1 .. Len(old)
            BY <4>1, <5>1, ConcatProperties
          <6> QED
            BY <3>2, <6>1 DEF AskedBy
        <5>2. CASE ~(i =< Len(old))
          <6>1. (old \o new)[i] = new[i - Len(old)] /\ i - Len(old) \in 1 .. Len(new)
            BY <4>1, <5>2, ConcatProperties
          <6> QED
            BY <3>3, <3>5, <6>1 DEF new
        <5> QED
          BY <5>1, <5>2
      <4>3. old \o new \in Seq(Persona \cup {Unknown})
        BY <4>1, ConcatProperties
      <4> QED
        BY <4>2, <4>3 DEF AskedBy
    <3> QED
      BY <2>1, <3>1, <3>6 DEF new
  <2> QED
    BY <2>3, <2>4
<1>3. AskedBy(S, Gathered(s, 1 .. n))
  BY <1>2
<1> QED
  BY <1>1, <1>3, RequestsAreGathered DEF s

-----------------------------------------------------------------------------
(* Escalations in order.                                                   *)

Id == Persona \cup {Unknown}

AsksFor(ids, p) == \E i \in DOMAIN ids : ids[i] = p

LEMMA FirstIsFirst ==
    ASSUME NEW ids \in Seq(Id), NEW p, AsksFor(ids, p)
    PROVE  /\ FirstAt(p, ids) \in DOMAIN ids
           /\ ids[FirstAt(p, ids)] = p
           /\ \A j \in DOMAIN ids : ids[j] = p => FirstAt(p, ids) =< j
<1> DEFINE at == {i \in DOMAIN ids : ids[i] = p}
<1>1. at \subseteq Nat /\ at # {}
  BY DEF AsksFor
<1>2. PICK i \in at : \A j \in at : i =< j
  BY <1>1, LeastNatural
<1> QED
  BY <1>2 DEF FirstAt

\* What is asked for later does not come before.
LEMMA FirstStaysFirst ==
    ASSUME NEW ids \in Seq(Id), NEW more \in Seq(Id), NEW p
    PROVE  /\ ids \o more \in Seq(Id)
           /\ AsksFor(ids \o more, p) <=> AsksFor(ids, p) \/ AsksFor(more, p)
           /\ AsksFor(ids, p) => /\ FirstAt(p, ids \o more) = FirstAt(p, ids)
                                 /\ FirstAt(p, ids) =< Len(ids)
           /\ AsksFor(ids \o more, p) /\ ~AsksFor(ids, p) => FirstAt(p, ids \o more) > Len(ids)
<1> DEFINE all == ids \o more
<1>1. /\ all \in Seq(Id) /\ Len(all) = Len(ids) + Len(more)
      /\ Len(ids) \in Nat /\ Len(more) \in Nat
      /\ DOMAIN ids = 1 .. Len(ids) /\ DOMAIN more = 1 .. Len(more) /\ DOMAIN all = 1 .. Len(all)
      /\ \A i \in 1 .. Len(ids) : all[i] = ids[i]
      /\ \A i \in 1 .. Len(more) : all[Len(ids) + i] = more[i]
  OBVIOUS
<1>2. \A i \in 1 .. Len(all) : i \in 1 .. Len(ids) \/ (i - Len(ids) \in 1 .. Len(more) /\ i = Len(ids) + (i - Len(ids)))
  BY <1>1
<1> HIDE DEF all
<1>3. AsksFor(all, p) <=> AsksFor(ids, p) \/ AsksFor(more, p)
  <2>1. AsksFor(ids, p) => AsksFor(all, p)
    BY <1>1 DEF AsksFor
  <2>2. AsksFor(more, p) => AsksFor(all, p)
    <3> SUFFICES ASSUME NEW i \in 1 .. Len(more), more[i] = p PROVE AsksFor(all, p)
      BY <1>1 DEF AsksFor
    <3>1. Len(ids) + i \in DOMAIN all /\ all[Len(ids) + i] = p
      BY <1>1
    <3> QED
      BY <3>1 DEF AsksFor
  <2>3. AsksFor(all, p) => AsksFor(ids, p) \/ AsksFor(more, p)
    <3> SUFFICES ASSUME NEW i \in 1 .. Len(all), all[i] = p
                 PROVE  AsksFor(ids, p) \/ AsksFor(more, p)
      BY <1>1 DEF AsksFor
    <3>1. CASE i \in 1 .. Len(ids)
      BY <1>1, <3>1 DEF AsksFor
    <3>2. CASE i - Len(ids) \in 1 .. Len(more)
      <4>0. i \in Int /\ Len(ids) \in Int
        BY <1>1
      <4>a. i = Len(ids) + (i - Len(ids))
        BY ONLY <4>0
      <4>1. PICK j \in 1 .. Len(more) : i = Len(ids) + j
        BY ONLY <3>2, <4>a
      <4>2. j \in DOMAIN more /\ more[j] = p
        BY <1>1, <4>1
      <4> QED
        BY <4>2 DEF AsksFor
    <3> QED
      BY <1>2, <3>1, <3>2
  <2> QED
    BY <2>1, <2>2, <2>3
<1>4. ASSUME AsksFor(ids, p)
      PROVE  FirstAt(p, all) = FirstAt(p, ids) /\ FirstAt(p, ids) =< Len(ids)
  <2> DEFINE i == FirstAt(p, ids)
             j == FirstAt(p, all)
  <2>1. i \in 1 .. Len(ids) /\ ids[i] = p /\ \A k \in 1 .. Len(ids) : ids[k] = p => i =< k
    BY <1>1, <1>4, FirstIsFirst
  <2>2. j \in 1 .. Len(all) /\ all[j] = p /\ \A k \in 1 .. Len(all) : all[k] = p => j =< k
    BY <1>1, <1>3, <1>4, FirstIsFirst
  <2> HIDE DEF i, j
  <2>3. j =< i
    BY <1>1, <2>1, <2>2
  <2>4. j \in 1 .. Len(ids) /\ ids[j] = p
    BY <1>1, <2>1, <2>2, <2>3
  <2>5. i =< j
    BY <2>1, <2>4
  <2>6. i = j /\ i =< Len(ids)
    BY <1>1, <2>1, <2>2, <2>3, <2>5
  <2> QED
    BY <2>6 DEF i, j
<1>5. ASSUME AsksFor(all, p), ~AsksFor(ids, p)
      PROVE  FirstAt(p, all) > Len(ids)
  <2>1. FirstAt(p, all) \in 1 .. Len(all) /\ all[FirstAt(p, all)] = p
    BY <1>1, <1>5, FirstIsFirst
  <2>2. FirstAt(p, all) \notin 1 .. Len(ids)
    BY <1>1, <1>5, <2>1 DEF AsksFor
  <2> QED
    BY <1>1, <2>1, <2>2
<1> QED
  BY <1>1, <1>3, <1>4, <1>5 DEF all

Fresh(team, ids) == {p \in Persona \ team : AsksFor(ids, p)}

Before(team, ids, p) == {q \in Fresh(team, ids) : FirstAt(q, ids) < FirstAt(p, ids)}

LEMMA EscalateIs ==
    \A team, ids : Escalate(team, ids) =
        team \cup {p \in Fresh(team, ids) : Cardinality(Before(team, ids, p)) < Room(team)}
BY DEF Escalate, Fresh, Before, AsksFor

\* Further requests take no place from the earlier ones.
LEMMA EscalateGrows ==
    ASSUME NEW team \in SUBSET Persona, NEW ids \in Seq(Id), NEW more \in Seq(Id)
    PROVE  /\ Escalate(team, ids) \subseteq Escalate(team, ids \o more)
           /\ \A p \in Escalate(team, ids \o more) \ Escalate(team, ids) : AsksFor(more, p)
<1> DEFINE all == ids \o more
<1>1. all \in Seq(Id) /\ Fresh(team, ids) \subseteq Fresh(team, all)
  BY FirstStaysFirst DEF Fresh
<1>2. ASSUME NEW p \in Fresh(team, ids)
      PROVE  Before(team, all, p) = Before(team, ids, p)
  <2>1. AsksFor(ids, p) /\ FirstAt(p, all) = FirstAt(p, ids) /\ FirstAt(p, ids) =< Len(ids)
    BY FirstStaysFirst DEF Fresh
  <2>2. FirstAt(p, ids) \in Nat
    BY <2>1, FirstIsFirst
  <2>3. ASSUME NEW q \in Fresh(team, all)
        PROVE  q \in Before(team, all, p) <=> q \in Before(team, ids, p)
    <3>1. CASE AsksFor(ids, q)
      <4>1. q \in Fresh(team, ids) /\ FirstAt(q, all) = FirstAt(q, ids)
        BY <3>1, FirstStaysFirst DEF Fresh
      <4> QED
        BY <2>1, <4>1 DEF Before
    <3>2. CASE ~AsksFor(ids, q)
      <4>1. q \notin Fresh(team, ids) /\ FirstAt(q, all) > Len(ids)
        BY <2>3, <3>2, FirstStaysFirst DEF Fresh
      <4>2. FirstAt(q, all) \in Nat /\ Len(ids) \in Nat
        <5>1. AsksFor(all, q)
          BY <2>3 DEF Fresh
        <5>2. FirstAt(q, all) \in DOMAIN all
          BY <1>1, <5>1, FirstIsFirst
        <5> HIDE DEF all
        <5>3. DOMAIN all \subseteq Nat
          BY <1>1
        <5> QED
          BY <5>2, <5>3
      <4>3. ~(FirstAt(q, all) < FirstAt(p, all))
        BY <2>1, <2>2, <4>1, <4>2
      <4> QED
        BY <4>1, <4>3 DEF Before
    <3> QED
      BY <3>1, <3>2
  <2>4. Before(team, ids, p) \subseteq Fresh(team, all) /\ Before(team, all, p) \subseteq Fresh(team, all)
    BY <1>1 DEF Before
  <2> QED
    BY <2>3, <2>4
<1>3. Escalate(team, ids) \subseteq Escalate(team, all)
  BY <1>1, <1>2, EscalateIs
<1>4. ASSUME NEW p \in Escalate(team, all) \ Escalate(team, ids)
      PROVE  AsksFor(more, p)
  <2>1. p \in Fresh(team, all) /\ p \notin Fresh(team, ids)
    BY <1>2, <1>4, EscalateIs
  <2>2. AsksFor(all, p) /\ ~AsksFor(ids, p)
    BY <2>1 DEF Fresh
  <2> QED
    BY <2>2, FirstStaysFirst
<1> QED
  BY <1>3, <1>4

\* A recomputed team keeps the first and adds only what wave 1 asked for.
LEMMA SelectedGrows ==
    ASSUME NEW c \in FactsCase, NEW a, a.suggested \in Seq(Id), NEW more \in Seq(Id)
    PROVE  /\ Selected(c, a, <<>>) \subseteq Selected(c, a, more)
           /\ \A p \in Selected(c, a, more) \ Selected(c, a, <<>>) : AsksFor(more, p)
<1> DEFINE required == Required(c, a)
           present  == AfterExcludes(required, Volunteers(c, a))
           capped   == CapTeam(required, Volunteers(c, a) \cap present)
           filled   == FillFloor(capped)
           ids      == c.escalations \o a.suggested
<1> HIDE DEF present
<1>1. filled \in SUBSET Persona
  <2>1. Volunteers(c, a) \subseteq Persona
    BY DEF Volunteers, FactsCase, TeamPersona
  <2>2. capped \subseteq Persona
    BY <2>1, RequiredArePersonas DEF CapTeam, Best
  <2> QED
    BY <2>2 DEF FillFloor, Best, Agent
<1>2. c.escalations \in Seq(Id)
  BY DEF FactsCase, Id
<1>3. ids \in Seq(Id)
  BY <1>2, ConcatProperties
<1>4. \A w : Selected(c, a, w) = Escalate(filled, ids \o w)
  BY DEF Selected, present
<1>5. ids \o <<>> = ids
  BY <1>3, ConcatEmptySeq
<1> HIDE DEF filled, ids
<1>6. Selected(c, a, <<>>) = Escalate(filled, ids) /\ Selected(c, a, more) = Escalate(filled, ids \o more)
  BY <1>4, <1>5
<1>7. /\ Escalate(filled, ids) \subseteq Escalate(filled, ids \o more)
      /\ \A p \in Escalate(filled, ids \o more) \ Escalate(filled, ids) : AsksFor(more, p)
  BY <1>1, <1>3, EscalateGrows
<1> QED
  BY <1>6, <1>7

\* A member the first computation left out for the budget stays out.
LEMMA OverBudgetStays ==
    ASSUME NEW big \in SUBSET Persona, NEW team \in SUBSET big, NEW required \in SUBSET team,
           NEW p \in OverBudget(team, required)
    PROVE  p \in OverBudget(big, required)
<1> DEFINE Left(t) == t \ {q \in t \ required : Better(p, q)}
<1>1. p \in team \ required /\ TotalTokens(Left(team)) > MaxTotalTokens
  BY DEF OverBudget
<1>2. Left(team) \in SUBSET Left(big) /\ Left(big) \in SUBSET Persona
  OBVIOUS
<1>3. p \in big \ required
  BY <1>1
<1> HIDE DEF Left
<1>4. TotalTokens(Left(big)) > MaxTotalTokens
  BY <1>1, <1>2, TotalIsMonotone, TotalIsNatural, RegistryAssumption
<1> QED
  BY <1>3, <1>4 DEF OverBudget, Left

LEMMA RecomputeAddsTheAsked ==
    ASSUME NEW c \in FactsCase, NEW a, a.suggested \in Seq(Id), NEW more \in Seq(Id)
    PROVE  \A p \in Compute(c, a, more).members \ Compute(c, a, <<>>).members : AsksFor(more, p)
<1> DEFINE required == Required(c, a)
           Team(w) == Selected(c, a, w)
<1>1. \A w : Compute(c, a, w).members = Team(w) \ OverBudget(Team(w), required)
  BY DEF Compute
<1>2. \A w : required \in SUBSET Team(w) /\ Team(w) \in SUBSET Persona
  BY SelectedKeepsRequired
<1>3. Team(<<>>) \in SUBSET Team(more)
  BY SelectedGrows
<1>4. ASSUME NEW p \in Compute(c, a, more).members, p \notin Compute(c, a, <<>>).members
      PROVE  p \in Team(more) \ Team(<<>>)
  <2>1. p \in Team(more) /\ p \notin OverBudget(Team(more), required)
    BY <1>1, <1>4
  <2>2. p \notin OverBudget(Team(<<>>), required)
    BY <1>2, <1>3, <2>1, OverBudgetStays
  <2> QED
    BY <1>1, <1>4, <2>1, <2>2
<1> QED
  BY <1>4, SelectedGrows

-----------------------------------------------------------------------------
(* Who runs in wave 2.                                                     *)

LEMMA AssessmentAsks == TypeOK => assessment.suggested \in Seq(Id) /\ facts \in FactsCase
<1>1. Unassessed.suggested \in Seq(Id)
  BY EmptySeq DEF Unassessed
<1> QED
  BY <1>1, RunAssumption DEF TypeOK, Id

Asking ==
    /\ \A p \in Persona : escalate[p] # <<>> => status[p] = "ok"
    /\ scope = {} =>
          \A p \in Ran \cup queue \cup running : p \notin roster.members =>
              \E q \in roster.members : status[q] = "ok" /\ p \in Range(escalate[q])

\* A recompute of an unscoped run adds those whom an answered member asked for.
LEMMA NewcomersAreAsked ==
    ASSUME TypeOK, FirstWasAccepted, Rostered, scope = {},
           \A p \in Persona : escalate[p] # <<>> => status[p] = "ok",
           NEW p \in Recompute.members, p \notin roster.members
    PROVE  \E q \in roster.members : status[q] = "ok" /\ p \in Range(escalate[q])
<1> DEFINE first == Compute(facts, assessment, <<>>)
           ids == Requests(roster.members)
<1>1. roster = first /\ roster.members \in SUBSET Persona
  BY DEF FirstWasAccepted, RestrictToScope, TypeOK, RosterType
<1>2. AskedBy(roster.members, ids)
  BY <1>1, RequestsAreAsked
<1>3. ids \in Seq(Id)
  BY <1>2 DEF AskedBy, Id
<1>4. p \in Compute(facts, assessment, ids).members \ first.members
  BY <1>1 DEF Recompute
<1> HIDE DEF first, ids
<1>5. AsksFor(ids, p)
  BY <1>3, <1>4, AssessmentAsks, RecomputeAddsTheAsked DEF first
<1>6. PICK i \in 1 .. Len(ids) : ids[i] = p
  BY <1>3, <1>5 DEF AsksFor
<1>7. PICK q \in roster.members : p \in Range(escalate[q])
  BY <1>2, <1>6 DEF AskedBy
<1>8. escalate[q] # <<>>
  BY <1>7 DEF Range
<1> QED
  BY <1>1, <1>7, <1>8

LEMMA AskingStep ==
    ASSUME TypeOK, Apart, FirstWasAccepted, Asking, [Next]_vars
    PROVE  Asking'
<1> USE DEF Ran
<1>0. queue \subseteq Persona /\ running \subseteq Persona /\ roster.members \subseteq Persona
  BY DEF TypeOK, RosterType
<1>1. CASE Triage
  BY <1>1 DEF Triage, Asking
<1>2. CASE ComputeRoster
  <2>1. UNCHANGED <<scope, running, status, escalate>> /\ stage = "roster"
    BY <1>2 DEF ComputeRoster
  <2>2. Ran = {} /\ running = {}
    BY <2>1 DEF Apart
  <2>3. queue' = {} \/ queue' = roster'.members
    BY <1>2 DEF ComputeRoster, Dispatch, Apart
  <2> QED
    BY <2>1, <2>2, <2>3 DEF Asking
<1>3. CASE \E p \in Persona : Start(p)
  <2>1. PICK p \in Persona : Start(p)
    BY <1>3
  <2>2. queue' \cup running' = queue \cup running /\ UNCHANGED <<scope, status, escalate, roster>>
    BY <2>1 DEF Start
  <2> QED
    BY <2>2 DEF Asking
<1>4. CASE \E p \in Persona : Finish(p)
  <2>1. PICK p \in Persona : Finish(p)
    BY <1>4
  <2>2. /\ p \in running /\ status[p] = "none" /\ escalate[p] = <<>>
        /\ running' = running \ {p} /\ UNCHANGED <<scope, queue, roster>>
    BY <2>1 DEF Finish, Apart, Asking
  <2>3. \A q \in Persona \ {p} : status'[q] = status[q] /\ escalate'[q] = escalate[q]
    BY <2>1 DEF Finish, TypeOK
  <2>4. escalate'[p] # <<>> => status'[p] = "ok"
    BY <2>1, <2>2 DEF Finish, TypeOK
  <2>5. Ran' \cup queue' \cup running' \subseteq Ran \cup queue \cup running
    BY <2>2, <2>3
  <2>6. \A q \in roster.members : status[q] = "ok" =>
            status'[q] = "ok" /\ escalate'[q] = escalate[q]
    BY <1>0, <2>2, <2>3
  <2> QED
    BY <1>0, <2>2, <2>3, <2>4, <2>5, <2>6 DEF Asking
<1>5. CASE Collect
  <2>1. UNCHANGED <<scope, running, status, escalate, roster>> /\ stage = "wave 1"
    BY <1>5 DEF Collect
  <2>2. queue' = queue \/ queue' \subseteq Recompute.members
    BY <1>5 DEF Collect, Dispatch, Newcomers
  <2>3. scope = {} =>
          \A p \in Recompute.members : p \notin roster.members =>
              \E q \in roster.members : status[q] = "ok" /\ p \in Range(escalate[q])
    BY <2>1, NewcomersAreAsked DEF Rostered, Asking
  <2> QED
    BY <2>1, <2>2, <2>3 DEF Asking
<1>6. CASE StampFindings \/ UNCHANGED vars
  BY <1>6 DEF StampFindings, vars, Asking
<1> QED
  BY <1>1, <1>2, <1>3, <1>4, <1>5, <1>6 DEF Next, Terminated

\* In a run without a scope, whoever runs beyond the first roster was asked for
\* by a member that answered (roster.Compute called again by RunTeam).
THEOREM WaveTwoWasAsked == Spec => []WaveTwoIsAsked
<1>1. Init => Asking
  BY DEF Init, Asking, Ran
<1>2. Asking => WaveTwoIsAsked
  BY DEF Asking, WaveTwoIsAsked
<1> QED
  BY <1>1, <1>2, AskingStep, TypeCorrect, ApartAlways, FirstAccepted, PTL DEF Spec

-----------------------------------------------------------------------------
(* How many run.                                                           *)

\* Of candidates in a strict order, at most n have fewer than n before them.
LEMMA FewAreFirst ==
    ASSUME NEW S \in SUBSET Persona, NEW before \in [S -> SUBSET S], NEW n \in Nat,
           \A p \in S : p \notin before[p],
           \A p, q \in S : p = q \/ (p \in before[q] /\ before[p] \subseteq before[q])
                                 \/ (q \in before[p] /\ before[q] \subseteq before[p]),
           NEW T \in SUBSET S, \A p \in T : Cardinality(before[p]) < n
    PROVE  Cardinality(T) =< n
<1> DEFINE rank == [p \in T |-> Cardinality(before[p])]
<1>1. \A p \in S : before[p] \in SUBSET Persona /\ Cardinality(before[p]) \in Nat /\ IsFiniteSet(before[p])
  <2>1. \A p \in S : before[p] \in SUBSET Persona
    OBVIOUS
  <2> QED
    BY <2>1, TeamsAreFinite
<1>2. rank \in [T -> 0 .. n - 1]
  BY <1>1
<1>3. ASSUME NEW p \in T, NEW q \in T, p \in before[q], before[p] \subseteq before[q]
      PROVE  rank[p] < rank[q]
  <2>1. p \notin before[p] /\ before[p] # before[q]
    BY <1>3
  <2>2. Cardinality(before[p]) =< Cardinality(before[q]) /\ Cardinality(before[p]) # Cardinality(before[q])
    BY <1>1, <1>3, <2>1, FS_Subset
  <2> QED
    BY <1>1, <2>2
<1>4. \A p, q \in T : rank[p] = rank[q] => p = q
  <2> SUFFICES ASSUME NEW p \in T, NEW q \in T, p # q PROVE rank[p] # rank[q]
    OBVIOUS
  <2>1. rank[p] < rank[q] \/ rank[q] < rank[p]
    BY <1>3
  <2>2. rank[p] \in Nat /\ rank[q] \in Nat
    BY <1>1
  <2> HIDE DEF rank
  <2> QED
    BY <2>1, <2>2
<1>5. rank \in Injection(T, 0 .. n - 1)
  BY <1>2, <1>4 DEF Injection, IsInjective
<1>6. IsFiniteSet(0 .. n - 1) /\ Cardinality(0 .. n - 1) = n
  BY FS_Interval
<1> QED
  BY <1>5, <1>6, FS_Injection

LEMMA BestAreFew ==
    ASSUME NEW S \in SUBSET Persona, NEW n \in Int
    PROVE  /\ Best(n, S) \in SUBSET S
           /\ n >= 0 => Cardinality(Best(n, S)) =< n
           /\ n < 0 => Best(n, S) = {}
<1> DEFINE before == [p \in S |-> {q \in S : Better(q, p)}]
<1>1. \A p \in S : before[p] \in SUBSET Persona /\ Cardinality(before[p]) \in Nat
  <2>1. \A p \in S : before[p] \in SUBSET Persona
    OBVIOUS
  <2> QED
    BY <2>1, TeamsAreFinite
<1>2. Best(n, S) = {p \in S : Cardinality(before[p]) < n}
  BY DEF Best
<1>3. \A p \in S : p \notin before[p]
  BY BetterIsStrict
<1>4. \A p, q \in S : p = q \/ (p \in before[q] /\ before[p] \subseteq before[q])
                            \/ (q \in before[p] /\ before[q] \subseteq before[p])
  <2> SUFFICES ASSUME NEW p \in S, NEW q \in S, p # q
               PROVE  \/ p \in before[q] /\ before[p] \subseteq before[q]
                      \/ q \in before[p] /\ before[q] \subseteq before[p]
    OBVIOUS
  <2>1. p \in Persona /\ q \in Persona /\ \A r \in S : r \in Persona
    OBVIOUS
  <2>2. Better(p, q) => p \in before[q] /\ before[p] \subseteq before[q]
    BY <2>1, BetterIsStrict
  <2>3. Better(q, p) => q \in before[p] /\ before[q] \subseteq before[p]
    BY <2>1, BetterIsStrict
  <2> QED
    BY <2>1, <2>2, <2>3, BetterIsStrict
<1>5. before \in [S -> SUBSET S]
  OBVIOUS
<1> HIDE DEF before
<1>6. n >= 0 => Cardinality(Best(n, S)) =< n
  <2> SUFFICES ASSUME n \in Nat PROVE Cardinality(Best(n, S)) =< n
    OBVIOUS
  <2>1. Best(n, S) \in SUBSET S /\ \A p \in Best(n, S) : Cardinality(before[p]) < n
    BY <1>2
  <2> QED
    BY <1>3, <1>4, <1>5, <2>1, FewAreFirst
<1>7. n < 0 => Best(n, S) = {}
  BY <1>1, <1>2
<1> QED
  BY <1>2, <1>6, <1>7

\* A team that takes in what there is room for.
LEMMA TeamOfBoth ==
    ASSUME NEW team \in SUBSET Persona, NEW more \in SUBSET Persona, NEW limit \in Nat,
           limit - Cardinality(team) >= 0 => Cardinality(more) =< limit - Cardinality(team),
           limit - Cardinality(team) < 0 => more = {}
    PROVE  \/ Cardinality(team \cup more) =< limit
           \/ Cardinality(team \cup more) =< Cardinality(team)
<1>1. /\ IsFiniteSet(team) /\ IsFiniteSet(more) /\ IsFiniteSet(team \cap more)
      /\ Cardinality(team) \in Nat /\ Cardinality(more) \in Nat /\ Cardinality(team \cap more) \in Nat
  <2>1. team \cap more \in SUBSET Persona
    OBVIOUS
  <2> QED
    BY <2>1, TeamsAreFinite
<1>2. Cardinality(team \cup more) = Cardinality(team) + Cardinality(more) - Cardinality(team \cap more)
  BY <1>1, FS_Union
<1>3. CASE limit - Cardinality(team) >= 0
  BY <1>1, <1>2, <1>3
<1>4. CASE limit - Cardinality(team) < 0
  <2>1. team \cup more = team
    BY <1>4
  <2>2. Cardinality(team \cup more) = Cardinality(team)
    BY <2>1
  <2> QED
    BY <1>1, <2>2
<1> QED
  BY <1>1, <1>3, <1>4

LEMMA EscalateIsBounded ==
    ASSUME NEW team \in SUBSET Persona, NEW ids \in Seq(Id)
    PROVE  /\ Escalate(team, ids) \in SUBSET Persona
           /\ \/ Cardinality(Escalate(team, ids)) =< MaxTeamSize
              \/ Cardinality(Escalate(team, ids)) =< Cardinality(team)
<1> DEFINE S == Fresh(team, ids)
           before == [p \in S |-> Before(team, ids, p)]
           more == {p \in S : Cardinality(before[p]) < Room(team)}
<1>1. S \in SUBSET Persona /\ before \in [S -> SUBSET S] /\ more \in SUBSET S
  BY DEF Fresh, Before
<1>2. Escalate(team, ids) = team \cup more
  BY EscalateIs
<1>3. \A p \in S : FirstAt(p, ids) \in Nat /\ ids[FirstAt(p, ids)] = p
  <2>1. DOMAIN ids \subseteq Nat
    OBVIOUS
  <2> QED
    BY <2>1, FirstIsFirst DEF Fresh
<1>4. \A p \in S : p \notin before[p]
  BY <1>3 DEF Before
<1>5. \A p, q \in S : p = q \/ (p \in before[q] /\ before[p] \subseteq before[q])
                            \/ (q \in before[p] /\ before[q] \subseteq before[p])
  <2> SUFFICES ASSUME NEW p \in S, NEW q \in S, p # q
               PROVE  \/ p \in before[q] /\ before[p] \subseteq before[q]
                      \/ q \in before[p] /\ before[q] \subseteq before[p]
    OBVIOUS
  <2>1. FirstAt(p, ids) < FirstAt(q, ids) \/ FirstAt(q, ids) < FirstAt(p, ids)
    BY <1>3
  <2>2. ASSUME NEW r \in S, NEW t \in S, FirstAt(r, ids) < FirstAt(t, ids)
        PROVE  r \in before[t] /\ before[r] \subseteq before[t]
    BY <1>3, <2>2 DEF Before
  <2> QED
    BY <2>1, <2>2
<1>6. Cardinality(team) \in Nat /\ MaxTeamSize \in Nat /\ Room(team) = MaxTeamSize - Cardinality(team)
  BY TeamsAreFinite, RegistryAssumption DEF Room
<1>7. \A p \in S : Cardinality(before[p]) \in Nat
  <2>1. \A p \in S : before[p] \in SUBSET Persona
    BY <1>1
  <2> QED
    BY <2>1, TeamsAreFinite
<1>8. Room(team) < 0 => more = {}
  BY <1>6, <1>7
<1> HIDE DEF before, S
<1>9. Room(team) >= 0 => Cardinality(more) =< Room(team)
  <2> SUFFICES ASSUME Room(team) \in Nat PROVE Cardinality(more) =< Room(team)
    BY <1>6
  <2> QED
    BY <1>1, <1>4, <1>5, FewAreFirst
<1> HIDE DEF more
<1>10. more \in SUBSET Persona
  BY <1>1
<1> QED
  BY <1>2, <1>6, <1>8, <1>9, <1>10, TeamOfBoth

Limits(c, a) == {MaxTeamSize, TeamMax, TeamMin, Cardinality(Required(c, a))}

LEMMA SelectedIsBounded ==
    ASSUME NEW c \in FactsCase, NEW a, a.suggested \in Seq(Id), NEW more \in Seq(Id)
    PROVE  \E limit \in Limits(c, a) : Cardinality(Selected(c, a, more)) =< limit
<1> DEFINE required == Required(c, a)
           free     == Volunteers(c, a) \cap AfterExcludes(required, Volunteers(c, a))
           capped   == CapTeam(required, free)
           filled   == FillFloor(capped)
           ids      == c.escalations \o a.suggested \o more
<1>1. required \in SUBSET Persona /\ free \in SUBSET Persona
  <2>1. Volunteers(c, a) \subseteq Persona
    BY DEF Volunteers, FactsCase, TeamPersona
  <2> QED
    BY <2>1, RequiredArePersonas
<1>2. TeamMax \in Nat /\ TeamMin \in Nat /\ MaxTeamSize \in Nat
  BY RegistryAssumption
<1>3. Selected(c, a, more) = Escalate(filled, ids)
  BY DEF Selected
<1>4. ids \in Seq(Id)
  <2>1. c.escalations \in Seq(Id)
    BY DEF FactsCase, Id
  <2> QED
    BY <2>1, ConcatProperties
<1> HIDE DEF required, free, ids
<1>5. /\ capped \in SUBSET Persona
      /\ Cardinality(capped) =< TeamMax \/ Cardinality(capped) =< Cardinality(required)
  <2> DEFINE n == TeamMax - Cardinality(required)
  <2>1. n \in Int
    BY <1>1, <1>2, TeamsAreFinite
  <2>2. /\ Best(n, free) \in SUBSET Persona
        /\ n >= 0 => Cardinality(Best(n, free)) =< n
        /\ n < 0 => Best(n, free) = {}
    BY <1>1, <2>1, BestAreFew
  <2>3. capped = required \cup Best(n, free)
    BY DEF CapTeam
  <2> HIDE DEF capped
  <2> QED
    BY <1>1, <1>2, <2>2, <2>3, TeamOfBoth
<1> HIDE DEF capped
<1>6. /\ filled \in SUBSET Persona
      /\ Cardinality(filled) =< TeamMin \/ Cardinality(filled) =< Cardinality(capped)
  <2> DEFINE n == TeamMin - Cardinality(capped)
  <2>1. n \in Int /\ Agent \ capped \in SUBSET Persona
    BY <1>2, <1>5, TeamsAreFinite DEF Agent
  <2>2. /\ Best(n, Agent \ capped) \in SUBSET Persona
        /\ n >= 0 => Cardinality(Best(n, Agent \ capped)) =< n
        /\ n < 0 => Best(n, Agent \ capped) = {}
    BY <2>1, BestAreFew
  <2>3. filled = capped \cup Best(n, Agent \ capped)
    BY DEF FillFloor
  <2> HIDE DEF filled
  <2> QED
    BY <1>2, <1>5, <2>2, <2>3, TeamOfBoth
<1> HIDE DEF filled
<1>7. /\ Escalate(filled, ids) \in SUBSET Persona
      /\ \/ Cardinality(Escalate(filled, ids)) =< MaxTeamSize
         \/ Cardinality(Escalate(filled, ids)) =< Cardinality(filled)
  BY <1>4, <1>6, EscalateIsBounded
<1>8. /\ Cardinality(Escalate(filled, ids)) \in Nat /\ Cardinality(filled) \in Nat
      /\ Cardinality(capped) \in Nat /\ Cardinality(required) \in Nat
  BY <1>1, <1>5, <1>6, <1>7, TeamsAreFinite
<1>9. \/ Cardinality(Escalate(filled, ids)) =< MaxTeamSize
      \/ Cardinality(Escalate(filled, ids)) =< TeamMin
      \/ Cardinality(Escalate(filled, ids)) =< TeamMax
      \/ Cardinality(Escalate(filled, ids)) =< Cardinality(required)
  BY <1>2, <1>5, <1>6, <1>7, <1>8
<1> QED
  BY <1>3, <1>9 DEF Limits, required

\* Whoever ran, runs or waits.
Everyone == Ran \cup queue \cup running

FromRosters(ids) ==
    /\ Everyone \subseteq roster.members \cup Compute(facts, assessment, ids).members
    /\ final \in {roster, Compute(facts, assessment, ids)}

\* Who runs is of the first roster, and in wave 2 of the first or of one
\* recomputed roster.
Within ==
    /\ stage \in {"triage", "roster", "failed"} => final = NoRoster /\ Everyone = {}
    /\ stage = "wave 1" => final = roster /\ Everyone \subseteq roster.members
    /\ stage \in {"wave 2", "done"} => \E ids \in Seq(Id) : FromRosters(ids)

LEMMA WithinStep == ASSUME TypeOK, Within, [Next]_vars PROVE Within'
<1>0. queue \subseteq Persona /\ running \subseteq Persona /\ roster.members \in SUBSET Persona
  BY DEF TypeOK, RosterType
<1>1. CASE Triage
  <2>1. /\ UNCHANGED <<final, queue, running, status>>
        /\ stage = "triage" /\ stage' = "roster"
    BY <1>1 DEF Triage
  <2>2. Everyone' = Everyone
    BY <2>1 DEF Everyone, Ran
  <2> QED
    BY <2>1, <2>2 DEF Within
<1>2. CASE ComputeRoster
  <2>1. /\ UNCHANGED <<running, status>> /\ stage = "roster"
        /\ Ran = {} /\ queue = {} /\ running = {} /\ final = NoRoster
    BY <1>2 DEF ComputeRoster, Within, Everyone
  <2>2. \/ stage' = "failed" /\ UNCHANGED <<final, queue>>
        \/ final' = roster' /\ queue' = roster'.members /\ stage' = "wave 1"
    BY <1>2 DEF ComputeRoster, Dispatch
  <2>3. Everyone' = queue'
    BY <2>1 DEF Everyone, Ran
  <2> QED
    BY <2>1, <2>2, <2>3 DEF Within
<1>3. ASSUME UNCHANGED <<facts, assessment, roster, final>>,
             stage' = stage \/ (stage = "wave 2" /\ stage' = "done"),
             Everyone' \subseteq Everyone
      PROVE  Within'
  <2>1. CASE stage \in {"wave 2", "done"}
    <3>1. PICK ids \in Seq(Id) : FromRosters(ids)
      BY <2>1 DEF Within
    <3>2. FromRosters(ids)'
      BY <1>3, <3>1 DEF FromRosters
    <3> QED
      BY <1>3, <2>1, <3>2 DEF Within
  <2>2. CASE stage \notin {"wave 2", "done"}
    BY <1>3, <2>2 DEF Within
  <2> QED
    BY <2>1, <2>2
<1>4. CASE \E p \in Persona : Start(p)
  <2>1. PICK p \in Persona : Start(p)
    BY <1>4
  <2>2. /\ p \in queue /\ queue' = queue \ {p} /\ running' = running \cup {p}
        /\ UNCHANGED <<stage, facts, assessment, roster, final, status>>
    BY <2>1 DEF Start
  <2>3. Everyone' \subseteq Everyone
    BY <2>2 DEF Everyone, Ran
  <2> QED
    BY <1>3, <2>2, <2>3
<1>5. CASE \E p \in Persona : Finish(p)
  <2>1. PICK p \in Persona : Finish(p)
    BY <1>5
  <2>2. p \in running /\ running' = running \ {p} /\ queue' = queue
    BY <2>1 DEF Finish
  <2>3. \A q \in Persona \ {p} : status'[q] = status[q]
    BY <2>1 DEF Finish, TypeOK
  <2>4. Everyone' \subseteq Everyone
    BY <2>2, <2>3 DEF Everyone, Ran
  <2>5. UNCHANGED <<stage, facts, assessment, roster, final>>
    BY <2>1 DEF Finish
  <2> QED
    BY <1>3, <2>4, <2>5
<1>6. CASE Collect
  <2>1. /\ UNCHANGED <<facts, assessment, roster, running, status>>
        /\ stage = "wave 1" /\ stage' = "wave 2" /\ queue = {} /\ running = {}
    BY <1>6 DEF Collect, Drained
  <2>2. final = roster /\ Ran \subseteq roster.members
    BY <2>1 DEF Within, Everyone
  <2> DEFINE ids == Requests(roster.members)
  <2>3. ids \in Seq(Id)
    BY <1>0, RequestsAreAsked DEF AskedBy, Id
  <2>4. \/ UNCHANGED <<final, queue>>
        \/ final' = Recompute /\ queue' = Newcomers(Recompute.members)
    BY <1>6 DEF Collect, Dispatch
  <2>5. /\ final' \in {roster, Compute(facts, assessment, ids)}
        /\ queue' \subseteq Compute(facts, assessment, ids).members
    BY <2>1, <2>2, <2>4 DEF Recompute, Newcomers
  <2> HIDE DEF ids
  <2>6. Everyone' = Ran \cup queue'
    BY <2>1 DEF Everyone, Ran
  <2>7. PICK more \in Seq(Id) : more = ids
    BY <2>3
  <2>8. FromRosters(more)'
    BY <2>1, <2>2, <2>5, <2>6, <2>7 DEF FromRosters
  <2> QED
    BY <2>1, <2>8 DEF Within
<1>7. CASE StampFindings \/ UNCHANGED vars
  <2>1. /\ UNCHANGED <<facts, assessment, roster, final, queue, running, status>>
        /\ stage' = stage \/ (stage = "wave 2" /\ stage' = "done")
    BY <1>7 DEF StampFindings, vars
  <2>2. Everyone' = Everyone
    BY <2>1 DEF Everyone, Ran
  <2> QED
    BY <1>3, <2>1, <2>2
<1> QED
  BY <1>1, <1>2, <1>4, <1>5, <1>6, <1>7 DEF Next, Terminated

LEMMA EveryoneIsOfATeam ==
    ASSUME TypeOK, FirstWasAccepted, Rostered, NEW ids \in Seq(Id), FromRosters(ids)
    PROVE  /\ Ran \in SUBSET Selected(facts, assessment, ids)
           /\ Ran \in SUBSET (Compute(facts, assessment, <<>>).members
                                \cup Compute(facts, assessment, ids).members)
           /\ \/ final.members \in SUBSET Compute(facts, assessment, <<>>).members
              \/ final.members = Compute(facts, assessment, ids).members
<1> DEFINE first == Compute(facts, assessment, <<>>)
           second == Compute(facts, assessment, ids)
<1>1. first \in RosterType
  BY AssessmentAsks, ComputeKeepsRequired
<1>2. roster.members \subseteq first.members
  BY <1>1 DEF FirstWasAccepted, RestrictToScope, RosterType
<1>3. /\ first.members \subseteq Selected(facts, assessment, <<>>)
      /\ second.members \subseteq Selected(facts, assessment, ids)
  BY DEF Compute
<1>4. Selected(facts, assessment, <<>>) \subseteq Selected(facts, assessment, ids)
  BY AssessmentAsks, SelectedGrows
<1>5. Ran \subseteq roster.members \cup second.members /\ final \in {roster, second}
  BY DEF FromRosters, Everyone
<1> HIDE DEF first, second
<1>6. Ran \subseteq first.members \cup second.members
  BY <1>2, <1>5
<1>7. Ran \subseteq Selected(facts, assessment, ids)
  BY <1>3, <1>4, <1>6
<1>8. final.members \subseteq first.members \/ final.members = second.members
  BY <1>2, <1>5
<1> QED
  BY <1>6, <1>7, <1>8 DEF first, second

\* Both waves together keep to the limits of one roster, and a fork to the
\* token ceiling in what it publishes (roster.Compute, enforceBudget).
THEOREM BothWavesFit == Spec => []BothWavesBounded
<1>1. Init => Within
  BY DEF Init, Within, Everyone, Ran
<1>2. ASSUME TypeOK, FirstWasAccepted, Within
      PROVE  BothWavesBounded
  <2> DEFINE limits == {MaxTeamSize, TeamMax, TeamMin, Cardinality(Required(facts, assessment))}
  <2>1. facts \in FactsCase /\ assessment.suggested \in Seq(Id)
    BY <1>2, AssessmentAsks
  <2>2. limits \subseteq Nat
    BY <2>1, RequiredArePersonas, TeamsAreFinite, RegistryAssumption
  <2>3. \A x \in limits : Max(limits) >= x
    <3>1. \E x \in limits : \A y \in limits : x >= y
      BY <2>2
    <3> HIDE DEF limits
    <3> QED
      BY <3>1 DEF Max
  <2>4. Max(limits) \in limits
    <3>1. \E x \in limits : \A y \in limits : x >= y
      BY <2>2
    <3> HIDE DEF limits
    <3> QED
      BY <3>1 DEF Max
  <2>5. MaxTotalTokens \in Nat
    BY RegistryAssumption
  <2>6. Ran \in SUBSET Persona /\ Cardinality(Ran) \in Nat
    BY TeamsAreFinite DEF Ran
  <2>7. CASE ~Rostered
    <3>1. Ran = {} /\ final.members = {}
      <4>1. stage \in {"triage", "roster", "failed"}
        BY <1>2, <2>7 DEF TypeOK, Stage, Rostered
      <4>2. final = NoRoster /\ Everyone = {}
        BY <1>2, <4>1 DEF Within
      <4> QED
        BY <4>2 DEF Everyone, NoRoster
    <3>2. TotalTokens({}) = 0 /\ Cardinality({}) = 0
      BY TotalUnfolds, FS_EmptySet DEF Unfolds
    <3>3. Max(limits) \in Nat
      BY <2>2, <2>4
    <3> HIDE DEF limits
    <3>4. Cardinality(Ran) =< Max(limits)
      BY <3>1, <3>2, <3>3
    <3>5. TotalTokens(final.members) =< MaxTotalTokens /\ TotalTokens(Ran) =< 2 * MaxTotalTokens
      BY <2>5, <3>1, <3>2
    <3> QED
      BY <3>4, <3>5 DEF BothWavesBounded, limits
  <2>8. CASE Rostered
    <3>1. PICK ids \in Seq(Id) : FromRosters(ids)
      <4>1. CASE stage = "wave 1"
        <5>1. <<>> \in Seq(Id)
          BY EmptySeq
        <5>2. FromRosters(<<>>)
          BY <1>2, <4>1 DEF Within, FromRosters
        <5> QED
          BY <5>1, <5>2
      <4>2. CASE stage # "wave 1"
        BY <1>2, <2>8, <4>2 DEF Within, Rostered
      <4> QED
        BY <4>1, <4>2
    <3> DEFINE team == Selected(facts, assessment, ids)
               first == Compute(facts, assessment, <<>>)
               second == Compute(facts, assessment, ids)
    <3>2. /\ Ran \in SUBSET team /\ Ran \in SUBSET (first.members \cup second.members)
          /\ final.members \in SUBSET first.members \/ final.members = second.members
      BY <1>2, <2>8, <3>1, EveryoneIsOfATeam
    <3>3. team \in SUBSET Persona
      BY <2>1, SelectedKeepsRequired
    <3>4. Cardinality(Ran) =< Max(limits)
      <4>1. PICK limit \in limits : Cardinality(team) =< limit
        BY <2>1, SelectedIsBounded DEF Limits
      <4>2. Cardinality(Ran) =< Cardinality(team) /\ Cardinality(team) \in Nat
        BY <3>2, <3>3, TeamsAreFinite, FS_Subset
      <4>3. limit \in Nat /\ Max(limits) >= limit /\ Max(limits) \in Nat
        BY <2>2, <2>3, <2>4
      <4> HIDE DEF limits, team
      <4> QED
        BY <2>6, <4>1, <4>2, <4>3
    <3>5. ASSUME facts.isFork
          PROVE  TotalTokens(final.members) =< MaxTotalTokens /\ TotalTokens(Ran) =< 2 * MaxTotalTokens
      <4>1. first.members \in SUBSET Persona /\ second.members \in SUBSET Persona
        BY <2>1, ComputeKeepsRequired DEF RosterType
      <4>2. first.ok
        BY <1>2, <2>8 DEF FirstWasAccepted
      <4>3. TotalTokens(first.members) =< MaxTotalTokens /\ TotalTokens(second.members) =< MaxTotalTokens
        BY <2>1, <3>5, <4>2, ForkBudget
      <4> HIDE DEF first, second
      <4>4. /\ TotalTokens(first.members) \in Nat /\ TotalTokens(second.members) \in Nat
            /\ first.members \cup second.members \in SUBSET Persona
        BY <4>1, TotalIsNatural
      <4>5. TotalTokens(final.members) =< MaxTotalTokens
        <5>1. CASE final.members = second.members
          BY <4>3, <5>1
        <5>2. CASE final.members \in SUBSET first.members
          <6>1. TotalTokens(final.members) =< TotalTokens(first.members)
            BY <4>1, <5>2, TotalIsMonotone
          <6>2. final.members \in SUBSET Persona
            BY <4>1, <5>2
          <6> QED
            BY <2>5, <4>3, <4>4, <6>1, <6>2, TotalIsNatural
        <5> QED
          BY <3>2, <5>1, <5>2
      <4>6. TotalTokens(Ran) =< TotalTokens(first.members \cup second.members)
        BY <3>2, <4>4, TotalIsMonotone
      <4>7. TotalTokens(first.members \cup second.members)
                =< TotalTokens(first.members) + TotalTokens(second.members)
        BY <4>1, TotalOfBoth
      <4>8. TotalTokens(Ran) \in Nat /\ TotalTokens(first.members \cup second.members) \in Nat
        BY <2>6, <4>4, TotalIsNatural
      <4>9. TotalTokens(Ran) =< 2 * MaxTotalTokens
        BY <2>5, <4>3, <4>4, <4>6, <4>7, <4>8
      <4> QED
        BY <4>5, <4>9
    <3> HIDE DEF limits
    <3> QED
      BY <3>4, <3>5 DEF BothWavesBounded, limits
  <2> QED
    BY <2>7, <2>8
<1> QED
  BY <1>1, <1>2, WithinStep, TypeCorrect, FirstAccepted, PTL DEF Spec

-----------------------------------------------------------------------------
(* How far a run leaves the scope of its summons.                          *)

\* A member of the first roster has answered with an escalation.
SomeoneEscalated == \E q \in roster.members : status[q] = "ok" /\ escalate[q] # <<>>

LeavesScopeWhenAsked ==
    \A p \in Ran : ~InScope(p) => p \notin roster.members /\ SomeoneEscalated

Leaving ==
    /\ \A p \in roster.members : InScope(p)
    /\ \A p \in Everyone : p \notin roster.members => SomeoneEscalated

LEMMA LeavingStep ==
    ASSUME TypeOK, Apart, Asking, Leaving, [Next]_vars
    PROVE  Leaving'
<1>0. queue \subseteq Persona /\ running \subseteq Persona /\ roster.members \in SUBSET Persona
  BY DEF TypeOK, RosterType
<1>1. CASE Triage
  BY <1>1 DEF Triage, Leaving, Everyone, Ran, InScope, SomeoneEscalated
<1>2. CASE ComputeRoster
  <2> DEFINE first == Compute(facts, assessment, <<>>)
  <2>1. UNCHANGED <<scope, running, status, escalate>> /\ stage = "roster"
    BY <1>2 DEF ComputeRoster
  <2>2. Ran = {} /\ running = {} /\ queue = {}
    BY <2>1 DEF Apart, Ran
  <2>3. Everyone' = queue'
    BY <2>1, <2>2 DEF Everyone, Ran
  <2>4. CASE first.ok
    <3>1. roster' = RestrictToScope(first) /\ queue' = roster'.members
      BY <1>2, <2>4 DEF ComputeRoster, Dispatch
    <3>2. first \in RosterType
      BY AssessmentAsks, ComputeKeepsRequired
    <3>3. \A p \in roster'.members : InScope(p)
      BY <3>1, <3>2 DEF RestrictToScope, RosterType, InScope
    <3> QED
      BY <2>1, <2>3, <3>1, <3>3 DEF Leaving, InScope
  <2>5. CASE ~first.ok
    <3>1. UNCHANGED <<roster, queue>>
      BY <1>2, <2>5 DEF ComputeRoster
    <3> QED
      BY <2>1, <2>2, <2>3, <3>1 DEF Leaving, InScope
  <2> QED
    BY <2>4, <2>5
<1>3. ASSUME UNCHANGED <<scope, roster>>, Everyone' \subseteq Everyone,
             \A q \in roster.members : status[q] = "ok" =>
                 status'[q] = "ok" /\ escalate'[q] = escalate[q]
      PROVE  Leaving'
  BY <1>3 DEF Leaving, SomeoneEscalated, InScope
<1>4. CASE \E p \in Persona : Start(p)
  <2>1. PICK p \in Persona : Start(p)
    BY <1>4
  <2>2. /\ queue' \cup running' = queue \cup running
        /\ UNCHANGED <<scope, status, escalate, roster>>
    BY <2>1 DEF Start
  <2> QED
    BY <1>3, <2>2 DEF Everyone, Ran
<1>5. CASE \E p \in Persona : Finish(p)
  <2>1. PICK p \in Persona : Finish(p)
    BY <1>5
  <2>2. /\ p \in running /\ status[p] = "none"
        /\ running' = running \ {p} /\ UNCHANGED <<scope, queue, roster>>
    BY <2>1 DEF Finish, Apart
  <2>3. \A q \in Persona \ {p} : status'[q] = status[q] /\ escalate'[q] = escalate[q]
    BY <2>1 DEF Finish, TypeOK
  <2>4. Everyone' \subseteq Everyone
    BY <2>2, <2>3 DEF Everyone, Ran
  <2>5. \A q \in roster.members : status[q] = "ok" =>
            status'[q] = "ok" /\ escalate'[q] = escalate[q]
    BY <1>0, <2>2, <2>3
  <2> QED
    BY <1>3, <2>2, <2>4, <2>5
<1>6. CASE Collect
  <2>1. UNCHANGED <<scope, running, status, escalate, roster>>
    BY <1>6 DEF Collect
  <2>2. CASE Requests(roster.members) # <<>>
    <3> DEFINE ids == Requests(roster.members)
    <3>1. AskedBy(roster.members, ids)
      BY <1>0, RequestsAreAsked
    <3>2. ids \in Seq(Persona \cup {Unknown})
      BY <3>1 DEF AskedBy
    <3>3. 1 \in 1 .. Len(ids)
      <4> HIDE DEF ids
      <4>1. ids # <<>>
        BY <2>2 DEF ids
      <4> QED
        BY <3>2, <4>1, EmptySeq
    <3>4. PICK q \in roster.members : ids[1] \in Range(escalate[q])
      BY <3>1, <3>3 DEF AskedBy
    <3>5. escalate[q] # <<>>
      BY <3>4 DEF Range
    <3>6. SomeoneEscalated
      BY <1>0, <3>4, <3>5 DEF SomeoneEscalated, Asking
    <3> QED
      BY <2>1, <3>6 DEF Leaving, SomeoneEscalated, InScope
  <2>3. CASE Requests(roster.members) = <<>>
    <3>1. UNCHANGED queue
      BY <1>6, <2>3 DEF Collect
    <3> QED
      BY <1>3, <2>1, <3>1 DEF Everyone, Ran
  <2> QED
    BY <2>2, <2>3
<1>7. CASE StampFindings \/ UNCHANGED vars
  <2>1. UNCHANGED <<scope, queue, running, status, escalate, roster>>
    BY <1>7 DEF StampFindings, vars
  <2> QED
    BY <1>3, <2>1 DEF Everyone, Ran
<1> QED
  BY <1>1, <1>2, <1>4, <1>5, <1>6, <1>7 DEF Next, Terminated

\* ScopeRespected does not hold, and this is how far the code is from it: a
\* persona that a summons does not name runs in wave 2 only, and only after a
\* member that it names has answered with an escalation.  A summons whose
\* members ask for nobody keeps to its scope (runner.restrictToScope).
THEOREM ScopeLeftWhenAsked == Spec => []LeavesScopeWhenAsked
<1>1. Init => Leaving /\ Asking
  BY DEF Init, Leaving, Asking, Everyone, Ran, NoRoster, InScope
<1>2. Leaving => LeavesScopeWhenAsked
  BY DEF Leaving, LeavesScopeWhenAsked, Everyone
<1> QED
  BY <1>1, <1>2, LeavingStep, AskingStep, TypeCorrect, ApartAlways, FirstAccepted, PTL DEF Spec

-----------------------------------------------------------------------------
(* How long a run can be.                                                  *)

Idle == {p \in Persona : status[p] = "none" /\ p \notin running}
Unanswered == {p \in Persona : status[p] = "none"}

\* The steps of Review's goroutine that are still to come.
StagesLeft ==
    IF stage = "triage" THEN 4
    ELSE IF stage = "roster" THEN 3
    ELSE IF stage = "wave 1" THEN 2
    ELSE IF stage = "wave 2" THEN 1
    ELSE 0

\* Every persona can still be dispatched, and still answer.
StepsLeft == StagesLeft + Cardinality(Idle) + Cardinality(Unanswered)

MaxSteps == 4 + 2 * Cardinality(Persona)

LEMMA StepsAreCounted == TypeOK => StepsLeft \in 0 .. MaxSteps
<1> SUFFICES ASSUME TypeOK PROVE StepsLeft \in 0 .. MaxSteps
  OBVIOUS
<1>1. StagesLeft \in 0 .. 4
  BY DEF StagesLeft
<1>2. Idle \in SUBSET Persona /\ Unanswered \in SUBSET Persona /\ Persona \in SUBSET Persona
  BY DEF Idle, Unanswered
<1>3. /\ Cardinality(Idle) \in Nat /\ Cardinality(Unanswered) \in Nat /\ Cardinality(Persona) \in Nat
      /\ Cardinality(Idle) =< Cardinality(Persona) /\ Cardinality(Unanswered) =< Cardinality(Persona)
  BY <1>2, TeamsAreFinite, FS_Subset
<1> QED
  BY <1>1, <1>3 DEF StepsLeft, MaxSteps

LEMMA StepsDecrease ==
    ASSUME TypeOK, Apart, Next, vars' # vars
    PROVE  StepsLeft' < StepsLeft
<1>1. /\ Idle \in SUBSET Persona /\ Unanswered \in SUBSET Persona
      /\ Cardinality(Idle) \in Nat /\ Cardinality(Unanswered) \in Nat
  BY TeamsAreFinite DEF Idle, Unanswered
<1>2. StagesLeft \in Nat
  BY DEF TypeOK, Stage, StagesLeft
<1>3. CASE Triage \/ ComputeRoster \/ Collect \/ StampFindings
  <2>1. UNCHANGED <<running, status>>
    BY <1>3 DEF Triage, ComputeRoster, Collect, StampFindings
  <2>2. Idle' = Idle /\ Unanswered' = Unanswered
    BY <2>1 DEF Idle, Unanswered
  <2>3. StagesLeft' \in Nat /\ StagesLeft' < StagesLeft
    <3>1. CASE Triage
      <4>1. stage = "triage" /\ stage' = "roster"
        BY <3>1 DEF Triage
      <4>2. StagesLeft = 4 /\ StagesLeft' = 3
        BY <4>1 DEF StagesLeft
      <4> QED
        BY ONLY <4>2
    <3>2. CASE ComputeRoster
      <4>1. stage = "roster" /\ stage' \in {"wave 1", "failed"}
        BY <3>2 DEF ComputeRoster
      <4>2. StagesLeft = 3 /\ (StagesLeft' = 2 \/ StagesLeft' = 0)
        BY <4>1 DEF StagesLeft
      <4> QED
        BY ONLY <4>2
    <3>3. CASE Collect
      <4>1. stage = "wave 1" /\ stage' = "wave 2"
        BY <3>3 DEF Collect
      <4>2. StagesLeft = 2 /\ StagesLeft' = 1
        BY <4>1 DEF StagesLeft
      <4> QED
        BY ONLY <4>2
    <3>4. CASE StampFindings
      <4>1. stage = "wave 2" /\ stage' = "done"
        BY <3>4 DEF StampFindings
      <4>2. StagesLeft = 1 /\ StagesLeft' = 0
        BY <4>1 DEF StagesLeft
      <4> QED
        BY ONLY <4>2
    <3> QED
      BY <1>3, <3>1, <3>2, <3>3, <3>4
  <2> QED
    BY <1>1, <1>2, <2>2, <2>3 DEF StepsLeft
<1>4. ASSUME NEW p \in Persona, Start(p)
      PROVE  StepsLeft' < StepsLeft
  <2>1. /\ p \in queue /\ status[p] = "none" /\ p \notin running /\ running' = running \cup {p}
        /\ UNCHANGED <<stage, status>>
    BY <1>4 DEF Start, Apart
  <2>2. Idle' = Idle \ {p} /\ p \in Idle /\ Unanswered' = Unanswered /\ StagesLeft' = StagesLeft
    BY <2>1 DEF Idle, Unanswered, StagesLeft
  <2>3. Cardinality(Idle \ {p}) = Cardinality(Idle) - 1
    BY <1>1, <2>2, OneLess
  <2> QED
    BY <1>1, <1>2, <2>2, <2>3 DEF StepsLeft
<1>5. ASSUME NEW p \in Persona, Finish(p)
      PROVE  StepsLeft' < StepsLeft
  <2>1. /\ p \in running /\ status[p] = "none" /\ running' = running \ {p} /\ UNCHANGED stage
        /\ status'[p] # "none" /\ \A q \in Persona \ {p} : status'[q] = status[q]
    BY <1>5 DEF Finish, Apart, TypeOK
  <2>2. Idle' = Idle /\ Unanswered' = Unanswered \ {p} /\ p \in Unanswered /\ StagesLeft' = StagesLeft
    BY <2>1 DEF Idle, Unanswered, StagesLeft
  <2>3. Cardinality(Unanswered \ {p}) = Cardinality(Unanswered) - 1
    BY <1>1, <2>2, OneLess
  <2> QED
    BY <1>1, <1>2, <2>2, <2>3 DEF StepsLeft
<1> QED
  BY <1>3, <1>4, <1>5 DEF Next, Terminated

\* Neither escalations nor failures can keep a run busy: every step uses up one
\* of a number of steps that depends on the registry alone, two for each
\* persona over both waves.
THEOREM RunsRunOut ==
    Spec => [](StepsLeft \in 0 .. MaxSteps) /\ [][StepsLeft' < StepsLeft]_vars
<1>1. TypeOK /\ Apart /\ [Next]_vars => [StepsLeft' < StepsLeft]_vars
  BY StepsDecrease
<1> QED
  BY <1>1, StepsAreCounted, TypeCorrect, ApartAlways, PTL DEF Spec

-----------------------------------------------------------------------------
(* The semaphore.  It holds one token for each member that runs, and it    *)
(* has room for one as long as the wave has members to dispatch or to wait *)
(* for.  A wave makes its semaphore anew: that loses no token, because no  *)
(* member of the wave before it still runs.                                *)
Accounted ==
    /\ held = Cardinality(running)
    /\ held =< capacity
    /\ queue \cup running # {} => capacity > 0

LEMMA AccountedStep ==
    ASSUME TypeOK, Apart, Accounted, [Next]_vars
    PROVE  Accounted'
<1>0. Cardinality(running) \in Nat /\ Cardinality(running') \in Nat
  <2>1. TypeOK'
    BY TypeStep
  <2> QED
    BY <2>1, TeamsAreFinite DEF TypeOK
<1>1. capacity \in Nat /\ held \in Nat
  BY TokensAreNatural
<1>2. ASSUME NEW members \in SUBSET Persona, Dispatch(members), running = {}, running' = {}
      PROVE  Accounted'
  <2>1. /\ queue' = members /\ held' = 0 /\ capacity' \in 0 .. Slots
        /\ members # {} => capacity' > 0
    BY <1>2, DispatchMakesRoom
  <2>2. Cardinality(running') = 0
    BY <1>2, FS_EmptySet
  <2>3. Slots \in Nat
    BY RunAssumption
  <2>4. held' =< capacity'
    BY ONLY <2>1, <2>3
  <2> QED
    BY <1>2, <2>1, <2>2, <2>4 DEF Accounted
<1>3. CASE UNCHANGED <<queue, capacity, held, running>>
  BY <1>3 DEF Accounted
<1>4. CASE ComputeRoster
  <2> DEFINE first == Compute(facts, assessment, <<>>)
  <2>1. RestrictToScope(first).members \in SUBSET Persona
    <3>1. first \in RosterType
      BY AssessmentAsks, ComputeKeepsRequired
    <3> QED
      BY <3>1 DEF RestrictToScope, RosterType
  <2>2. running = {} /\ running' = {}
    BY <1>4 DEF ComputeRoster, Apart
  <2> HIDE DEF first
  <2>3. CASE Dispatch(RestrictToScope(first).members)
    BY <1>2, <2>1, <2>2, <2>3
  <2>4. CASE UNCHANGED <<queue, capacity, held>>
    BY <1>3, <1>4, <2>4 DEF ComputeRoster
  <2> QED
    BY <1>4, <2>3, <2>4 DEF ComputeRoster, first
<1>5. CASE Collect
  <2>1. Newcomers(Recompute.members) \in SUBSET Persona
    BY AssessmentAsks, ComputeKeepsRequired DEF Recompute, Newcomers, RosterType
  <2>2. running = {} /\ running' = {}
    BY <1>5 DEF Collect, Drained
  <2>3. CASE Dispatch(Newcomers(Recompute.members))
    BY <1>2, <2>1, <2>2, <2>3
  <2>4. CASE UNCHANGED <<queue, capacity, held>>
    BY <1>3, <1>5, <2>4 DEF Collect
  <2> QED
    BY <1>5, <2>3, <2>4 DEF Collect
<1>6. ASSUME NEW p \in Persona, Start(p)
      PROVE  Accounted'
  <2>1. /\ p \in queue /\ p \notin running /\ running' = running \cup {p}
        /\ held < capacity /\ held' = held + 1 /\ capacity' = capacity
    BY <1>6 DEF Start, Apart
  <2>2. Cardinality(running') = Cardinality(running) + 1
    BY <2>1, TeamsAreFinite, FS_AddElement DEF TypeOK
  <2>3. held = Cardinality(running)
    BY DEF Accounted
  <2>4. held' = Cardinality(running') /\ held' =< capacity' /\ capacity' > 0
    BY ONLY <1>0, <1>1, <2>1, <2>2, <2>3
  <2> QED
    BY <2>4 DEF Accounted
<1>7. ASSUME NEW p \in Persona, Finish(p)
      PROVE  Accounted'
  <2>1. /\ p \in running /\ running' = running \ {p}
        /\ held > 0 /\ held' = held - 1 /\ UNCHANGED <<capacity, queue>>
    BY <1>7 DEF Finish
  <2>2. Cardinality(running') = Cardinality(running) - 1
    BY <2>1, OneLess DEF TypeOK
  <2>3. held = Cardinality(running) /\ held =< capacity
    BY DEF Accounted
  <2>4. held' = Cardinality(running') /\ held' =< capacity' /\ capacity' > 0
    BY ONLY <1>0, <1>1, <2>1, <2>2, <2>3
  <2> QED
    BY <2>4 DEF Accounted
<1> QED
  BY <1>3, <1>4, <1>5, <1>6, <1>7 DEF Next, Triage, StampFindings, Terminated, vars

LEMMA AccountedAlways == Spec => []Accounted
<1>1. Init => Accounted
  BY FS_EmptySet DEF Init, Accounted
<1> QED
  BY <1>1, AccountedStep, TypeCorrect, ApartAlways, PTL DEF Spec

\* No more members of a wave run than its semaphore has room for, the dispatching
\* loop only waits for a member that runs, and a member that ends, well or not,
\* finds its token (runWave's two uses of sem).
THEOREM SemaphoreCirculates == Spec => []SlotsCirculate
<1>1. TypeOK /\ Accounted => SlotsCirculate
  <2> SUFFICES ASSUME TypeOK, Accounted PROVE SlotsCirculate
    OBVIOUS
  <2>1. capacity \in Nat /\ held \in Nat
    BY TokensAreNatural
  <2>2. Cardinality(running) = held /\ held =< capacity
    BY DEF Accounted
  <2>3. running # {} => held > 0
    <3>1. running # {} => Cardinality(running) # 0
      BY TeamsAreFinite, FS_EmptySet DEF TypeOK
    <3> QED
      BY <2>1, <2>2, <3>1
  <2>4. queue # {} /\ held >= capacity => running # {}
    <3>1. running = {} => held = 0
      BY <2>2, FS_EmptySet
    <3>2. queue # {} => capacity > 0
      BY DEF Accounted
    <3>3. held = 0 /\ capacity > 0 => ~(held >= capacity)
      BY ONLY <2>1
    <3> QED
      BY <3>1, <3>2, <3>3
  <2> QED
    BY <2>2, <2>3, <2>4 DEF SlotsCirculate
<1> QED
  BY <1>1, TypeCorrect, AccountedAlways, PTL

\* What can happen next, action by action: the next step of Review's goroutine,
\* the dispatching loop's send, or the receive of a member that ends.
SomethingIsDue ==
    \/ stage \in {"triage", "roster"}
    \/ stage \in {"wave 1", "wave 2"} /\ Drained
    \/ \E p \in queue : (\A q \in queue : p =< q) /\ held < capacity
    \/ \E p \in running : held > 0

\* Until a run is over some step of it is due: neither the dispatching loop nor
\* a member that ends waits on a semaphore nobody else will act on.
THEOREM NobodyIsStuck == Spec => [](stage \notin {"done", "failed"} => SomethingIsDue)
<1>1. TypeOK /\ SlotsCirculate => (stage \notin {"done", "failed"} => SomethingIsDue)
  <2> SUFFICES ASSUME TypeOK, SlotsCirculate, stage \in {"wave 1", "wave 2"},
                      running = {}, queue # {}
               PROVE  \E p \in queue : (\A q \in queue : p =< q) /\ held < capacity
    BY DEF SomethingIsDue, SlotsCirculate, TypeOK, Stage, Drained
  <2>1. queue \subseteq Nat
    BY RegistryAssumption DEF TypeOK
  <2>2. PICK p \in queue : \A q \in queue : p =< q
    BY <2>1, LeastNatural
  <2>3. held < capacity
    <3>1. ~(held >= capacity)
      BY DEF SlotsCirculate
    <3>2. held \in Nat /\ capacity \in Nat
      BY TokensAreNatural
    <3> QED
      BY ONLY <3>1, <3>2
  <2> QED
    BY <2>2, <2>3
<1> QED
  BY <1>1, TypeCorrect, SemaphoreCirculates, PTL
=============================================================================
