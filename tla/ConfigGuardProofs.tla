------------------------- MODULE ConfigGuardProofs -------------------------
(***************************************************************************)
(* What config-guard and the layering of personas promise, for any         *)
(* built-ins, ceilings, configurations and changes.                        *)
(***************************************************************************)
EXTENDS ConfigGuard, WellFoundedInduction, TLAPS

-----------------------------------------------------------------------------
(* The layers. *)

\* A nonempty set of paths has a greatest element: the least distance from the
\* end is that of one of them.
LEMMA LastPath ==
    ASSUME NEW S, S \subseteq Path, S # {}
    PROVE  Max(S) \in S
<1> USE PathAssumption
<1> DEFINE Distances == {PathCount - p : p \in S}
<1>1. \A p \in S : p \in Int /\ p =< PathCount /\ PathCount - p \in Nat
  BY DEF Path
<1>2. Distances \subseteq Nat /\ Distances # {}
  BY <1>1
<1>3. PICK least \in Distances : \A d \in Distances : ~(<<d, least>> \in OpToRel(<, Nat))
  BY <1>2, NatLessThanWellFounded, WFMin
<1>4. PICK p \in S : least = PathCount - p
  OBVIOUS
<1>5. ASSUME NEW q \in S PROVE p >= q
  <2>1. PathCount - q \in Distances /\ PathCount - q \in Nat
    BY <1>1
  <2>2. ~(PathCount - q < PathCount - p)
    BY <2>1, <1>1, <1>3, <1>4 DEF OpToRel
  <2> QED
    BY <2>2, <1>1
<1> QED
  BY <1>5 DEF Max

\* A persona of the program that is immutable keeps its definition and its
\* prompt in any directory that loads.
LEMMA ImmutableKept ==
    ASSUME NEW tree, ~Redefines(tree), NEW guard \in Builtins, guard.immutable
    PROVE  /\ Definers(tree, guard.id) = {}
           /\ Definition(tree, guard.id) = guard
           /\ PromptOf(tree, guard.id) = "builtin"
<1>1. Immutable(guard.id)
  BY DEF Immutable
<1>2. Definers(tree, guard.id) = {}
  BY <1>1 DEF Redefines, Definers
<1>3. (CHOOSE d \in Builtins : d.id = guard.id) = guard
  BY BuiltinsAssumption
<1> QED
  BY <1>2, <1>3 DEF Definition, PromptOf

\* So does its entry in a registry.
LEMMA ImmutableEntry ==
    ASSUME NEW checkout, LoadsTree(checkout), NEW guard \in Builtins, guard.immutable
    PROVE  /\ guard.id \in DOMAIN RegistryOf(checkout)
           /\ RegistryOf(checkout)[guard.id] = [definition |-> guard, tuned |-> Own(guard), overlay |-> Unset]
           /\ PromptOf(checkout.personas, guard.id) = "builtin"
           /\ guard.capability # Unset =>
                  guard.capability \in DOMAIN LoadConfig(checkout.config).models
<1> DEFINE tree   == checkout.personas
           config == LoadConfig(checkout.config)
<1>1. /\ ~Redefines(tree)
      /\ \A id \in DOMAIN config.personas : Allowed(Definition(tree, id), OverrideOf(config, id))
      /\ \A id \in DOMAIN Registry(tree, config) :
             Bound(Registry(tree, config)[id].definition, config.models)
  BY DEF LoadsTree, Resolves
<1>2. /\ Definition(tree, guard.id) = guard
      /\ PromptOf(tree, guard.id) = "builtin"
  BY <1>1, ImmutableKept
<1>3. Immutable(guard.id)
  BY DEF Immutable
<1>4. OverrideOf(config, guard.id) = NoOverride
  <2>1. CASE guard.id \in DOMAIN config.personas
    BY <2>1, <1>1, <1>2, <1>3 DEF Allowed
  <2>2. CASE guard.id \notin DOMAIN config.personas
    BY <2>2 DEF OverrideOf
  <2> QED
    BY <2>1, <2>2
<1>5. guard.id \in Enabled(tree, config)
  BY <1>3 DEF Enabled, Defined, Ids, Off
<1>6. RegistryOf(checkout)[guard.id] = [definition |-> guard, tuned |-> Own(guard), overlay |-> Unset]
  BY <1>2, <1>3, <1>4, <1>5 DEF RegistryOf, Registry, Entry, Tuned, NoOverride, Own
<1>7. guard.capability # Unset => guard.capability \in DOMAIN config.models
  BY <1>1, <1>5, <1>6 DEF RegistryOf, Registry, Bound
<1> QED
  BY <1>2, <1>5, <1>6, <1>7 DEF RegistryOf, Registry

\* Every id that is defined has a definition of its own that was validated.
LEMMA DefinitionsTyped ==
    ASSUME NEW checkout, LoadsTree(checkout), IsCheckout(checkout),
           NEW id \in Defined(checkout.personas)
    PROVE  /\ IsDefinition(Definition(checkout.personas, id))
           /\ Valid(Definition(checkout.personas, id))
           /\ Definition(checkout.personas, id).id = id
<1> DEFINE tree == checkout.personas
           d    == Definition(tree, id)
<1>1. CASE Definers(tree, id) = {}
  <2>1. id \in Ids(Builtins)
    BY <1>1 DEF Defined, Definers
  <2>2. PICK b \in Builtins : b.id = id
    BY <2>1 DEF Ids
  <2>3. d \in Builtins /\ d.id = id
    BY <1>1, <2>2 DEF Definition
  <2> QED
    BY <2>3, BuiltinsAssumption, ShapeAssumption
<1>2. CASE Definers(tree, id) # {}
  <2> DEFINE p == Max(Definers(tree, id))
  <2>1. p \in Definers(tree, id)
    <3>1. Definers(tree, id) \subseteq Path
      BY DEF Definers, Files, IsCheckout
    <3> QED
      BY <1>2, <3>1, LastPath
  <2>2. d = tree[p]
    BY <1>2 DEF Definition
  <2>3. p \in Path /\ tree[p] \notin {Absent, Broken} /\ Valid(tree[p]) /\ tree[p].id = id
    BY <2>1 DEF Definers, Files, LoadsTree, LoadsDir, IsCheckout
  <2> QED
    BY <2>2, <2>3 DEF IsCheckout
<1> QED
  BY <1>1, <1>2

\* No entry is above a ceiling or its own definition, and agents are verified.
LEMMA EntriesBounded ==
    ASSUME NEW checkout, LoadsTree(checkout), IsCheckout(checkout),
           NEW id \in DOMAIN RegistryOf(checkout)
    PROVE  LET entry == RegistryOf(checkout)[id]
           IN  /\ WithinCeilings(entry.tuned)
               /\ entry.tuned.tokens =< entry.definition.tokens
               /\ entry.tuned.calls =< entry.definition.calls
               /\ entry.definition.kind = "agent" => entry.definition.verified
<1> DEFINE tree   == checkout.personas
           config == LoadConfig(checkout.config)
           d      == Definition(tree, id)
           ov     == OverrideOf(config, id)
<1>1. /\ id \in Enabled(tree, config)
      /\ RegistryOf(checkout)[id] = [definition |-> d, tuned |-> Tuned(d, ov), overlay |-> ov.overlay]
  BY DEF RegistryOf, Registry, Entry
<1>2. /\ \A i \in DOMAIN config.personas : Allowed(Definition(tree, i), OverrideOf(config, i))
      /\ WithinCeilings(Tuned(d, ov))
  BY <1>1 DEF LoadsTree, Resolves, RegistryOf, Registry, Entry
<1>3. IsDefinition(d) /\ Valid(d) /\ d.id = id
  BY <1>1, DefinitionsTyped DEF Enabled
<1>4. Tuned(d, ov).tokens =< d.tokens /\ Tuned(d, ov).calls =< d.calls
  <2>1. CASE id \in DOMAIN config.personas
    <3>1. Allowed(d, ov) /\ (Immutable(id) \/ ov.enabled # FALSE)
      BY <2>1, <1>1, <1>2 DEF Enabled, Off
    <3>2. CASE Immutable(id)
      BY <3>2, <1>3 DEF Tuned, Own, IsDefinition
    <3>3. CASE ~Immutable(id) /\ ov.budget = Unset
      BY <3>3, <1>3 DEF Tuned, Own, IsDefinition
    <3>4. CASE ~Immutable(id) /\ ov.budget # Unset
      <4>1. ov.budget.tokens =< d.tokens /\ ov.budget.calls =< d.calls
        BY <3>1, <3>4, <1>3 DEF Allowed
      <4> QED
        BY <3>4, <4>1, <1>3 DEF Tuned
    <3> QED
      BY <3>2, <3>3, <3>4
  <2>2. CASE id \notin DOMAIN config.personas
    <3>1. ov = NoOverride
      BY <2>2 DEF OverrideOf
    <3> QED
      BY <3>1, <1>3 DEF Tuned, Own, IsDefinition, NoOverride
  <2> QED
    BY <2>1, <2>2
<1> QED
  BY <1>1, <1>2, <1>3, <1>4 DEF Valid

-----------------------------------------------------------------------------
(* The run. *)

\* What is said of every file that was compared and had: its facts are there,
\* and there are no others about config.yaml if that was had.
ConfigWhat == {"gate.fail_on", "skip_classes", "docs_globs", "disabled", "budget", "overlay"}

Complete ==
    Resolved =>
        /\ \A file \in Listed \ (pending \cup unread) :
               Diff(file, Content(base, file), Content(head, file)) \subseteq facts
        /\ \A fact \in facts :
               fact.what \in ConfigWhat =>
                   \/ ConfigFile \in unread
                   \/ fact \in DiffConfigFiles(base.config, head.config)

NothingYet == ~Resolved => facts = {} /\ pending = {} /\ unread = {}

IInv == TypeOK /\ NothingYet /\ Complete

\* Every fact is of a known kind, and those of a definition or of the workflow
\* are not about config.yaml.
LEMMA FactsTyped ==
    ASSUME NEW file \in ReviewFiles, NEW was, NEW is, NEW fact \in Diff(file, was, is)
    PROVE  /\ file = ConfigFile => fact.what \in ConfigWhat
           /\ file # ConfigFile => fact.what \in {"required_when", "permissions"}
<1>1. CASE file = ConfigFile
  <2> DEFINE b == LoadConfig(was)
             h == LoadConfig(is)
  <2>1. fact \in DiffConfig(b, h)
    BY <1>1 DEF Diff, ConfigFile, DiffConfigFiles
  <2>2. CASE fact \in LoosenedGate(b, h)
    <3>1. fact = Fact("gate.fail_on", "")
      BY <2>2 DEF LoosenedGate, FactIf
    <3> QED
      BY <3>1, <1>1 DEF Fact, ConfigWhat
  <2>3. CASE fact \in WidenedSkip(b, h)
    <3>1. \/ \E class : fact = Fact("skip_classes", class)
          \/ \E glob : fact = Fact("docs_globs", glob)
      BY <2>3 DEF WidenedSkip
    <3> QED
      BY <3>1, <1>1 DEF Fact, ConfigWhat
  <2>4. CASE \E id \in DOMAIN h.personas :
                 fact \in WeakenedOverride(OverrideOf(b, id), h.personas[id], id)
    <3>1. PICK id \in DOMAIN h.personas :
                   fact \in WeakenedOverride(OverrideOf(b, id), h.personas[id], id)
      BY <2>4
    <3> DEFINE w == OverrideOf(b, id)
               i == h.personas[id]
    <3>2. CASE fact \in Disabled(w, i, id)
      <4>1. fact = Fact("disabled", id)
        BY <3>2 DEF Disabled, FactIf
      <4> QED
        BY <4>1, <1>1 DEF Fact, ConfigWhat
    <3>3. CASE fact \in RaisedBudget(w, i, id)
      <4>1. fact = Fact("budget", id)
        BY <3>3 DEF RaisedBudget, FactIf
      <4> QED
        BY <4>1, <1>1 DEF Fact, ConfigWhat
    <3>4. CASE fact \in NewOverlay(w, i, id)
      <4>1. fact = Fact("overlay", id)
        BY <3>4 DEF NewOverlay, FactIf
      <4> QED
        BY <4>1, <1>1 DEF Fact, ConfigWhat
    <3> QED
      BY <3>1, <3>2, <3>3, <3>4 DEF WeakenedOverride
  <2> QED
    BY <1>1, <2>1, <2>2, <2>3, <2>4 DEF DiffConfig
<1>2. CASE file = WorkflowFile
  <2>1. fact \in DiffWorkflowFiles(was, is)
    BY <1>2 DEF Diff, WorkflowFile
  <2> QED
    <3>1. fact = Fact("permissions", "")
      BY <2>1 DEF DiffWorkflowFiles, FactIf
    <3> QED
      BY <1>2, <3>1 DEF Fact, WorkflowFile, ConfigFile
<1>3. CASE \E p \in Path : file = PersonaFile(p)
  <2>1. fact \in DiffPersonaFiles(was, is) /\ file # ConfigFile
    BY <1>3 DEF Diff, PersonaFile, ConfigFile
  <2>2. {was, is} \cap {Absent, Broken} = {}
    BY <2>1 DEF DiffPersonaFiles
  <2>3. fact = Fact("required_when", is.id)
    BY <2>1, <2>2 DEF DiffPersonaFiles, FactIf
  <2> QED
    BY <2>1, <2>3 DEF Fact
<1> QED
  BY <1>1, <1>2, <1>3 DEF ReviewFiles

LEMMA Initially == Init => IInv
  BY DEF Init, IInv, TypeOK, OfChanges, NothingYet, Complete, Resolved

LEMMA Inductive == IInv /\ [Next]_vars => IInv'
<1> SUFFICES ASSUME IInv, [Next]_vars PROVE IInv'
  OBVIOUS
<1> USE DEF IInv
<1>1. CASE Load
  <2>1. UNCHANGED <<base, head, moved, facts, judged, unread>> /\ phase = "load" /\ facts = {} /\ unread = {}
    BY <1>1 DEF Load, NothingYet, Resolved, pullRequest
  <2>2. Listed' = Listed /\ Gone' = Gone
    BY <2>1 DEF Listed, Gone, Changed, Content
  <2>3. CASE LoadsTree(head)
    BY <1>1, <2>1, <2>2, <2>3
       DEF Load, TypeOK, OfChanges, NothingYet, Complete, Resolved, pullRequest
  <2>4. CASE ~LoadsTree(head)
    BY <1>1, <2>1, <2>2, <2>4 DEF Load, TypeOK, OfChanges, NothingYet, Complete, Resolved, pullRequest
  <2> QED
    BY <2>3, <2>4
<1>2. ASSUME NEW file \in pending, NEW baseWorks \in BOOLEAN, NEW headWorks \in BOOLEAN,
             Compare(file, baseWorks, headWorks)
      PROVE  IInv'
  <2> DEFINE found == Diff(file, Fetched(base, file, baseWorks), Fetched(head, file, headWorks))
  <2>1. /\ UNCHANGED <<base, head, moved, registry, judged>> /\ phase = "compare"
        /\ facts' = facts \cup found
        /\ unread' = IF baseWorks /\ headWorks THEN unread ELSE unread \cup {file}
        /\ pending' = pending \ {file}
        /\ phase' = IF pending = {file} THEN "judge" ELSE "compare"
    BY <1>2 DEF Compare, pullRequest
  <2>2. Listed' = Listed /\ Gone' = Gone /\ file \in Listed /\ file \in ReviewFiles
    BY <2>1 DEF Listed, Gone, Changed, Content, TypeOK
  <2>3. \A fact \in found : /\ fact.what \in ConfigWhat => file = ConfigFile
                           /\ fact.what \in ConfigWhat \cup {"required_when", "permissions"}
    BY <2>2, FactsTyped DEF ConfigWhat
  <2>4. TypeOK'
    BY <2>1, <2>2, <2>3 DEF TypeOK, OfChanges, Resolved, ConfigWhat
  <2>5. \A f \in Listed \ (pending' \cup unread') :
            Diff(f, Content(base, f), Content(head, f)) \subseteq facts'
    <3>1. CASE baseWorks /\ headWorks
      BY <3>1, <2>1 DEF Complete, Resolved, Fetched
    <3>2. CASE ~(baseWorks /\ headWorks)
      BY <3>2, <2>1 DEF Complete, Resolved
    <3> QED
      BY <3>1, <3>2
  <2>6. \A fact \in facts' :
            fact.what \in ConfigWhat =>
                ConfigFile \in unread' \/ fact \in DiffConfigFiles(base.config, head.config)
    <3> SUFFICES ASSUME NEW fact \in facts', fact.what \in ConfigWhat, ConfigFile \notin unread'
                 PROVE  fact \in DiffConfigFiles(base.config, head.config)
      OBVIOUS
    <3>1. CASE fact \in facts
      BY <3>1, <2>1 DEF Complete, Resolved
    <3>2. CASE fact \in found
      <4>1. file = ConfigFile /\ baseWorks /\ headWorks
        BY <3>2, <2>1, <2>3
      <4>2. fact \in Diff(file, Content(base, file), Content(head, file))
        BY <4>1, <3>2 DEF Fetched
      <4> QED
        BY <4>1, <4>2 DEF Diff, Content, ConfigFile
    <3> QED
      BY <2>1, <3>1, <3>2
  <2>7. \A f : Content(base, f)' = Content(base, f) /\ Content(head, f)' = Content(head, f)
    BY <2>1 DEF Content
  <2>8. Complete' /\ NothingYet'
    BY <2>1, <2>2, <2>5, <2>6 DEF Complete, NothingYet, Resolved, Content
  <2> QED
    BY <2>4, <2>8
<1>3. ASSUME NEW answered \in BOOLEAN, Judge(answered) PROVE IInv'
  <2>1. /\ UNCHANGED <<base, head, moved, registry, pending, facts, unread>>
        /\ phase = "judge" /\ phase' = "done" /\ judged' = answered
    BY <1>3 DEF Judge, pullRequest
  <2>2. Listed' = Listed /\ Gone' = Gone
    BY <2>1 DEF Listed, Gone, Changed, Content
  <2> QED
    BY <2>1, <2>2 DEF TypeOK, OfChanges, NothingYet, Complete, Resolved, Content
<1>4. CASE UNCHANGED vars
  <2>1. Listed' = Listed /\ Gone' = Gone
    BY <1>4 DEF vars, Listed, Gone, Changed, Content
  <2> QED
    BY <1>4, <2>1 DEF vars, TypeOK, OfChanges, NothingYet, Complete, Resolved, Content
<1> QED
  BY <1>1, <1>2, <1>3, <1>4 DEF Next, Finished, Answered

LEMMA Invariance == Spec => []IInv
  BY Initially, Inductive, PTL DEF Spec

\* The variables of the run keep their types, and its registry is the head's,
\* resolved (localconfig.Load, builtin/config-guard).
THEOREM TypeCorrect == Spec => []TypeOK
<1>1. IInv => TypeOK
  BY DEF IInv
<1> QED
  BY <1>1, Invariance, PTL

\* Whatever a repository configures, what the program ships as immutable is in
\* the registry as shipped (persona.Resolve).
THEOREM GuardsAlwaysStand == Spec => []GuardsStand
<1>1. TypeOK => GuardsStand
  <2> SUFFICES ASSUME TypeOK, Resolved, NEW guard \in Builtins, guard.immutable
               PROVE  /\ guard.id \in DOMAIN registry
                      /\ registry[guard.id] =
                             [definition |-> guard, tuned |-> Own(guard), overlay |-> Unset]
                      /\ PromptOf(head.personas, guard.id) = "builtin"
                      /\ guard.capability # Unset =>
                             guard.capability \in DOMAIN LoadConfig(head.config).models
    BY DEF GuardsStand
  <2> QED
    BY ImmutableEntry DEF TypeOK
<1> QED
  BY <1>1, TypeCorrect, PTL

\* No combination of layers passes a ceiling or a definition's own budget,
\* leaves an agent unverified, or has no or two triage personas.
THEOREM LayersAlwaysBounded == Spec => []LayersAreBounded
<1>1. TypeOK => LayersAreBounded
  <2> SUFFICES ASSUME TypeOK, Resolved PROVE LayersAreBounded
    BY DEF LayersAreBounded
  <2>1. LoadsTree(head) /\ registry = RegistryOf(head) /\ IsCheckout(head)
    BY ChangesAssumption DEF TypeOK, OfChanges
  <2>2. \E id \in DOMAIN registry : TriagePersonas(registry) = {id}
    BY <2>1 DEF LoadsTree, Resolves, RegistryOf
  <2>3. \A id \in DOMAIN registry :
            /\ WithinCeilings(registry[id].tuned)
            /\ registry[id].tuned.tokens =< registry[id].definition.tokens
            /\ registry[id].tuned.calls =< registry[id].definition.calls
            /\ registry[id].definition.kind = "agent" => registry[id].definition.verified
    BY <2>1, EntriesBounded
  <2> QED
    BY <2>2, <2>3 DEF LayersAreBounded, WithinCeilings
<1> QED
  BY <1>1, TypeCorrect, PTL

-----------------------------------------------------------------------------
(* Weakenings are flagged. *)

\* Once the run is done, a file that differs and was had has left its facts.
LEMMA FactsOf ==
    ASSUME IInv, phase = "done", NEW file \in ReviewFiles, file \notin unread \cup moved,
           Content(base, file) # Content(head, file)
    PROVE  Diff(file, Content(base, file), Content(head, file)) \subseteq facts
  BY DEF IInv, Complete, TypeOK, Resolved, Listed, Changed

\* The same for config.yaml, where equal settings have no facts to leave.
LEMMA ConfigFactsOf ==
    ASSUME IInv, Compared(ConfigFile), BothLoad, Was # Is
    PROVE  DiffConfig(Was, Is) \subseteq facts
<1>1. base.config # head.config
  BY DEF Was, Is
<1>2. /\ ConfigFile \in ReviewFiles
      /\ Content(base, ConfigFile) = base.config /\ Content(head, ConfigFile) = head.config
  BY DEF ReviewFiles, Content, ConfigFile
<1>3. Diff(ConfigFile, base.config, head.config) \subseteq facts
  BY <1>1, <1>2, FactsOf DEF Compared
<1> QED
  BY <1>3 DEF Diff, ConfigFile, DiffConfigFiles, BothLoad, Was, Is

LEMMA SettingsTyped ==
    ASSUME IInv, BothLoad
    PROVE  IsConfig(Was) /\ Was.failOn \in FailOn /\ IsConfig(Is) /\ Is.failOn \in FailOn
<1>1. ASSUME NEW checkout, IsCheckout(checkout), Loads(checkout.config)
      PROVE  /\ IsConfig(LoadConfig(checkout.config))
             /\ LoadConfig(checkout.config).failOn \in FailOn
  BY <1>1, ShapeAssumption DEF IsCheckout, Loads, LoadConfig, IsConfig
<1>2. IsCheckout(base) /\ IsCheckout(head)
  BY ChangesAssumption DEF IInv, TypeOK, OfChanges
<1> QED
  BY <1>1, <1>2 DEF BothLoad, Was, Is

\* A change cannot make a set of findings pass unnoticed (gate.Exit,
\* diffConfigYAML).
THEOREM LooserGatesAreFlagged == Spec => []LooserGateIsFlagged
<1>1. ASSUME IInv, Compared(ConfigFile), BothLoad, NEW found \in SUBSET Severity,
             ExitCode(found, FALSE, Was.failOn, FALSE) = Findings,
             ExitCode(found, FALSE, Is.failOn, FALSE) = Clean
      PROVE  Fact("gate.fail_on", "") \in facts
  <2>1. PICK s \in found : s >= Was.failOn
    BY <1>1 DEF ExitCode, Findings, Clean
  <2>2. ~(s >= Is.failOn)
    BY <1>1 DEF ExitCode, Findings, Clean
  <2>3. /\ s \in Int /\ Was.failOn \in Int /\ Is.failOn \in Int
    BY <1>1, SettingsTyped DEF Severity, FailOn, Unranked, Nit, Blocker
  <2>4. Is.failOn > Was.failOn
    BY <2>1, <2>2, <2>3
  <2>5. Was # Is
    BY <2>4, <2>3
  <2>6. Fact("gate.fail_on", "") \in LoosenedGate(Was, Is)
    BY <2>4 DEF LoosenedGate, FactIf
  <2> QED
    BY <1>1, <2>5, <2>6, ConfigFactsOf DEF DiffConfig
<1>2. IInv => LooserGateIsFlagged
  BY <1>1 DEF LooserGateIsFlagged
<1> QED
  BY <1>2, Invariance, PTL

\* Nor can it make a diff skippable unnoticed, where docs are skipped (gate.Skip,
\* classes.Classify, diffConfigYAML).
THEOREM WiderSkipsAreFlagged == Spec => []WiderSkipIsFlagged
<1>1. ASSUME IInv, Compared(ConfigFile), BothLoad, "docs" \in Was.skipClasses,
             NEW diff \in SUBSET SomeFiles,
             ~SkipReview(ClassesOf(diff, Was.docsGlobs), Was.skipClasses, {}),
             SkipReview(ClassesOf(diff, Is.docsGlobs), Is.skipClasses, {}),
             ~\E fact \in facts : fact.what \in {"skip_classes", "docs_globs"}
      PROVE  FALSE
  <2>1. /\ ClassesOf(diff, Is.docsGlobs) # {}
        /\ ClassesOf(diff, Is.docsGlobs) \subseteq Is.skipClasses
    BY <1>1 DEF SkipReview
  <2>2. PICK file \in diff : Classify(file, Was.docsGlobs) \notin Was.skipClasses
    BY <1>1, <2>1 DEF SkipReview, ClassesOf
  <2>3. Classify(file, Is.docsGlobs) \in Is.skipClasses
    BY <2>1 DEF ClassesOf
  <2>4. Was # Is
    BY <2>2, <2>3
  <2>5. WidenedSkip(Was, Is) \subseteq facts
    BY <1>1, <2>4, ConfigFactsOf DEF DiffConfig
  <2>6. \A fact \in WidenedSkip(Was, Is) : fact.what \in {"skip_classes", "docs_globs"}
    BY DEF WidenedSkip, Fact
  <2>7. WidenedSkip(Was, Is) = {}
    BY <1>1, <2>5, <2>6
  <2>8. Is.skipClasses \subseteq Was.skipClasses /\ Is.docsGlobs \subseteq Was.docsGlobs
    BY <2>7 DEF WidenedSkip
  <2>9. \/ Classify(file, Was.docsGlobs) = "docs"
        \/ Classify(file, Was.docsGlobs) = Classify(file, Is.docsGlobs)
    BY <2>8 DEF Classify
  <2> QED
    BY <1>1, <2>2, <2>3, <2>8, <2>9
<1>2. IInv => WiderSkipIsFlagged
  BY <1>1 DEF WiderSkipIsFlagged
<1> QED
  BY <1>2, Invariance, PTL

\* An id of a resolved registry is enabled there, with its entry.
LEMMA InRegistry ==
    ASSUME NEW checkout, NEW id
    PROVE  /\ id \in DOMAIN RegistryOf(checkout) <=>
                  /\ id \in Defined(checkout.personas)
                  /\ ~Off(LoadConfig(checkout.config), id)
           /\ id \in DOMAIN RegistryOf(checkout) =>
                  RegistryOf(checkout)[id] =
                      Entry(checkout.personas, LoadConfig(checkout.config), id)
  BY DEF RegistryOf, Registry, Enabled

\* An override that the head has and that differs from the base's is compared.
LEMMA OverrideFactsOf ==
    ASSUME IInv, Compared(ConfigFile), BothLoad, NEW id \in DOMAIN Is.personas,
           OverrideOf(Is, id) # OverrideOf(Was, id)
    PROVE  WeakenedOverride(OverrideOf(Was, id), OverrideOf(Is, id), id) \subseteq facts
<1>1. Was # Is
  OBVIOUS
<1>2. OverrideOf(Is, id) = Is.personas[id]
  BY DEF OverrideOf
<1> QED
  BY <1>1, <1>2, ConfigFactsOf DEF DiffConfig

LEMMA HeadLoaded ==
    ASSUME IInv, phase = "done"
    PROVE  LoadsTree(head) /\ registry = RegistryOf(head)
  BY DEF IInv, TypeOK, Resolved

\* No persona is switched off unnoticed (persona.Resolve, diffConfigYAML).
THEOREM LostPersonasAreFlagged == Spec => []LostPersonaIsFlagged
<1>1. ASSUME IInv, Compared(ConfigFile), LoadsTree(base),
             NEW id \in DOMAIN RegistryOf(base) \ DOMAIN registry,
             id \in Defined(head.personas)
      PROVE  Fact("disabled", id) \in facts
  <2>1. BothLoad /\ registry = RegistryOf(head)
    BY <1>1, HeadLoaded DEF BothLoad, LoadsTree, Compared
  <2>2. ~Off(Was, id) /\ Off(Is, id)
    BY <1>1, <2>1, InRegistry DEF Was, Is
  <2>3. OverrideOf(Is, id).enabled = FALSE /\ OverrideOf(Was, id).enabled # FALSE
    BY <2>2 DEF Off
  <2>4. id \in DOMAIN Is.personas
    <3>1. CASE id \notin DOMAIN Is.personas
      <4>1. OverrideOf(Is, id) = NoOverride
        BY <3>1 DEF OverrideOf
      <4>2. OverrideOf(Is, id).enabled = Unset
        BY <4>1 DEF NoOverride
      <4>3. Unset # FALSE
        BY ShapeAssumption
      <4> QED
        BY <2>3, <4>2, <4>3
    <3> QED
      BY <3>1
  <2>5. WeakenedOverride(OverrideOf(Was, id), OverrideOf(Is, id), id) \subseteq facts
    BY <1>1, <2>1, <2>3, <2>4, OverrideFactsOf
  <2>6. Fact("disabled", id) \in Disabled(OverrideOf(Was, id), OverrideOf(Is, id), id)
    BY <2>3 DEF Disabled, FactIf
  <2> QED
    BY <2>5, <2>6 DEF WeakenedOverride
<1>2. IInv => LostPersonaIsFlagged
  BY <1>1 DEF LostPersonaIsFlagged
<1> QED
  BY <1>2, Invariance, PTL

\* Nor is a persona of the same definition given more, or told otherwise
\* (persona.Resolve, diffConfigYAML).
THEOREM WeakerPersonasAreFlagged == Spec => []WeakerPersonaIsFlagged
<1>1. ASSUME IInv, Compared(ConfigFile), LoadsTree(base),
             NEW id \in DOMAIN RegistryOf(base) \cap DOMAIN registry,
             RegistryOf(base)[id].definition = registry[id].definition
      PROVE  /\ /\ \/ registry[id].tuned.tokens > RegistryOf(base)[id].tuned.tokens
                   \/ registry[id].tuned.calls > RegistryOf(base)[id].tuned.calls
                /\ OverrideOf(Is, id).budget # Unset
                => Fact("budget", id) \in facts
             /\ /\ registry[id].overlay \notin {RegistryOf(base)[id].overlay, Unset}
                /\ id \in SecurityRelevant
                => Fact("overlay", id) \in facts
  <2> DEFINE was == OverrideOf(Was, id)
             is  == OverrideOf(Is, id)
             d   == Definition(head.personas, id)
  <2>1. BothLoad /\ registry = RegistryOf(head) /\ LoadsTree(head)
    BY <1>1, HeadLoaded DEF BothLoad, LoadsTree, Compared
  <2>2. /\ RegistryOf(base)[id] =
               [definition |-> d, tuned |-> Tuned(d, was), overlay |-> was.overlay]
        /\ registry[id] = [definition |-> d, tuned |-> Tuned(d, is), overlay |-> is.overlay]
    <3>1. id \in DOMAIN RegistryOf(base) /\ id \in DOMAIN RegistryOf(head)
      BY <1>1, <2>1
    <3>2. /\ RegistryOf(base)[id] = Entry(base.personas, Was, id)
          /\ RegistryOf(head)[id] = Entry(head.personas, Is, id)
      BY <3>1, InRegistry DEF Was, Is
    <3>3. /\ RegistryOf(base)[id].definition = Definition(base.personas, id)
          /\ registry[id].definition = d
      BY <2>1, <3>2 DEF Entry
    <3>4. Definition(base.personas, id) = d
      BY <1>1, <3>3
    <3> QED
      BY <2>1, <3>2, <3>4 DEF Entry
  <2>3. is.budget # Unset \/ is.overlay # Unset => id \in DOMAIN Is.personas
    BY DEF OverrideOf, NoOverride
  <2>4. ASSUME \/ Tuned(d, is).tokens > Tuned(d, was).tokens
               \/ Tuned(d, is).calls > Tuned(d, was).calls,
               is.budget # Unset
        PROVE  Fact("budget", id) \in facts
    <3>1. /\ IsCheckout(head) /\ id \in DOMAIN RegistryOf(head) /\ id \in Defined(head.personas)
      BY <1>1, <2>1, InRegistry, ChangesAssumption DEF IInv, TypeOK, OfChanges
    <3>2. IsDefinition(d)
      BY <2>1, <3>1, DefinitionsTyped
    <3>3. Tuned(d, is).tokens =< d.tokens /\ Tuned(d, is).calls =< d.calls
      BY <2>1, <2>2, <3>1, EntriesBounded
    <3>4. is.budget \in [tokens : Int, calls : Int]
      BY <1>1, <2>1, <2>3, <2>4, SettingsTyped DEF IsConfig, OverrideOf
    <3>5. was.budget # Unset => was.budget \in [tokens : Int, calls : Int]
      BY <1>1, <2>1, SettingsTyped DEF IsConfig, OverrideOf, NoOverride
    <3>6. ~Immutable(d.id)
      BY <2>4, <3>2 DEF Tuned, Own, IsDefinition
    <3>7. Tuned(d, is).tokens = is.budget.tokens /\ Tuned(d, is).calls = is.budget.calls
      BY <2>4, <3>6 DEF Tuned
    <3>8. was.budget # Unset
      <4>1. CASE was.budget = Unset
        <5>1. Tuned(d, was).tokens = d.tokens /\ Tuned(d, was).calls = d.calls
          BY <4>1, <3>6 DEF Tuned, Own
        <5> QED
          BY <5>1, <2>4, <3>2, <3>3, <3>4, <3>7 DEF IsDefinition
      <4> QED
        BY <4>1
    <3>9. Tuned(d, was).tokens = was.budget.tokens /\ Tuned(d, was).calls = was.budget.calls
      BY <3>6, <3>8 DEF Tuned
    <3>10. is.budget.tokens > was.budget.tokens \/ is.budget.calls > was.budget.calls
      BY <2>4, <3>7, <3>9
    <3>11. is # was
      BY <3>4, <3>10
    <3>12. Fact("budget", id) \in RaisedBudget(was, is, id)
      BY <2>4, <3>8, <3>10 DEF RaisedBudget, FactIf
    <3> QED
      BY <1>1, <2>1, <2>3, <2>4, <3>11, <3>12, OverrideFactsOf DEF WeakenedOverride
  <2>5. ASSUME is.overlay \notin {was.overlay, Unset}, id \in SecurityRelevant
        PROVE  Fact("overlay", id) \in facts
    <3>1. WeakenedOverride(was, is, id) \subseteq facts
      BY <1>1, <2>1, <2>3, <2>5, OverrideFactsOf
    <3>2. Fact("overlay", id) \in NewOverlay(was, is, id)
      BY <2>5 DEF NewOverlay, FactIf
    <3> QED
      BY <3>1, <3>2 DEF WeakenedOverride
  <2> QED
    BY <2>2, <2>4, <2>5
<1>2. IInv => WeakerPersonaIsFlagged
  BY <1>1 DEF WeakerPersonaIsFlagged
<1> QED
  BY <1>2, Invariance, PTL

\* A requirement that a file drops is not dropped unnoticed (diffPersonaYAML).
THEOREM DroppedRequirementsAreFlagged == Spec => []DroppedRequirementIsFlagged
<1>1. ASSUME IInv, phase = "done", LoadsTree(base),
             NEW id \in DOMAIN RegistryOf(base) \cap DOMAIN registry,
             RegistryOf(base)[id].definition.requiredWhen # "none",
             registry[id].definition.requiredWhen = "none",
             Definers(base.personas, id) = Definers(head.personas, id),
             \A p \in Definers(head.personas, id) : PersonaFile(p) \notin unread
      PROVE  Fact("required_when", id) \in facts
  <2> DEFINE was == Definition(base.personas, id)
             is  == Definition(head.personas, id)
             p   == Max(Definers(head.personas, id))
  <2>1. registry = RegistryOf(head) /\ LoadsTree(head)
    BY <1>1, HeadLoaded
  <2>2. was.requiredWhen # "none" /\ is.requiredWhen = "none"
    <3>1. id \in DOMAIN RegistryOf(base) /\ id \in DOMAIN RegistryOf(head)
      BY <1>1, <2>1
    <3>2. /\ RegistryOf(base)[id].definition = was
          /\ RegistryOf(head)[id].definition = is
      <4>1. /\ RegistryOf(base)[id] = Entry(base.personas, LoadConfig(base.config), id)
            /\ RegistryOf(head)[id] = Entry(head.personas, LoadConfig(head.config), id)
        BY <3>1, InRegistry
      <4> QED
        BY <4>1 DEF Entry
    <3> QED
      BY <1>1, <2>1, <3>2
  <2>3. Definers(head.personas, id) # {}
    BY <1>1, <2>2 DEF Definition
  <2>4. was = base.personas[p] /\ is = head.personas[p]
    BY <1>1, <2>3 DEF Definition
  <2>5. IsCheckout(base) /\ IsCheckout(head)
    BY <1>1, ChangesAssumption DEF IInv, TypeOK, OfChanges
  <2>6. p \in Definers(base.personas, id) /\ p \in Definers(head.personas, id) /\ p \in Path
    <3>1. Definers(head.personas, id) \subseteq Path
      BY <2>5 DEF Definers, Files, IsCheckout
    <3> QED
      BY <1>1, <2>3, <3>1, LastPath
  <2>7. was \notin {Absent, Broken} /\ is \notin {Absent, Broken} /\ is.id = id
    BY <1>1, <2>1, <2>4, <2>6 DEF Definers, Files, LoadsTree, LoadsDir
  <2>8. /\ PersonaFile(p) \in ReviewFiles
        /\ Content(base, PersonaFile(p)) = was /\ Content(head, PersonaFile(p)) = is
    BY <2>4, <2>6 DEF ReviewFiles, PersonaFile, Content
  <2>9. Diff(PersonaFile(p), was, is) \subseteq facts
    <3>1. PersonaFile(p) \notin moved
      BY <1>1, <2>7, <2>8 DEF IInv, TypeOK, Gone
    <3> QED
      BY <1>1, <2>2, <2>6, <2>8, <3>1, FactsOf
  <2>10. Diff(PersonaFile(p), was, is) = DiffPersonaFiles(was, is)
    BY DEF Diff, PersonaFile
  <2>11. Fact("required_when", id) \in DiffPersonaFiles(was, is)
    BY <2>2, <2>7 DEF DiffPersonaFiles, FactIf
  <2> QED
    BY <2>9, <2>10, <2>11
<1>2. IInv => DroppedRequirementIsFlagged
  BY <1>1 DEF DroppedRequirementIsFlagged
<1> QED
  BY <1>2, Invariance, PTL

\* The next reviews are not made laxer unnoticed (builtin/config-guard).
THEOREM LooserReviewsAreFlagged == Spec => []LooserReviewIsFlagged
  BY LooserGatesAreFlagged, WiderSkipsAreFlagged, PTL DEF LooserReviewIsFlagged

\* Nor is the team made weaker (builtin/config-guard).
THEOREM WeakerTeamsAreFlagged == Spec => []WeakerTeamIsFlagged
  BY LostPersonasAreFlagged, WeakerPersonasAreFlagged, DroppedRequirementsAreFlagged, PTL
     DEF WeakerTeamIsFlagged

\* Equal settings raise no alarm (diffConfigYAML).
THEOREM SameSettingsStayQuiet == Spec => []SameSettingsAreQuiet
<1>1. ASSUME IInv, Compared(ConfigFile), BothLoad, Was = Is, NEW fact \in facts
      PROVE  fact.what \in {"required_when", "permissions"}
  <2>1. IsConfig(Is) /\ Is.failOn \in Int
    BY <1>1, SettingsTyped DEF FailOn, Severity, Unranked, Nit, Blocker
  <2>2. LoosenedGate(Is, Is) = {}
    <3>1. ~(Is.failOn > Is.failOn)
      BY <2>1
    <3> QED
      BY <3>1 DEF LoosenedGate, FactIf
  <2>3. WidenedSkip(Is, Is) = {}
    BY DEF WidenedSkip
  <2>4. ASSUME NEW id \in DOMAIN Is.personas
        PROVE  WeakenedOverride(OverrideOf(Is, id), Is.personas[id], id) = {}
    <3> DEFINE o == Is.personas[id]
    <3>1. OverrideOf(Is, id) = o
      BY DEF OverrideOf
    <3>2. Disabled(o, o, id) = {}
      BY DEF Disabled, FactIf
    <3>3. NewOverlay(o, o, id) = {}
      BY DEF NewOverlay, FactIf
    <3>4. RaisedBudget(o, o, id) = {}
      <4>1. CASE o.budget = Unset
        BY <4>1 DEF RaisedBudget
      <4>2. CASE o.budget # Unset
        <5>1. o.budget.tokens \in Int /\ o.budget.calls \in Int
          BY <2>1, <4>2 DEF IsConfig
        <5>2. ~(o.budget.tokens > o.budget.tokens \/ o.budget.calls > o.budget.calls)
          BY <5>1
        <5> QED
          BY <4>2, <5>2 DEF RaisedBudget, FactIf
      <4> QED
        BY <4>1, <4>2
    <3> QED
      BY <3>1, <3>2, <3>3, <3>4 DEF WeakenedOverride
  <2>5. DiffConfig(Is, Is) = {}
    BY <2>2, <2>3, <2>4 DEF DiffConfig
  <2>6. DiffConfigFiles(base.config, head.config) = {}
    BY <1>1, <2>5 DEF DiffConfigFiles, BothLoad, Was, Is
  <2>7. fact.what \notin ConfigWhat
    BY <1>1, <2>6 DEF IInv, Complete, Compared, Resolved
  <2> QED
    <3>1. fact.what \in ConfigWhat \cup {"required_when", "permissions"}
      BY <1>1 DEF IInv, TypeOK, ConfigWhat
    <3> QED
      BY <2>7, <3>1
<1>2. IInv => SameSettingsAreQuiet
  BY <1>1 DEF SameSettingsAreQuiet
<1> QED
  BY <1>2, Invariance, PTL
=============================================================================
