------------------------------ MODULE Personas ------------------------------
(***************************************************************************)
(* What a repository's configuration makes of the built-in personas:       *)
(* config.yaml with its defaults (internal/config), the definitions of the *)
(* personas directory (internal/persona) and the layering of both over the *)
(* built-ins, as localconfig.Load does it for every command.               *)
(*                                                                         *)
(* A file that is not there is Absent and one that cannot be decoded is    *)
(* Broken; a field that is not set is Unset.  An activation rule is what   *)
(* compiling it finds: no rule, one over the facts alone, one that reads   *)
(* the assessment, or one that does not compile.                           *)
(***************************************************************************)
EXTENDS Gate, FiniteSetsExt

CONSTANTS
    Builtins,             \* the definitions shipped with the program
    Defaults,             \* the configuration of a repository without one
    PathCount,            \* files that the personas directory may have
    Unset, Absent, Broken,
    LongOverlay,          \* overlay texts above MaxOverlayBytes
    MaxTotalTokens, MaxToolCallsPerPersona, MaxFindingsPerPersona

\* The files of the personas directory, in the order in which they are walked.
Path == 1 .. PathCount

Ids(definitions) == {d.id : d \in definitions}

Immutable(id) == \E d \in Builtins : d.id = id /\ d.immutable

\* An override that sets nothing.
NoOverride ==
    [enabled |-> Unset, priority |-> Unset, budget |-> Unset, maxFindings |-> Unset, overlay |-> Unset]

-----------------------------------------------------------------------------
(* config.Load: what is unset is taken from the defaults. *)

Loads(document) == document # Broken

LoadConfig(document) ==
    IF document = Absent THEN Defaults
    ELSE [failOn      |-> IF document.failOn = Unset THEN Defaults.failOn ELSE document.failOn,
          skipClasses |-> IF document.skipClasses = {} THEN Defaults.skipClasses ELSE document.skipClasses,
          docsGlobs   |-> IF document.docsGlobs = {} THEN Defaults.docsGlobs ELSE document.docsGlobs,
          models      |-> document.models,
          personas    |-> document.personas]

OverrideOf(config, id) ==
    IF id \in DOMAIN config.personas THEN config.personas[id] ELSE NoOverride

-----------------------------------------------------------------------------
(* persona.LoadDir and Definition.validate. *)

\* wellFormed stands for the closed sets of names that validate checks; an
\* agent has to state that its findings are verified.
Valid(definition) ==
    /\ definition.wellFormed
    /\ definition.kind = "agent" => definition.verified

\* The built-ins are loaded like any directory; no two share an id.
ASSUME BuiltinsAssumption ==
    /\ \A d \in Builtins : Valid(d)
    /\ \A d, e \in Builtins : d.id = e.id => d = e

ASSUME PathAssumption == PathCount \in Nat

Files(tree) == {p \in DOMAIN tree : tree[p] # Absent}

LoadsDir(tree) ==
    \A p \in Files(tree) :
        tree[p] # Broken /\ Valid(tree[p]) /\ tree[p].prompt # "missing"

\* Where the repository defines a persona; the file walked last counts.
Definers(tree, id) == {p \in Files(tree) : tree[p].id = id}

Definition(tree, id) ==
    IF Definers(tree, id) # {}
    THEN tree[Max(Definers(tree, id))]
    ELSE CHOOSE d \in Builtins : d.id = id

Defined(tree) == Ids(Builtins) \cup {tree[p].id : p \in Files(tree)}

\* MergePrompts: whose prompt text a persona gets, the last definer's that has
\* one, or the built-in's.
PromptOf(tree, id) ==
    LET texts == {p \in Definers(tree, id) : tree[p].prompt = "present"}
    IN  IF texts # {} THEN Max(texts) ELSE "builtin"

-----------------------------------------------------------------------------
(* persona.Resolve. *)

\* Mutant: only the mark is looked for.
RedefinesMarked(tree) == \E p \in Files(tree) : tree[p].immutable

\* Only the program marks personas immutable and nothing redefines those.
Redefines(tree) ==
    \E p \in Files(tree) : tree[p].immutable \/ Immutable(tree[p].id)

Off(config, id) == ~Immutable(id) /\ OverrideOf(config, id).enabled = FALSE

\* Mutant: only the tokens are compared.
AllowedTokens(definition, override) ==
    IF Immutable(definition.id) THEN override = NoOverride
    ELSE \/ override.enabled = FALSE
         \/ override.budget = Unset
         \/ override.budget.tokens =< definition.tokens

\* A budget may be lowered, by both of its fields; a field left out is zero.
Allowed(definition, override) ==
    IF Immutable(definition.id) THEN override = NoOverride
    ELSE \/ override.enabled = FALSE
         \/ override.budget = Unset
         \/ /\ override.budget.tokens =< definition.tokens
            /\ override.budget.calls =< definition.calls

\* The settings a definition has of its own, and what an override leaves of them.
Own(definition) ==
    [priority |-> definition.priority, tokens |-> definition.tokens,
     calls |-> definition.calls, maxFindings |-> definition.maxFindings]

Tuned(definition, override) ==
    LET own    == Own(definition)
        budget == override.budget
    IN  IF Immutable(definition.id) THEN own
        ELSE [priority    |-> IF override.priority = Unset THEN own.priority ELSE override.priority,
              tokens      |-> IF budget = Unset THEN own.tokens ELSE budget.tokens,
              calls       |-> IF budget = Unset THEN own.calls ELSE budget.calls,
              maxFindings |-> IF override.maxFindings = Unset
                              THEN own.maxFindings ELSE override.maxFindings]

WithinCeilings(tuned) ==
    /\ tuned.tokens =< MaxTotalTokens
    /\ tuned.calls =< MaxToolCallsPerPersona
    /\ tuned.maxFindings =< MaxFindingsPerPersona

OverlayAccepted(definition, overlay) ==
    overlay # Unset => definition.overlays /\ overlay \notin LongOverlay

\* activation.CompileRule with its context class: the rules of an immutable
\* persona may not depend on what a model answered.
Compiles(rule, factsOnly) == rule # "broken" /\ (factsOnly => rule # "assessed")

RulesCompile(definition) ==
    /\ Compiles(definition.requiredWhen, definition.immutable)
    /\ Compiles(definition.volunteerOn, FALSE)

\* parseContextSize may find no number.
Fits(minContext, window) == minContext # Broken /\ minContext =< window

\* checkCapabilities: a binding for the model, with a context that is known to
\* be wide enough or not known.
Bound(definition, models) ==
    definition.capability # Unset =>
        /\ definition.capability \in DOMAIN models
        /\ \/ models[definition.capability] = 0
           \/ Fits(definition.minContext, models[definition.capability])

\* The persona of an id as the layers leave it.
Entry(tree, config, id) ==
    [definition |-> Definition(tree, id),
     tuned      |-> Tuned(Definition(tree, id), OverrideOf(config, id)),
     overlay    |-> OverrideOf(config, id).overlay]

Enabled(tree, config) == {id \in Defined(tree) : ~Off(config, id)}

Registry(tree, config) ==
    [id \in Enabled(tree, config) |-> Entry(tree, config, id)]

TriagePersonas(registry) ==
    {id \in DOMAIN registry : registry[id].definition.kind = "triage"}

Resolves(tree, config) ==
    LET registry == Registry(tree, config)
    IN  /\ ~Redefines(tree)
        /\ DOMAIN config.personas \subseteq Defined(tree)
        /\ \A id \in DOMAIN config.personas :
               Allowed(Definition(tree, id), OverrideOf(config, id))
        /\ \A id \in DOMAIN registry :
               LET entry == registry[id]
               IN  /\ WithinCeilings(entry.tuned)
                   /\ OverlayAccepted(entry.definition, entry.overlay)
                   /\ RulesCompile(entry.definition)
                   /\ Bound(entry.definition, config.models)
        /\ \E id \in DOMAIN registry : TriagePersonas(registry) = {id}

\* localconfig.Load on a checkout: its configuration and its registry, if
\* every layer is in order.
LoadsTree(checkout) ==
    /\ Loads(checkout.config)
    /\ LoadsDir(checkout.personas)
    /\ Resolves(checkout.personas, LoadConfig(checkout.config))

RegistryOf(checkout) == Registry(checkout.personas, LoadConfig(checkout.config))

-----------------------------------------------------------------------------
(* The shape of what is decoded, as far as it is compared by size. *)

IsConfig(config) ==
    /\ config.failOn \in FailOn \cup {Unset}
    /\ \A id \in DOMAIN config.personas :
           config.personas[id].budget \in [tokens : Int, calls : Int] \cup {Unset}

IsDefinition(definition) == definition.tokens \in Int /\ definition.calls \in Int

IsCheckout(checkout) ==
    /\ checkout.config \notin {Absent, Broken} => IsConfig(checkout.config)
    /\ DOMAIN checkout.personas = Path
    /\ \A p \in Path :
           checkout.personas[p] \notin {Absent, Broken} => IsDefinition(checkout.personas[p])

ASSUME ShapeAssumption ==
    /\ \A d \in Builtins : IsDefinition(d)
    /\ IsConfig(Defaults) /\ Defaults.failOn # Unset
    /\ Unset \notin BOOLEAN
=============================================================================
