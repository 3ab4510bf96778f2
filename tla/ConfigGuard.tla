---------------------------- MODULE ConfigGuard ----------------------------
(***************************************************************************)
(* A run over a change of the review's own configuration: the head's       *)
(* configuration is loaded and resolved, and builtin/config-guard compares *)
(* every changed configuration file with its base, fetching both (each     *)
(* fetch may fail and then counts as an empty file), and last asks the     *)
(* model for its judgment.  The base and the head are checkouts: a         *)
(* config.yaml, a personas directory and the permissions block of the      *)
(* invoking workflow.                                                      *)
(***************************************************************************)
EXTENDS Personas, Classes

CONSTANTS
    Changes,             \* pairs of checkouts a pull request may lead from and to
    SecurityRelevant,    \* personas for which an overlay is a weakening
    SomeFiles,           \* files whose evidence a diff may carry
    NoBlock, NoRegistry  \* a workflow without permissions; nothing resolved

ASSUME ChangesAssumption ==
    \A change \in Changes : IsCheckout(change[1]) /\ IsCheckout(change[2])

VARIABLES
    base, head,  \* the change
    moved,       \* files that it takes out of the way by renaming them
    phase,
    registry,    \* persona.Registry of the head
    pending,     \* changed configuration files not compared yet
    facts,       \* certain weakenings, each a blocker
    judged,      \* the model's judgment was had
    unread       \* files of which a fetch failed

pullRequest == <<base, head, moved>>
vars == <<base, head, moved, phase, registry, pending, facts, judged, unread>>

ConfigFile     == [kind |-> "config", path |-> 0]
WorkflowFile   == [kind |-> "workflow", path |-> 0]
PersonaFile(p) == [kind |-> "persona", path |-> p]
ReviewFiles    == {ConfigFile, WorkflowFile} \cup {PersonaFile(p) : p \in Path}

Content(checkout, file) ==
    CASE file.kind = "config"   -> checkout.config
      [] file.kind = "workflow" -> checkout.permissions
      [] file.kind = "persona"  -> checkout.personas[file.path]

Changed == {file \in ReviewFiles : Content(base, file) # Content(head, file)}

Gone == {file \in Changed : Content(head, file) = Absent}

\* changedConfigFiles.  A renamed file is listed, and classified, under its new
\* name alone.
Listed == Changed \ moved

\* What a fetch returns to the comparison.
Fetched(checkout, file, works) == IF works THEN Content(checkout, file) ELSE Absent

-----------------------------------------------------------------------------
(* The deterministic rules. *)

Fact(what, about) == [what |-> what, about |-> about]

FactIf(condition, what, about) == IF condition THEN {Fact(what, about)} ELSE {}

LoosenedGate(b, h) == FactIf(h.failOn > b.failOn, "gate.fail_on", "")

\* Mutant: the globs that make a file docs are not part of the skip.
WidenedSkipOfClasses(b, h) ==
    {Fact("skip_classes", class) : class \in h.skipClasses \ b.skipClasses}

WidenedSkip(b, h) ==
    {Fact("skip_classes", class) : class \in h.skipClasses \ b.skipClasses}
    \cup {Fact("docs_globs", glob) : glob \in h.docsGlobs \ b.docsGlobs}

\* Overrides are compared as they are written: one that the base does not have
\* counts as a budget of zero there, and one that the head drops is not seen.

\* Mutant: a persona counts as enabled only if the base says so.
DisabledExplicitly(was, is, id) ==
    FactIf(is.enabled = FALSE /\ was.enabled = TRUE, "disabled", id)

Disabled(was, is, id) ==
    FactIf(is.enabled = FALSE /\ was.enabled # FALSE, "disabled", id)

\* Mutant: keeping a budget is raising it.
RaisedBudgetOrKept(was, is, id) ==
    LET before == IF was.budget = Unset THEN [tokens |-> 0, calls |-> 0] ELSE was.budget
    IN  IF is.budget = Unset THEN {}
        ELSE FactIf(\/ is.budget.tokens >= before.tokens
                    \/ is.budget.calls >= before.calls, "budget", id)

RaisedBudget(was, is, id) ==
    LET before == IF was.budget = Unset THEN [tokens |-> 0, calls |-> 0] ELSE was.budget
    IN  IF is.budget = Unset THEN {}
        ELSE FactIf(\/ is.budget.tokens > before.tokens
                    \/ is.budget.calls > before.calls, "budget", id)

NewOverlay(was, is, id) ==
    FactIf(is.overlay \notin {Unset, was.overlay} /\ id \in SecurityRelevant, "overlay", id)

WeakenedOverride(was, is, id) ==
    Disabled(was, is, id) \cup RaisedBudget(was, is, id) \cup NewOverlay(was, is, id)

DiffConfig(b, h) ==
    LoosenedGate(b, h) \cup WidenedSkip(b, h)
        \cup UNION {WeakenedOverride(OverrideOf(b, id), h.personas[id], id) : id \in DOMAIN h.personas}

DiffConfigFiles(was, is) ==
    IF Loads(was) /\ Loads(is) THEN DiffConfig(LoadConfig(was), LoadConfig(is)) ELSE {}

\* Only a definition that both sides have is compared.
DiffPersonaFiles(was, is) ==
    IF {was, is} \cap {Absent, Broken} # {} THEN {}
    ELSE FactIf(was.requiredWhen # "none" /\ is.requiredWhen = "none", "required_when", is.id)

BlockOf(content) == IF content = Absent THEN NoBlock ELSE content

DiffWorkflowFiles(was, is) == FactIf(BlockOf(was) # BlockOf(is), "permissions", "")

Diff(file, was, is) ==
    CASE file.kind = "config"   -> DiffConfigFiles(was, is)
      [] file.kind = "persona"  -> DiffPersonaFiles(was, is)
      [] file.kind = "workflow" -> DiffWorkflowFiles(was, is)

-----------------------------------------------------------------------------
OfChanges == \E change \in Changes : base = change[1] /\ head = change[2]

Init ==
    /\ OfChanges
    /\ moved \in SUBSET Gone
    /\ phase = "load"
    /\ registry = NoRegistry
    /\ pending = {} /\ facts = {} /\ unread = {}
    /\ judged = FALSE

\* localconfig.Load of the checkout that the runner has on disk, before
\* anything else: a head that does not load ends the run with an error.
Load ==
    /\ phase = "load"
    /\ IF LoadsTree(head)
       THEN /\ registry' = RegistryOf(head)
            /\ pending' = Listed
            /\ phase' = IF Listed = {} THEN "done" ELSE "compare"
       ELSE /\ phase' = "refused"
            /\ UNCHANGED <<registry, pending>>
    /\ UNCHANGED <<pullRequest, facts, judged, unread>>

\* The files come in the order of the pull request's listing, which the facts
\* do not depend on.
Compare(file, baseWorks, headWorks) ==
    /\ phase = "compare" /\ file \in pending
    /\ facts' = facts \cup Diff(file, Fetched(base, file, baseWorks), Fetched(head, file, headWorks))
    /\ unread' = IF baseWorks /\ headWorks THEN unread ELSE unread \cup {file}
    /\ pending' = pending \ {file}
    /\ phase' = IF pending = {file} THEN "judge" ELSE "compare"
    /\ UNCHANGED <<pullRequest, registry, judged>>

\* judgeIntent answers or fails: without a binding or a schema, when the call
\* fails, and when the answer is empty, cut or malformed.
Answered == BOOLEAN

\* Without a judgment the facts stand alone.
Judge(answered) ==
    /\ phase = "judge"
    /\ judged' = answered
    /\ phase' = "done"
    /\ UNCHANGED <<pullRequest, registry, pending, facts, unread>>

Finished == phase \in {"done", "refused"} /\ UNCHANGED vars

Next ==
    \/ Load
    \/ \E file \in pending, baseWorks, headWorks \in BOOLEAN : Compare(file, baseWorks, headWorks)
    \/ \E answered \in Answered : Judge(answered)
    \/ Finished

Spec == Init /\ [][Next]_vars

-----------------------------------------------------------------------------
Resolved == phase \notin {"load", "refused"}

TypeOK ==
    /\ OfChanges /\ moved \subseteq Gone
    /\ phase \in {"load", "compare", "judge", "done", "refused"}
    /\ IF Resolved
       THEN LoadsTree(head) /\ registry = RegistryOf(head)
       ELSE registry = NoRegistry
    /\ pending \subseteq Listed /\ unread \subseteq Listed \ pending
    /\ (pending # {}) <=> phase = "compare"
    /\ \A fact \in facts : fact.what \in {"gate.fail_on", "skip_classes", "docs_globs", "disabled",
                                          "budget", "overlay", "required_when", "permissions"}
    /\ judged \in BOOLEAN

\* No configuration touches what the program ships as immutable: in every
\* registry that a run gets, each such persona is there as it was shipped,
\* under its own prompt and without an overlay, and the model that config-guard
\* asks is bound (persona.Resolve, MergePrompts).
GuardsStand ==
    Resolved =>
        \A guard \in Builtins : guard.immutable =>
            /\ guard.id \in DOMAIN registry
            /\ registry[guard.id] = [definition |-> guard, tuned |-> Own(guard), overlay |-> Unset]
            /\ PromptOf(head.personas, guard.id) = "builtin"
            /\ guard.capability # Unset =>
                   guard.capability \in DOMAIN LoadConfig(head.config).models

\* What any combination of layers may reach (spec sections 3.1 and 10.2): no
\* persona is above a ceiling of the program or above the budget of its own
\* definition, every agent's findings are verified (which Verify takes for
\* granted), and there is exactly one triage persona, whatever is disabled,
\* redefined or added.
LayersAreBounded ==
    Resolved =>
        /\ \A id \in DOMAIN registry :
               LET d     == registry[id].definition
                   tuned == registry[id].tuned
               IN  /\ tuned.tokens =< MaxTotalTokens
                   /\ tuned.calls =< MaxToolCallsPerPersona
                   /\ tuned.maxFindings =< MaxFindingsPerPersona
                   /\ tuned.tokens =< d.tokens /\ tuned.calls =< d.calls
                   /\ d.kind = "agent" => d.verified
        /\ \E id \in DOMAIN registry : TriagePersonas(registry) = {id}

\* The run is done and had both sides of the file if they differ.
Compared(file) == phase = "done" /\ file \notin unread \cup moved

BothLoad == Loads(base.config) /\ Loads(head.config)
Was == LoadConfig(base.config)
Is  == LoadConfig(head.config)

\* If some set of findings fails a review under the base's gate and passes
\* under the head's, the change carries a blocker for it (gate.Exit against
\* diffConfigYAML).
LooserGateIsFlagged ==
    Compared(ConfigFile) /\ BothLoad =>
        \A found \in SUBSET Severity :
            /\ ExitCode(found, FALSE, Was.failOn, FALSE) = Findings
            /\ ExitCode(found, FALSE, Is.failOn, FALSE) = Clean
            => Fact("gate.fail_on", "") \in facts

\* If some diff would be reviewed under the base's configuration and skipped
\* for its classes under the head's, the change carries a blocker for it.  Said
\* of bases that skip docs, as the defaults do: otherwise dropping a docs glob
\* can move files to a class that is skipped, and that is not flagged.
WiderSkipIsFlagged ==
    Compared(ConfigFile) /\ BothLoad /\ "docs" \in Was.skipClasses =>
        \A diff \in SUBSET SomeFiles :
            /\ ~SkipReview(ClassesOf(diff, Was.docsGlobs), Was.skipClasses, {})
            /\ SkipReview(ClassesOf(diff, Is.docsGlobs), Is.skipClasses, {})
            => \E fact \in facts : fact.what \in {"skip_classes", "docs_globs"}

\* A persona that the base's registry has, that is still defined and that the
\* head's registry lacks is named in a blocker.
LostPersonaIsFlagged ==
    Compared(ConfigFile) /\ LoadsTree(base) =>
        \A id \in DOMAIN RegistryOf(base) \ DOMAIN registry :
            id \in Defined(head.personas) => Fact("disabled", id) \in facts

\* A persona whose definition the change leaves alone gets neither a larger
\* budget by an override than it had, nor, where it matters to security,
\* another overlay, without a blocker.
WeakerPersonaIsFlagged ==
    Compared(ConfigFile) /\ LoadsTree(base) =>
        \A id \in DOMAIN RegistryOf(base) \cap DOMAIN registry :
            LET before == RegistryOf(base)[id]
                after  == registry[id]
            IN  before.definition = after.definition =>
                /\ /\ \/ after.tuned.tokens > before.tuned.tokens
                      \/ after.tuned.calls > before.tuned.calls
                   /\ OverrideOf(Is, id).budget # Unset
                   => Fact("budget", id) \in facts
                /\ /\ after.overlay \notin {before.overlay, Unset}
                   /\ id \in SecurityRelevant
                   => Fact("overlay", id) \in facts

\* A persona of the repository that loses its required_when, and with it its
\* place in the team, is named in a blocker, if it stays in the files that
\* defined it.
DroppedRequirementIsFlagged ==
    phase = "done" /\ LoadsTree(base) =>
        \A id \in DOMAIN RegistryOf(base) \cap DOMAIN registry :
            /\ RegistryOf(base)[id].definition.requiredWhen # "none"
            /\ registry[id].definition.requiredWhen = "none"
            /\ Definers(base.personas, id) = Definers(head.personas, id)
            /\ \A p \in Definers(head.personas, id) : PersonaFile(p) \notin unread
            => Fact("required_when", id) \in facts

\* A pull request cannot make the next reviews laxer for everyone, by the gate
\* or by the skip, without a blocker (spec section 12.4).
LooserReviewIsFlagged == LooserGateIsFlagged /\ WiderSkipIsFlagged

\* Nor can it weaken the team in one of the three ways that the rules look for,
\* in files that could be read and keep their paths: a persona that is still
\* defined leaves the registry, an override enlarges a persona's budget or bends
\* its prompt, or it loses its required_when.  (Nothing compares volunteer_on, skip_when, models, the
\* team limits or a removed override, and this says nothing of them.)
WeakerTeamIsFlagged ==
    LostPersonaIsFlagged /\ WeakerPersonaIsFlagged /\ DroppedRequirementIsFlagged

\* No false alarm over config.yaml: a change that leaves every effective
\* setting as it was (the defaults written out, say) has no fact about it.
SameSettingsAreQuiet ==
    Compared(ConfigFile) /\ BothLoad /\ Was = Is =>
        \A fact \in facts : fact.what \in {"required_when", "permissions"}
=============================================================================
