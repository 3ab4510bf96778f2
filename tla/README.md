# agentic-review: specifications, model checking and proofs

`agentic-review` reviews pull requests. A GitHub event starts one process; it collects
facts about the change, picks a team of personas (some are code, most are prompts to a
model), runs them in parallel, passes what they find through four verification lenses,
posts the survivors as review comments with one summary, and exits 0 (clean), 1 (it could
not review) or 2 (findings reach the threshold). Branch protection rests on that exit
code, so what can be wrong in this program is seldom an arithmetic slip: it is a failed
call that turns into a pass, a certain blocker that a later lens removes, a second wave
that forgets what the first was restricted to, or a retry that posts twice.

Section numbers (§) are those of `docs/spec.md`. Paths are relative to `src/internal/`
unless they start with `cmd/` or `docs/`.

## 1. Inventory

### Components, their state and their operations

| component | state | operations | hard behaviour | what makes it correct |
|---|---|---|---|---|
| review orchestration `runner/review.go`, `ghevent/` | the run's progress, exit code; the pull request's comments | `Parse`, `Gate`, `handleSummons`, facts, config, skip, triage, roster, team, verify, post, `failInfra`, `postSkip` | a dozen steps that fail; runs that overlap; the app's own comments are events | no failure becomes a pass; a red check is explained; only writers are heard; own comments are inert |
| gate `gate/` | none | `Exit`, `Skip` | the configuration that decides is the head's | a certain weakening is not passed |
| mechanical validation `runner/mechanical.go`, `diffscan/` | coverage of the diff; the findings of one persona | `ScanFiles`, `groundEvidence`, `validateAnchor`, `dryRunSuggestedFix`, truncation | quotes with wrong line numbers, at the edges of a file, of two commits; hunk arithmetic; anchor, evidence and fix that disagree | every surviving quote is real and cited where it is; no quote that matches its lines costs a finding its life; comments lie in the diff |
| verification `verify/`, `runner/envelope.go` | payload, verdicts and disposition of every finding | groundedness, injection, duplication, materiality, gate | batch answers that omit findings; exempt code-computed facts; merging by two relations; a lens that fails | a certain blocker gates, or is traded for a fact in code; flagged text does not survive; one survivor per claim; blockers leave only with a verdict; fates are final |
| roster `roster/` | none (a function of registry, facts, assessment, escalations) | `Compute`: requirement, exclusion, cap, floor, escalation, budget | limits that interact, recomputed half-way | required members stay; budgets hold |
| team `runner/team.go`, `runner/triage.go` | outcomes of the members, slots, both rosters | `RunTriage`, `RunTeam`, `runWave`, `runMember` | goroutines under a semaphore; failing members; a second wave | nobody runs twice; every required persona is served; every slot comes back; it ends |
| model conversation `runner/team.go`, `verify/lens.go`, `runner/triage.go`, `tools/`, `infer/` | message list, tool budget, turns, schema retries, transport retries | ask, serve tool calls, ask again, give up | three nested budgets; refused tool calls must still be answered | budgets hold; every request is well formed; it ends |
| content cache `gh/content.go` | cache, total, mutex | `Get` | the fetch runs outside the lock | the total cap holds; settled entries are final |
| posting `post/`, `render/marker.go`, `gh/retry.go` | comments and summaries on the pull request, a run's queue | list, dedup, cap, `CreateReview`, `CreateFileComment`, `upsertSummary` | retried POSTs that were applied; overlapping runs; crashes | what a completed run accepted is on the page; the summary comes last; nothing is repeated beyond the retries |
| persona registry `persona/`, `localconfig/`, `config/` | none after loading | `localconfig.Load`, `LoadDir`, `Resolve`, `MergePrompts`, validation | three layers that override one another; a field left out is a zero or a default, depending on the layer | guards cannot be configured away; ceilings hold; one triage persona |
| config-guard `handlers/configguard.go` | the facts found so far | rules per changed file, intent judgment | compares raw overrides of two files that were fetched separately, either of which may fail | a change that weakens the review in effect is a blocker; one without effect is not |
| dep-risk `handlers/deprisk.go`, `osv/` | none | advisory lookup per changed dependency | failing services | findings are per dependency |
| facts and classes `facts/`, `classes/`, `gitattributes/` | none | `Assemble`, `Classify` | precedence of what tells a file's class | a file that must be reviewed is not taken for generated |
| activation language `activation/` | none | compile, lint, evaluate | a third-party expression engine | linted rules evaluate |
| the rest: `schema/`, `validate/`, `logx/`, `artifact/`, `infer/record.go`, `goldentest/`, `cmd/`, `shim/` | files | decoding, printing, recording, wiring | none | round trips |

### How they interact

`Review` is one goroutine that calls the others in order: `ghevent.Gate`, the summons,
`facts.Assemble`, `persona.Resolve`, `gate.Skip`, `RunTriage`, `roster.Compute`,
`RunTeam`, `verify.Run`, `post.Post`, `gate.Exit`. Concurrency is inside `RunTeam`: each
wave's members are goroutines, at most four at a time, which share one `ContentStore`
(mutex) and one outcomes map (mutex). The other kind of concurrency is between processes:
two events of one pull request start two runs, which meet only on the pull request, in
calls to GitHub that the transport may repeat. A run keeps nothing on disk: what survives
a crash are the comments, and a later run reads back two things from them, the
fingerprints of findings and the history in the summary's marker.

`PROJECT.json` lists the components with what is modelled of each, and the hazards, each
at the line where it bites with the properties that would catch it.

## 2. Modules

| module | models | used by |
|---|---|---|
| `Gate` | `gate.Exit`, `gate.Skip`, severities and exit codes | Verify, Review, Posting |
| `Roster` | `roster.Compute` as operators over the registry | Team |
| `Team` | triage, first roster, scope, both waves, what is stamped | MCTeam, TeamProofs |
| `Diff` | the patch of an edited file, and `diffscan.Scan` over it | Grounding |
| `Grounding` | evidence, anchors and fixes of one persona's findings, and the comments they become | MCGrounding, GroundingProofs |
| `Verify` | truncation, the lenses, the gate | MCVerify, VerifyProofs |
| `Screening` | the abstract promise of verification; `Verify` implements it | Verify |
| `ContentStore` | concurrent `Get`s | MCContentStore, ContentStoreProofs |
| `Conversation` | the three turn loops over `HTTPClient.Complete` | MCConversation, ConversationProofs |
| `Posting` | the comments of a pull request under overlapping runs | MCPosting, PostingProofs |
| `Review` | runs from event to exit code | MCReview, ReviewProofs |
| `Personas` | `config.Load`, `persona.LoadDir`, `persona.Resolve`, `localconfig.Load` as operators over a checkout | ConfigGuard |
| `Classes` | `classes.Classify` over a file's evidence | ConfigGuard |
| `ConfigGuard` | a run over a change of the configuration: the head loaded, each changed file compared, the judgment | MCConfigGuard, ConfigGuardProofs |

### Verify

One behaviour is one run's findings. `emitted` holds the payloads as the personas gave
them (chosen in `Init`), `payload`, `disposition`, `verdicts` and `merged` what the stages
leave. Each stage is one action, as each is one call in the code: `MechanicalValidate`
(anchor and evidence checks, whose outcome is chosen, then `truncateFindings`),
`Groundedness`, `Injection` (mechanical screen, model batch, redaction of exempt facts),
`Duplication`, `Materiality` and the gate; any model lens may instead fail the run. A model's batch answer is any
partial function from the judged findings to pass or fail, so an omitted verdict is part
of every run. `Verifiable` and `Exempt` are `verify/lens.go`'s opt-out. Text is
abstracted to what lenses compare: the claim's class (`topic`), the evidence (`quote`),
the lines, and whether the screen would flag it. Redacting changes a claim's class, which
is what makes redaction before merging interesting.

Who opts out is not a matter of kind. `definition.validate` makes every agent ask for
verification and forbids a deterministic persona nothing (`persona/definition.go:190-200`): a
repository may give one the handler `builtin/config-guard` and `verification.required: true`.
`codeComputed` does not ask for the opt-out (`verify/duplication.go:125`), so the fact of such a
persona is a fact in the merge and open to the model afterwards. The model calls it `Contested`.

`Screening` says what the stage promises without lenses: items are only withdrawn, certain
blockers (`binding`) may stand in for one another and may be traded for a contested fact, but
not all leave without one that stays in their place; the outcome is decided once, and either
kind rules out a clear one. `ImplementsScreening` is that specification under a refinement
mapping, `CertainBlockerGates` says of each certain blocker what a clean exit then means: it was
merged with a contested fact and materiality failed that one.

### Diff and Grounding

`Grounding` is what happens in between the choice `Verify!MechanicalValidate` leaves open and
the finding's place on the page. A file has its lines at both commits and the edit that leads
from one to the other, a sequence of kept, removed and added lines; whether it can be read at
a commit is fixed, since a settled entry of `ContentStore` answers alike for the whole run. A
line of text is its indentation and what trimming leaves of it.

`Diff` turns the edit into the patch that GitHub would give (hunks with context, headers that
say 0 for a side without lines, the mark of a missing last newline), and says apart from it
which lines of either side a reader sees (`Visible`). `Scan` folds `ScanLine` over the patch,
as the loop in `diffscan` does; it never looks at the edit, so that the two can be compared.

The findings of a persona are taken one by one, and each is one action per check:
`GroundEvidence` (`LocateQuote` in the trimmed file, at the anchor's commit and, for the model
pass of config-guard, then at the other), `ValidateAnchor`, `DryRunSuggestedFix`. `Post` makes
a comment of any accepted ones. The properties are stated with definitions of their own
(`ByteMatches`, `IsAt`, `Visible`) and not with those of the code. `ByteMatches` is §6.2's rule
for a quote. Half of that rule is kept, and is `TrueQuotesSurvive`: what matches is not dropped.
The other half, that what does not match is dropped, is not (section 3), and `QuotesAreReal` says
what the code guarantees in its place.

### Roster and Team

A persona is its place in the sorted registry, since `Compute` orders by id. Rules are
reduced to the set of personas whose `required_when` or `volunteer_on` matches, with and
without an assessment. `Team` has one action per goroutine step. Each wave makes its own
semaphore (`Dispatch`), a buffered channel with room for `capacity` tokens that holds `held`.
`Start` sends a token, in id order and only into a channel that has room; `Finish` records an
answer or an error and the ids it escalates to, and takes a token out of a channel that has one.
Who runs is kept apart from the tokens, so a slot that is not given back shows. `Collect`
ends wave 1 (recomputing the roster when somebody escalated), `StampFindings` ends the
run. The scope of a summons restricts the first roster only, as in the code.

### Conversation

`runAgent`, `callVerifyBatch` and `RunTriage` are the same loop with other limits
(`style`). A message is its role and its number of tool calls, enough to say that each
request answers every call of the previous turn. `Complete` is one action per HTTP
attempt.

### ContentStore

The two critical sections of `Get` and the fetch between them are three actions (`Hit` or
`Miss`, `Fetch`, `Commit`) of any number of readers.

### Posting

One action per GitHub call. A call may answer, fail for good, or fail in a way that the
transport retries, and in each failing case it may or may not have been applied. A run may
crash between any two steps. A summary comment is the list of runs in its marker.

### Review

One action per step of `Review`; what `Team`, `Verify` and `Posting` model in detail is one
action here, with the outcomes those modules allow. Of the personas only config-guard is
told from the others. `certain` says that config-guard's rules, on the contents they read,
find a weakening. `Echoes` gives the events that the app's own comments cause.

### Personas, Classes and ConfigGuard

A checkout is a `config.yaml`, a personas directory and the permissions block of the
invoking workflow; each file may be absent or broken, each field unset. `Personas` says
what `localconfig.Load` makes of it: whether it loads (`LoadsTree`) and the registry it
gives (`RegistryOf`). `Resolve`'s early returns are the conjuncts of `Resolves`; its maps
are iterated in any order by Go, which does not matter since one failing entry fails all.

`ConfigGuard` follows one run over a change from `base` to `head`. `Load` resolves the head,
or ends the run; `Compare` handles one listed file, with two fetches that may each fail and
then stand for an empty file, in any order of the files; `Judge` asks the model, which may
fail. `moved` are files that the change renames out of the way: they are deleted from their
old path and are listed under the new one, so they are never compared.

The rules look at what is written. The properties speak of what it does, with the operators
of the code that reads the configuration: `LooserReviewIsFlagged` asks `gate.Exit`,
`classes.Classify` and `gate.Skip` (its parts are `LooserGateIsFlagged` and
`WiderSkipIsFlagged`), `WeakerTeamIsFlagged` asks `persona.Resolve` on both sides (its parts
are `LostPersonaIsFlagged`, `WeakerPersonaIsFlagged` and `DroppedRequirementIsFlagged`). `LayersAreBounded` also says what `Verify` assumes of its personas
(`AgentsAreVerified`): every agent's findings are verified.

`map` in `PROJECT.json` ties each definition to its lines.

## 3. Runs

| run | module | question | bounds, and why they are enough |
|---|---|---|---|
| `VerifyRuns` | MCVerify | every property of the verification stage | three findings of an agent, of config-guard and of a repository's deterministic persona that asks for verification: merging chains need three, an exempt fact must meet two findings that are open to the model, and the agent's limit of one is exceeded by its two. Payloads cover every combination of fingerprint and anchor equality among them, and flagged text in every place |
| `ContentGets` | MCContentStore | the cache under overlapping Gets | two readers suffice for every race between the two sections of `Get`; the cap of 4 is below the double counting of the two text files (6); one file is too large, one binary |
| `TeamWaves` | MCTeam | both waves, all limits, termination | the six built-in personas, limits small enough that `team.max`, the size ceiling and the token ceiling all bite; two slots, so that a wave may be smaller than the limit, or larger and its dispatcher wait |
| `PostingRuns` | MCPosting | what is on the pull request after two overlapping runs | two runs, one retry (the code has three; the second adds no new kind of state), history of two, three fingerprints over line, file and summary places |
| `Conversations` | MCConversation | the nested budgets of a conversation | few turns, two schema retries, two tool calls of budget against answers with up to two calls: refusal within one answer and across answers |
| `ReviewRuns` | MCReview | exit codes and who is heard | two runs; each kind of event that the gate tells apart; the settings that decide skip, guard and gate |
| `ConfigChanges` | MCConfigGuard | what configuration can reach, and which changes of it are flagged | four built-ins (an immutable guard, a security-relevant agent, another agent, triage), two files in the personas directory, small ceilings just above the built-ins' budgets. Every ordered pair of variants of one area (gate, skip and globs; overrides; missing, broken and bindings; persona files; permissions), and pairs that change several files: each rule reads one area, so pairs within an area reach every combination a rule can see, and the mixed ones show that facts of several files add up. Six files of different evidence for the skip |
| `GroundingRuns` | MCGrounding | quotes, anchors and fixes against files and diffs | four families of inputs: every quote of up to three lines over two texts, with the file's indentation or without, against every file of up to three (a window at either edge, after the last newline, in an empty file, found twice); two entries over files readable at both, one or no commit; every shape of edit of up to five lines, with one line of context, against ranges that start and end anywhere (two hunks, hunks that merge, files created and emptied); anchors and fixes that fit or not, in answers of two findings |
| `VerifyBlockersJudged`, `TeamScope`, `ReviewGuard`, `GroundingFixes` | as above | one documented claim each, which the code does not keep | as in the passing run |

The type invariants are proved (section 4) and are therefore not among the properties of the
runs; nor are `FateIsFinal` and `PostsBounded`, which are plainer than the others and proved too.

Every property of a passing run has a mutant in `PROJECT.json`: a definition changed as a
plausible bug would change the code, under which TLC finds the property violated.
`CHECK_DEADLOCK` is on everywhere; modules that stop say so in a step of their own that stutters.

### Fairness

- `Team`: `Start` and `Finish` of each member and the main goroutine's step. `Finish` rests on
  `Conversation!Ends`: turns are bounded, each post has a client timeout, retries are
  counted. The Go scheduler runs a ready goroutine eventually.
- `Conversation`: the loop goes on; no fairness is asked of the model's answers.
- `Posting`: every call returns; retries are counted. Crashes are not fair.
- `Review`, `ContentStore`, `ConfigGuard`, `Verify` and `Grounding` state safety only and assume no fairness.

### Disagreements between documents and code, each with a run

- `VerifyBlockersJudged`: an agent's blocker that a batch answer leaves out survives without
  a verdict (`verify/lens.go:241`), where §7 asks for a full verdict pass.
- `TeamScope`: the roster of wave 2 is not restricted to the summons' scope
  (`runner/team.go:86`), where `runner/review.go:295` says the team is.
- `ReviewGuard`: the head's own `skip_when`, and the scope of a summons, keep config-guard
  from running and the run passes (`runner/review.go:145`, `:189`), where §12.4 says that
  such pull requests cannot pass.
- `GroundingFixes`: a fix is kept if its lines lie in the head file
  (`runner/mechanical.go:262`), whatever the anchor says, and on GitHub it replaces the lines of
  its comment; §6.2 asks that it applies to the anchored lines at the head.

Met while reading and left without a run of their own:

- Evidence: §6.2 says that `evidence.source` "must byte-match file content at `head_sha` for the
  stated lines" and "mismatch ⇒ drop" (`docs/spec.md:343-345`). The code compares trimmed lines
  and keeps a quote that it finds anywhere in the file, with its line numbers corrected
  (`runner/mechanical.go:71-79`, `:155-163`; the comment there gives the measurement that led to
  it); it reads the anchor's commit where that is the base's, and it drops a blank quote even of
  lines that are blank (`:130`). `TrueQuotesSurvive` is the half of the rule that the code keeps.
- Merging: facts are exempt from the model lenses so that these cannot drop one
  (`verify/duplication.go:15-22` keeps them through the merge "so a later lens cannot downgrade or
  drop" them). The merge asks who computed a finding and not whether its persona opted out
  (`:125`), so the fact of a repository's own deterministic persona with `verification.required:
  true` (`persona/definition.go:190-200`, `persona/resolve.go:78-86`, run by its handler at
  `runner/team.go:187-190`) may absorb config-guard's certain blocker, and materiality may then
  fail it: the run exits clean. `CertainBlockerGates` says that there is no other way.
- Mechanical validation: a line anchor whose end is missing or before its start passes
  `validateAnchor`, because its loop checks no line (`runner/mechanical.go:221`, against "must
  fall within changed hunks" in §6.2), and GitHub refuses the whole review for such a comment; a
  quote that begins with blank lines can move although its citation is right, because the blank
  lines are cut and the cited line is not (`runner/mechanical.go:155`, against the comment of
  `locateQuote`); wrong line numbers are corrected in evidence but not in the anchor that has
  the same ones (`runner/mechanical.go:142`); the dry run counts the empty line after a last
  newline as a line of the file (`runner/mechanical.go:261`); a finding cut by truncation has no
  verdict to show (`runner/mechanical.go:302`).
- Posting: the transport repeats a POST that may have been applied (`gh/retry.go:44`), where
  §8.1 promises one review (`NoRepeat` says how many copies there can be); a fix is rendered as a
  suggestion in file comments and in the summary too (`post/post.go:104`), where §8.1 says there
  are none; two overlapping runs, or a repeated create, leave two summaries
  (`post/post.go:227`); line and file comments are capped apart (`post/post.go:95`).
- Team: fork-guard only volunteers and is dropped for the token budget on a fork
  (`roster/steps.go:253`), where §12.3 asks to fail closed; escalations can push a volunteer of
  wave 1 out of the final roster (same place, against "additive-only" in §3); a persona dropped
  for the budget is in neither list of the roster (`roster/steps.go:316`); an escalation may
  name the triage persona (`roster/steps.go:168`).
- Content: two overlapping Gets count one file twice and the later may replace content by an
  error (`gh/content.go:82`, `:85`); a transient failure is cached for the run like a permanent
  one.
- Review: the footer shows the first roster only (`runner/review.go:243`); a summons overwrites
  the history (`runner/review.go:98`); two error paths exit 1 without the error summary
  (`runner/review.go:247`, `:266`); the error summary never tells of the fallback roster
  (`runner/review.go:370`).

Of config-guard, whose properties are stated with the conditions under which they hold: a
fetch that fails loses the facts of its file (`handlers/configguard.go:76`); a renamed file
is compared under its new path only, where the base is empty (`handlers/configguard.go:108`;
`gh/port.go:44` has the previous path, which the handler does not read); an override that
the change removes is not looked at, and any budget written where the base had none counts
as raised although it can only lower (`handlers/configguard.go:142`); a file of the
repository that newly defines a built-in's id without its `required_when`, or a persona file
that is deleted, has nothing to be compared with (`handlers/configguard.go:159`, against
"deleted `required_when`" in §12.4); a docs glob that is dropped can move files to a class
that is skipped; `skip_when`, the caps, the materiality floor and the team limits are not
compared at all.

## 4. Proofs

`tlapm` checks every theorem, for every value of the constants that the named assumptions
allow.

| module | theorems | argument |
|---|---|---|
| `VerifyProofs` | `TypeCorrect`, `FatesAreFinal`, `BlockersLeaveWithVerdict`, `NothingFlaggedSurvives`, `CertainBlockersGate`, `PipelineScreens`, `FailuresRedactOrRemove`, `ClaimsSurviveOnce`, `TruncationIsFair` | the type invariant, with `Fresh` (before validation nothing is decided) and `Faithful` (persona and severity agree with what was emitted while nothing was decided); each stage is shown to be orderly once and the first theorems follow. For `CertainBlockersGate` and `PipelineScreens`, a certain blocker is exempt from every model lens, truncation spares blockers, and a certain blocker that is merged away leaves a survivor that is a fact as strong as it, so certain itself or contested, and accepted until materiality judges it: that needs that groups are closed and agree, and that a finite set has least and greatest elements, proved as lemmas. Nothing is assumed of the opt-outs of deterministic personas; where all of them opt out, as the built-in ones do, nothing is contested and a certain blocker rules out a clean exit (`BuiltInGuardsGate`). The refinement follows from the same invariant. `ClaimsSurviveOnce` rests on the same groups: two accepted findings of one claim would be in one group, and a group has one survivor; `TruncationIsFair` counts those that rank above a finding that was cut |
| `GroundingProofs` | `TypeCorrect`, `SurvivingQuotesAreReal`, `ByteMatchesSurvive`, `DroppedQuotesAreInvented`, `CitedQuotesStay`, `AnchorsAreShown`, `SuggestionsAreDryRun` | lemmas on text: what normalising leaves of a quote, that a window that matches is the quote's place in the file and that a quote which occurs has such a window. The invariant (`Examination`) ties what validation wrote to the answer as it came: a dropped finding has an entry without a place, a surviving one has each entry at its place. `ByteMatchesSurvive` adds that lines which byte-match a file carry the normalised quote with them, some blank lines further on; `DroppedQuotesAreInvented` is the code's own rule for dropping, which no run checks because §6.2 has another (section 3). `AnchorsAreShown` needs that the scan of a patch covers what its hunks show, for every edit (`PatchCovers`): the patch is the concatenation of one piece per line of the edit, and after the piece of line i the scan has covered what the hunks show up to i and, inside a hunk, stands at the next line of either side (`ThroughCovers`). `AInv` then follows the anchors through validation and posting, and `Fixes` the fixes |
| `PostingProofs` | `TypeCorrect`, `SummariesComeLast`, `RunsListedOnce`, `NothingRepeats`, `CapsHold`, `CompletedArePublished`, `RunsRunOut`, `QueuesHaveAFirst` | per run (`RunInv`): what is created was to be posted and was not seen, what is still queued or under way is what is missing, and no comment has more copies than attempts. Over runs (`Histories`): whoever is in a summary has settled. That the first findings in emission order are as many as the cap, or all, is counted over finite sets (`FewAreFirst`, `FirstOnesFill`). `RunsRunOut` counts the attempts of the calls a run has still to make (`Left`): a repeated call uses up an attempt, a call that is answered uses up the rest of its own |
| `ContentStoreProofs` | `TypeCorrect`, `TotalIsBounded`, `EntriesSettle`, `PaidByReaders` | the commit's own check is enough for the cap, whatever overlaps; an entry changes only by a `Commit` of a Get under way. `PaidByReaders` needs a stronger bound (`Paid`): the total is at most what each settled key would cost if all readers paid for it except those whose Get of it is still under way, since a key that is in the cache is never fetched by a new Get |
| `TeamProofs` | `TypeCorrect`, `MembersRunOnce`, `RequiredAreServed`, `RecomputesSucceed`, `WaveTwoWasAsked`, `BothWavesFit`, `ScopeLeftWhenAsked`, `RunsRunOut`, `SemaphoreCirculates`, `NobodyIsStuck` | `Compute` keeps required personas whatever is excluded, capped, escalated or dropped (lemmas on the roster); `Apart`: queue, running and finished are disjoint; `Serving`: a required persona in scope is waiting, running or finished until it is stamped. A fork's roster is accepted exactly when its required members fit the token ceiling, and both rosters have the same, so the second is accepted too. Asking for more only adds to the team before the budget is applied, and whoever the budget drops from the smaller team it drops from the larger (`RecomputeAddsTheAsked`), so a newcomer was asked for. Both waves lie in the larger of the two teams, which no limit lets grow past the largest of them. `ScopeLeftWhenAsked` (invariant `Leaving`) is how far the code is from `ScopeRespected`: whoever is outside the scope has not been dispatched before an escalation was answered. `RunsRunOut` counts the stages, the personas that were never dispatched and those that never answered. `SemaphoreCirculates` needs that a wave's semaphore holds one token per running member and that its capacity is positive for a wave that is not empty (`Accounted`); `NobodyIsStuck` follows: the send of the next member finds room or somebody runs, and who runs finds a token |
| `ConversationProofs` | `TypeCorrect`, `ToolBudgetKept`, `PostsAreBounded`, `RequestsAreWellFormed`, `ConversationsRunOut` | the invariant relates executed calls to the remaining budget and posts to turns and attempts, with a monotonicity lemma for the product of turns and attempts. A context is the prompt followed by exchanges (`WellFormed`): each assistant message is answered call for call, and what is appended in one step is again an exchange. `ConversationsRunOut` counts what is left of turns, schema retries and attempts, nested as the budgets are |
| `ReviewProofs` | `TypeCorrect`, `PassesAreReported`, `RedIsReported`, `WeakeningsFail`, `AppIsInert`, `UninvitedAreIgnored` | none of these is inductive. The invariant says, run by run (`Local`), what each step has already established: who was let through, what ran, what was found, what was written. `Apart` shows that a step of one run leaves the others' parts alone, and each action is then treated for its own run |
| `ConfigGuardProofs` | `TypeCorrect`, `GuardsAlwaysStand`, `LayersAlwaysBounded`, `LooserReviewsAreFlagged`, `WeakerTeamsAreFlagged` (each with a theorem per part), `SameSettingsStayQuiet` | two halves. Lemmas on the layering, about any checkout that loads: what `Resolve` lets through and what an override leaves of a definition. The invariant, about the run: `NothingYet` (no facts before the comparison) and `Complete` (a listed file that was compared and read has left all of its facts, and no fact about `config.yaml` comes from anything but the comparison of two real or empty files). Each theorem then argues from the effect back to the rule that sees it |

Sums of tokens and of sizes, and the escalations gathered from the members, are folds over sets
and sequences of any size. The theorems about them use no induction theorem: a fold is a function
on the subsets of a set, and each lemma about it (it unfolds, any element may be taken out first,
it is monotone) looks at a smallest set that would refute the lemma, which exists because the
cardinalities of finite sets are well-founded. The scan of a patch is such a fold over positions,
and its lemmas look at the first line of the edit that would refute them.

Every safety property of a passing run is proved. Only model-checked is liveness (`Terminates`,
`Ends`, `EveryRunEnds`): fairness and `ENABLED` are out of the prover's reach.
The half of it that is safety is proved for the team, for conversations and for posting: a
natural number falls with every step (`RunsRunOut`, `ConversationsRunOut`), so no retry,
escalation or refusal can keep a run busy for ever. That the run also does not stop half-way is
stated without `ENABLED`, as the condition of a step that is due (`NobodyIsStuck`,
`QueuesHaveAFirst`). The runs check on small instances that `FairSpec` makes the two meet.

Three theorems are about claims that the code does not keep and say what it keeps instead:
`ScopeLeftWhenAsked` beside `ScopeRespected`, `SuggestionsAreDryRun` beside
`SuggestionsFitTheirLines`, `SurvivingQuotesAreReal` beside the byte match of §6.2.

## 5. Not modelled

Text: prompts, rendering, escaping, JSON and YAML decoding (a decoder succeeds or fails),
CEL evaluation (a rule compiles, and matches, or not), globbing and manifest parsing (the
evidence a file comes with), CVSS arithmetic. The lookups of dep-risk, a loop without shared state
in which an error of one lookup costs the findings of that lookup and leaves one warning; in `Team`
and `Verify` it is a deterministic member like any other. The cutting of a
local diff for the triage command. Record and replay, the
command line, the action wrapper, logging. GitHub and the model are environments that may
answer anything their callers accept, or fail.

## 6. Plan

Done in this order: `Verify` (what the gate rests on), `ContentStore`, `Team` with `Roster`,
`Conversation`, `Posting`, `Review`, `ConfigGuard` over `Personas` and `Classes`, and
`Grounding` over `Diff`; each with its instance, its mutants and its theorems.

Next:

1. `Review`'s given `certain` taken from `ConfigGuard`, so that the path from a changed file to
   the exit code is one specification; the facts (`facts/assemble.go`) that decide whether
   config-guard is required, with the class of the changed files.
2. `dep-risk` with its lookups that fail one by one (`handlers/deprisk.go`, `osv/`).
3. `Verify`'s choice of what validation keeps taken from `Grounding`.
