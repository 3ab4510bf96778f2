------------------------------- MODULE Verify -------------------------------
(***************************************************************************)
(* The fate of a run's findings between the personas and the exit code:    *)
(* mechanical validation (internal/runner/mechanical.go), the four lenses  *)
(* of internal/verify in their fixed order, and the gate (internal/gate).  *)
(*                                                                         *)
(* A finding is known by its emission number, which is also the order of   *)
(* its envelope.id.  What the personas emitted is chosen once, in Init;    *)
(* what the files, the diff and the verifier models answer is chosen step  *)
(* by step.  Text is abstracted to what the lenses can tell apart: topic   *)
(* is the normalised path with the claim stem, quote the category with the *)
(* evidence sources.  The fingerprint of a finding is <<topic, quote>> as  *)
(* it was emitted, and its anchor key <<topic, lines>> as it stands when   *)
(* the duplication lens runs.                                              *)
(***************************************************************************)
EXTENDS Gate, FiniteSets

CONSTANTS
    Finding,        \* emission numbers of the run's findings
    Persona,        \* personas of the final roster
    Kind,           \* Kind[p]: "agent", "deterministic" or "triage"
    OptsOut,        \* OptsOut[p]: verification.required is false
    MaxFindings,    \* MaxFindings[p]: output.max_findings as configured
    Ceiling,        \* persona.MaxFindingsPerPersona
    ConfigGuard,    \* the persona with id "config-guard"
    Topic, Quote, MaxLine, MaxConfidence,
    RedactedTopic,  \* RedactedTopic[t]: the topic t once its claim is redacted
    Emissions,      \* what the personas may emit: a set of payload functions
    Settings        \* configuration and pull request facts the run may have

ASSUME FindingAssumption == Finding \subseteq Nat /\ IsFiniteSet(Finding)
ASSUME PersonaAssumption ==
    /\ Kind \in [Persona -> {"agent", "deterministic", "triage"}]
    /\ OptsOut \in [Persona -> BOOLEAN]
    /\ MaxFindings \in [Persona -> Nat]
    /\ ConfigGuard \in Persona
    /\ Ceiling \in Nat \ {0}
    /\ MaxLine \in Nat
    /\ MaxConfidence \in Nat
    /\ RedactedTopic \in [Topic -> Topic]
\* persona.Definition.validate: an agent persona must state required: true.
ASSUME AgentsAreVerified == \A p \in Persona : Kind[p] = "agent" => ~OptsOut[p]

NoLines == 0    \* a file or pull-request anchor has no lines

\* Where the mechanical injection screen would hit: nowhere, in the title or
\* the claim, or in the suggested fix only.
Flag == {"none", "prose", "fix"}

Payload == [persona       : Persona,
            modelAuthored : BOOLEAN,
            severity      : Severity,
            confidence    : 0 .. MaxConfidence,
            topic         : Topic,
            quote         : Quote,
            lines         : NoLines .. MaxLine,
            flag          : Flag]

Setting == [isFork              : BOOLEAN,
            materialityFloor    : {"downgrade", "drop"},
            failOn              : FailOn,
            touchesReviewConfig : BOOLEAN]

ASSUME InputAssumption ==
    /\ Emissions \subseteq [Finding -> Payload]
    /\ Settings \subseteq Setting

Lens        == {"groundedness", "injection", "duplication", "materiality"}
Verdict     == [lens : Lens, result : {"pass", "fail"},
                checked : {"mechanical", "model", "mechanical+model"}]
Disposition == {"accepted", "dropped", "downgraded", "merged"}
Stage       == {"mechanical"} \cup Lens \cup {"gate", "done", "failed"}
Pending     == -1   \* the run has not exited yet

VARIABLES
    stage,          \* the step of the pipeline that runs next
    setting,
    emitted,        \* payloads as the personas emitted them
    payload,        \* payloads as mechanical validation and the lenses leave them
    disposition,
    verdicts,       \* the verdicts stamped on each envelope
    merged,         \* envelope.merged_personas
    exit

vars == <<stage, setting, emitted, payload, disposition, verdicts, merged, exit>>

Init ==
    /\ stage = "mechanical"
    /\ setting \in Settings
    /\ emitted \in Emissions
    /\ payload = emitted
    /\ disposition = [f \in Finding |-> "accepted"]
    /\ verdicts = [f \in Finding |-> {}]
    /\ merged = [f \in Finding |-> {}]
    /\ exit = Pending

-----------------------------------------------------------------------------
Accepted == {f \in Finding : disposition[f] = "accepted"}

\* The findings a model lens leaves alone, while they are accepted.
Exempt(f) == OptsOut[payload[f].persona] /\ ~payload[f].modelAuthored

\* Mutant: the opt-out is forgotten.
VerifiableEveryAccepted == Accepted

Verifiable == {f \in Accepted : ~Exempt(f)}

CodeComputed(f) ==
    Kind[payload[f].persona] = "deterministic" /\ ~payload[f].modelAuthored

Stamp(lens, result, checked) ==
    [lens |-> lens, result |-> result, checked |-> checked]

\* Mutant: a blocker keeps its disposition whatever a lens says.
DisposeSparingBlockers(S, fate) ==
    [f \in Finding |->
        IF f \in S /\ payload[f].severity # Blocker THEN fate ELSE disposition[f]]

Dispose(S, fate) ==
    [f \in Finding |-> IF f \in S THEN fate ELSE disposition[f]]

-----------------------------------------------------------------------------
(* Mechanical validation.                                                  *)

NeedsEvidence(f) ==
    Kind[payload[f].persona] = "agent" \/ payload[f].modelAuthored

Limit(p) == IF MaxFindings[p] \in 1 .. Ceiling THEN MaxFindings[p] ELSE Ceiling

\* Mutant: the sort runs from the most severe down.
WeakerReversed(f, g) ==
    \/ payload[f].severity > payload[g].severity
    \/ payload[f].severity = payload[g].severity /\ f < g

\* The order of truncateFindings' stable sort.
Weaker(f, g) ==
    \/ payload[f].severity < payload[g].severity
    \/ payload[f].severity = payload[g].severity /\ f < g

\* Mutant: blockers are not exempt from truncation.
TruncatedBlockersToo(p, S) ==
    {f \in S : Cardinality({g \in S : Weaker(g, f)}) < Cardinality(S) - Limit(p)}

\* What truncateFindings drops of S, the survivors of persona p: the weakest
\* findings beyond the limit, blockers exempt.
Truncated(p, S) ==
    LET droppable == {f \in S : payload[f].severity # Blocker}
    IN  {f \in droppable :
            Cardinality({g \in droppable : Weaker(g, f)})
                < Cardinality(S) - Limit(p)}

\* Each persona's survivors are truncated by themselves.
TruncatedOf(survivors) ==
    UNION {Truncated(p, {f \in survivors : payload[f].persona = p}) : p \in Persona}

\* The evidence of the ungrounded findings matches no file; the lines of the
\* misplaced ones are outside the diff, so the anchor is demoted and loses
\* them; the fixes of the unfixable ones do not apply and are taken off.
MechanicalValidate ==
    /\ stage = "mechanical"
    /\ \E ungrounded \in SUBSET {f \in Finding : NeedsEvidence(f)} :
       \E misplaced \in SUBSET {f \in Finding \ ungrounded : payload[f].lines # NoLines} :
       \E unfixable \in SUBSET {f \in Finding \ ungrounded : payload[f].flag = "fix"} :
          /\ payload' = [f \in Finding |->
                [payload[f] EXCEPT
                    !.lines = IF f \in misplaced THEN NoLines ELSE @,
                    !.flag  = IF f \in unfixable THEN "none" ELSE @]]
          /\ disposition' = Dispose(ungrounded \cup TruncatedOf(Finding \ ungrounded),
                                    "dropped")
          /\ verdicts' = [f \in Finding |->
                IF f \in ungrounded
                THEN {Stamp("groundedness", "fail", "mechanical")}
                ELSE verdicts[f]]
    /\ stage' = "groundedness"
    /\ UNCHANGED <<setting, emitted, merged, exit>>

-----------------------------------------------------------------------------
(* The lenses.  A batch call answers "pass" or "fail" for a finding, or    *)
(* leaves it out ("missing"), which the caller takes for no judgment.      *)

Judgments(S) == [S -> {"pass", "fail", "missing"}]

Failed(judged) == {f \in DOMAIN judged : judged[f] = "fail"}

WithJudgments(lens, checked, judged) ==
    [f \in Finding |->
        IF f \in DOMAIN judged /\ judged[f] # "missing"
        THEN verdicts[f] \cup {Stamp(lens, judged[f], checked)}
        ELSE verdicts[f]]

Groundedness ==
    /\ stage = "groundedness"
    /\ \E judged \in Judgments(Verifiable) :
        /\ disposition' = Dispose(Failed(judged), "dropped")
        /\ verdicts' = WithJudgments("groundedness", "model", judged)
    /\ stage' = "injection"
    /\ UNCHANGED <<setting, emitted, payload, merged, exit>>

\* Mutant: the screen does not read the suggested fix.
FlaggedInProse == {f \in Accepted : payload[f].flag = "prose"}

Flagged == {f \in Accepted : payload[f].flag # "none"}

\* What the injection lens sends to its model.
Unflagged == Verifiable \ Flagged

\* A flagged finding that is exempt is redacted and kept; any other flagged
\* finding is dropped without a model call; the rest are judged.  Of the
\* findings flagged in their prose, the restated ones were hit in the claim,
\* whose stem the redaction changes.
Injection ==
    /\ stage = "injection"
    /\ \E judged \in Judgments(Unflagged) :
        /\ disposition' =
              Dispose((Flagged \cap Verifiable) \cup Failed(judged), "dropped")
        /\ verdicts' = [f \in Finding |->
              IF f \in Flagged
              THEN verdicts[f] \cup {Stamp("injection", "fail", "mechanical")}
              ELSE WithJudgments("injection", "mechanical+model", judged)[f]]
    /\ \E restated \in SUBSET {f \in Flagged : Exempt(f) /\ payload[f].flag = "prose"} :
          payload' = [f \in Finding |->
              IF f \in Flagged /\ Exempt(f)
              THEN [payload[f] EXCEPT
                        !.flag  = "none",
                        !.topic = IF f \in restated THEN RedactedTopic[@] ELSE @]
              ELSE payload[f]]
    /\ stage' = "duplication"
    /\ UNCHANGED <<setting, emitted, merged, exit>>

\* Equal fingerprints, or equal anchors with equal claim stems.
Same(f, g) ==
    \/ /\ emitted[f].topic = emitted[g].topic
       /\ emitted[f].quote = emitted[g].quote
    \/ /\ payload[f].topic = payload[g].topic
       /\ payload[f].lines = payload[g].lines

\* Mutant: direct duplicates only, no union-find.
GroupDirect(f) == {g \in Accepted : Same(f, g)}

\* The union-find class of f: what every set closed under Same and holding f
\* holds.
ClosedUnderSame(S) == \A f \in S, g \in Accepted : Same(f, g) => g \in S

Group(f) == {g \in Accepted :
                \A S \in SUBSET Accepted :
                    f \in S /\ ClosedUnderSame(S) => g \in S}

\* Mutant: no preference for code-computed findings.
FactualIgnored(G) == G

\* pickSurvivor's criteria, one after the other.
MostSevere(G) == {f \in G : \A g \in G : payload[g].severity =< payload[f].severity}
Factual(G)    == IF \E f \in G : CodeComputed(f)
                 THEN {f \in G : CodeComputed(f)}
                 ELSE G
Surest(G)     == {f \in G : \A g \in G : payload[g].confidence =< payload[f].confidence}
Survivor(G)   == LET best == Surest(Factual(MostSevere(G)))
                 IN  CHOOSE f \in best : \A g \in best : f =< g

Duplication ==
    /\ stage = "duplication"
    /\ LET losers == {f \in Accepted : Survivor(Group(f)) # f}
       IN  /\ disposition' = Dispose(losers, "merged")
           /\ verdicts' = [f \in Finding |->
                 IF f \in losers
                 THEN verdicts[f] \cup {Stamp("duplication", "fail", "mechanical")}
                 ELSE verdicts[f]]
           /\ merged' = [f \in Finding |->
                 IF f \in Accepted \ losers /\ Group(f) # {f}
                 THEN {payload[g].persona : g \in Group(f)}
                 ELSE merged[f]]
    /\ stage' = "materiality"
    /\ UNCHANGED <<setting, emitted, payload, exit>>

Materiality ==
    /\ stage = "materiality"
    /\ \E judged \in Judgments(Verifiable) :
        /\ verdicts' = WithJudgments("materiality", "model", judged)
        /\ IF setting.isFork \/ setting.materialityFloor = "drop"
           THEN /\ disposition' = Dispose(Failed(judged), "dropped")
                /\ UNCHANGED payload
           ELSE /\ disposition' = Dispose(Failed(judged), "downgraded")
                /\ payload' = [f \in Finding |->
                      IF f \in Failed(judged)
                      THEN [payload[f] EXCEPT !.severity = Nit]
                      ELSE payload[f]]
    /\ stage' = "gate"
    /\ UNCHANGED <<setting, emitted, merged, exit>>

-----------------------------------------------------------------------------
(* A verify call that cannot complete fails the stage closed: verify.Run   *)
(* returns no findings and the run ends with an error summary.  There is a *)
(* call to fail only when the lens has findings to send.                   *)
LensFailure ==
    /\ \/ stage \in {"groundedness", "materiality"} /\ Verifiable # {}
       \/ stage = "injection" /\ Unflagged # {}
    /\ stage' = "failed"
    /\ exit' = Infra
    /\ UNCHANGED <<setting, emitted, payload, disposition, verdicts, merged>>

\* post.Post fails: the gate is never consulted.
PostFailure ==
    /\ stage = "gate"
    /\ stage' = "failed"
    /\ exit' = Infra
    /\ UNCHANGED <<setting, emitted, payload, disposition, verdicts, merged>>

Conclude ==
    /\ stage = "gate"
    /\ exit' = ExitCode({payload[f].severity : f \in Accepted},
                        \E f \in Accepted : /\ payload[f].persona = ConfigGuard
                                            /\ payload[f].severity = Blocker,
                        setting.failOn, setting.touchesReviewConfig)
    /\ stage' = "done"
    /\ UNCHANGED <<setting, emitted, payload, disposition, verdicts, merged>>

Terminated == stage \in {"done", "failed"} /\ UNCHANGED vars

Next ==
    \/ MechanicalValidate
    \/ Groundedness
    \/ Injection
    \/ Duplication
    \/ Materiality
    \/ LensFailure
    \/ PostFailure
    \/ Conclude
    \/ Terminated

Spec == Init /\ [][Next]_vars

-----------------------------------------------------------------------------
TypeOK ==
    /\ stage \in Stage
    /\ setting \in Setting
    /\ emitted \in [Finding -> Payload]
    /\ payload \in [Finding -> Payload]
    /\ disposition \in [Finding -> Disposition]
    /\ verdicts \in [Finding -> SUBSET Verdict]
    /\ merged \in [Finding -> SUBSET Persona]
    /\ exit \in {Pending, Clean, Infra, Findings}

\* A fact computed in code by a persona that opts out of verification, at
\* blocker severity, as it was emitted.
Certain(f) ==
    /\ Kind[emitted[f].persona] = "deterministic"
    /\ OptsOut[emitted[f].persona]
    /\ ~emitted[f].modelAuthored
    /\ emitted[f].severity = Blocker

\* The same fact from a deterministic persona that does not opt out, which the
\* verifier models judge: a repository may define one (persona.Definition.validate
\* holds only agents to required: true).
Contested(f) ==
    /\ Kind[emitted[f].persona] = "deterministic"
    /\ ~OptsOut[emitted[f].persona]
    /\ ~emitted[f].modelAuthored
    /\ emitted[f].severity = Blocker

\* The findings the merge touched, losers and survivors, and those among them
\* that a chain of duplicates links to f, a loser.
Grouped == {g \in Finding : disposition[g] = "merged" \/ merged[g] # {}}

ClosedInGroups(S) == \A f \in S, g \in Grouped : Same(f, g) => g \in S

MergedWith(f) ==
    {g \in Grouped : /\ disposition[f] = "merged"
                     /\ \A S \in SUBSET Grouped :
                           f \in S /\ ClosedInGroups(S) => g \in S}

\* A run that was told of certain blockers exits 2 or fails, with one way out:
\* truncation, the screen and the model verdicts never reach a certain blocker,
\* and the merge may only trade it for another blocker computed in code.  When
\* that one's persona did not opt out, materiality may fail it afterwards (the
\* gate rule of gate.Exit, and the tie-break of pickSurvivor it depends on).
CertainBlockerGates ==
    exit = Clean =>
        \A f \in Finding : Certain(f) =>
            \E g \in MergedWith(f) :
                Contested(g) /\ Stamp("materiality", "fail", "model") \in verdicts[g]

\* From the merge on, no two accepted findings are duplicates of each other
\* (post.Post would publish the same claim twice), and a finding merged away
\* is represented: among the duplicates it leads to, one that was not merged,
\* at least as severe when emitted, credits its persona.
OneSurvivorPerClaim ==
    /\ stage \in {"materiality", "gate", "done"} =>
          \A f, g \in Accepted : Same(f, g) => f = g
    /\ \A f \in Finding : disposition[f] = "merged" =>
          \E g \in MergedWith(f) :
              /\ disposition[g] # "merged"
              /\ emitted[f].persona \in merged[g]
              /\ emitted[g].severity >= emitted[f].severity

\* From the injection lens on, nothing the mechanical screen flags is left
\* among the findings post.Post would render in full.
NoFlaggedSurvivor ==
    stage \in {"duplication", "materiality", "gate", "done"} =>
        \A f \in Accepted : payload[f].flag = "none"

\* A finding that carries a failing verdict is out, unless it is an exempt
\* fact whose text the injection lens redacted.
FailureIsRedactionOrExit ==
    \A f \in Accepted : \A v \in verdicts[f] :
        v.result = "fail" =>
            /\ v = Stamp("injection", "fail", "mechanical")
            /\ Exempt(f)
            /\ emitted[f].flag # "none" /\ payload[f].flag = "none"

\* A finding that disappears without a verdict was truncated, and then its
\* persona kept at least its limit of findings ranked above it.
TruncationSparesTheStrong ==
    \A f \in Finding : disposition[f] = "dropped" /\ verdicts[f] = {} =>
        LET p == emitted[f].persona
            kept == {g \in Finding :
                        /\ emitted[g].persona = p
                        /\ Stamp("groundedness", "fail", "mechanical") \notin verdicts[g]
                        /\ \/ emitted[g].severity > emitted[f].severity
                           \/ emitted[g].severity = emitted[f].severity /\ g > f}
        IN  Cardinality(kept) >= Limit(p)

\* A blocker is taken out only by a failing verdict stamped on it: neither
\* truncation nor a missing judgment can make one disappear.
BlockerNeedsVerdict ==
    \A f \in Finding :
        emitted[f].severity = Blocker /\ disposition[f] # "accepted" =>
            \E v \in verdicts[f] : v.result = "fail"

\* A lens passes on what an earlier one decided: no finding comes back, no
\* verdict is erased, no severity rises, and a finding out of the review is
\* not rewritten.
FateIsFinal ==
    [][\A f \in Finding :
          /\ verdicts[f] \subseteq verdicts'[f]
          /\ payload'[f].severity =< payload[f].severity
          /\ disposition[f] # "accepted" =>
                /\ disposition'[f] = disposition[f]
                /\ verdicts'[f] = verdicts[f]
                /\ payload'[f] = payload[f]]_vars

\* What the specification document says of blockers (section 7): one that an
\* agent emitted survives only with a full verdict pass.
BlockersFullyJudged ==
    stage = "done" =>
        \A f \in Accepted :
            Kind[payload[f].persona] = "agent" /\ payload[f].severity = Blocker =>
                \A lens \in {"groundedness", "injection", "materiality"} :
                    \E v \in verdicts[f] : v.lens = lens /\ v.result = "pass"

\* The pipeline as an abstract screening.
Screen == INSTANCE Screening WITH
    Item      <- Finding,
    live      <- Accepted,
    binding   <- {f \in Finding : Certain(f)},
    contested <- {f \in Finding : Contested(f)},
    outcome   <- CASE exit = Pending  -> "open"
                   [] exit = Clean    -> "clear"
                   [] exit = Findings -> "gated"
                   [] exit = Infra    -> "aborted"

\* Every step of the pipeline is a step of the screening or a stutter.
ImplementsScreening == Screen!Spec
=============================================================================
