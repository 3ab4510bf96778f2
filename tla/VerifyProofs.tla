---------------------------- MODULE VerifyProofs ----------------------------
(***************************************************************************)
(* What holds of the verification pipeline for any personas, any findings  *)
(* and any answers of the verifier models: types, the order of fates, the  *)
(* blockers, the merge, the gate, the screening, and then what failing     *)
(* verdicts and the truncation may do.                                     *)
(***************************************************************************)
EXTENDS Verify, WellFoundedInduction, TLAPS

LEMMA DisposeType ==
    ASSUME disposition \in [Finding -> Disposition],
           NEW S, NEW fate \in Disposition
    PROVE  Dispose(S, fate) \in [Finding -> Disposition]
BY DEF Dispose

LEMMA WithJudgmentsType ==
    ASSUME verdicts \in [Finding -> SUBSET Verdict],
           NEW lens \in Lens,
           NEW checked \in {"mechanical", "model", "mechanical+model"},
           NEW S, NEW judged \in Judgments(S)
    PROVE  WithJudgments(lens, checked, judged) \in [Finding -> SUBSET Verdict]
<1> SUFFICES ASSUME NEW f \in Finding, f \in DOMAIN judged, judged[f] # "missing"
             PROVE  verdicts[f] \cup {Stamp(lens, judged[f], checked)} \subseteq Verdict
  BY DEF WithJudgments
<1>1. judged[f] \in {"pass", "fail"}
  BY DEF Judgments
<1>2. Stamp(lens, judged[f], checked) \in Verdict
  BY <1>1 DEF Stamp, Verdict
<1> QED
  BY <1>2

LEMMA StampType ==
    ASSUME NEW lens \in Lens, NEW result \in {"pass", "fail"},
           NEW checked \in {"mechanical", "model", "mechanical+model"}
    PROVE  Stamp(lens, result, checked) \in Verdict
BY DEF Stamp, Verdict

\* The verdict of a mechanical check, stamped on some of the findings.
LEMMA StampedType ==
    ASSUME verdicts \in [Finding -> SUBSET Verdict],
           NEW lens \in Lens, NEW S
    PROVE  [f \in Finding |->
              IF f \in S THEN verdicts[f] \cup {Stamp(lens, "fail", "mechanical")}
              ELSE verdicts[f]] \in [Finding -> SUBSET Verdict]
<1>1. Stamp(lens, "fail", "mechanical") \in Verdict
  BY StampType
<1> QED
  BY <1>1

LEMMA MechanicalType == TypeOK /\ MechanicalValidate => TypeOK'
<1> SUFFICES ASSUME TypeOK, MechanicalValidate PROVE TypeOK'
  OBVIOUS
<1>0. PICK ungrounded \in SUBSET {f \in Finding : NeedsEvidence(f)} :
      \E misplaced \in SUBSET {f \in Finding \ ungrounded : payload[f].lines # NoLines} :
      \E unfixable \in SUBSET {f \in Finding \ ungrounded : payload[f].flag = "fix"} :
        /\ payload' = [f \in Finding |->
              [payload[f] EXCEPT
                  !.lines = IF f \in misplaced THEN NoLines ELSE @,
                  !.flag  = IF f \in unfixable THEN "none" ELSE @]]
        /\ disposition' = Dispose(ungrounded \cup TruncatedOf(Finding \ ungrounded),
                                  "dropped")
        /\ verdicts' = [f \in Finding |->
              IF f \in ungrounded
              THEN {Stamp("groundedness", "fail", "mechanical")}
              ELSE verdicts[f]]
  BY DEF MechanicalValidate
<1>1. PICK misplaced \in SUBSET {f \in Finding \ ungrounded : payload[f].lines # NoLines},
           unfixable \in SUBSET {f \in Finding \ ungrounded : payload[f].flag = "fix"} :
        /\ payload' = [f \in Finding |->
              [payload[f] EXCEPT
                  !.lines = IF f \in misplaced THEN NoLines ELSE @,
                  !.flag  = IF f \in unfixable THEN "none" ELSE @]]
        /\ disposition' = Dispose(ungrounded \cup TruncatedOf(Finding \ ungrounded),
                                  "dropped")
        /\ verdicts' = [f \in Finding |->
              IF f \in ungrounded
              THEN {Stamp("groundedness", "fail", "mechanical")}
              ELSE verdicts[f]]
  BY <1>0
<1>2. payload' \in [Finding -> Payload]
  <2> SUFFICES ASSUME NEW f \in Finding
               PROVE  [payload[f] EXCEPT
                        !.lines = IF f \in misplaced THEN NoLines ELSE @,
                        !.flag  = IF f \in unfixable THEN "none" ELSE @] \in Payload
    BY <1>1
  <2>1. payload[f] \in Payload
    BY DEF TypeOK
  <2>2. NoLines \in NoLines .. MaxLine /\ "none" \in Flag
    BY PersonaAssumption DEF NoLines, Flag
  <2> QED
    BY <2>1, <2>2 DEF Payload
<1>3. disposition' \in [Finding -> Disposition]
  BY <1>1, DisposeType DEF TypeOK, Disposition
<1>4. verdicts' \in [Finding -> SUBSET Verdict]
  <2>1. Stamp("groundedness", "fail", "mechanical") \in Verdict
    BY StampType DEF Lens
  <2> QED
    BY <1>1, <2>1 DEF TypeOK
<1>5. /\ stage' \in Stage
      /\ UNCHANGED <<setting, emitted, merged, exit>>
  BY DEF MechanicalValidate, Stage, Lens
<1> QED
  BY <1>2, <1>3, <1>4, <1>5 DEF TypeOK

LEMMA GroundednessType == TypeOK /\ Groundedness => TypeOK'
<1> SUFFICES ASSUME TypeOK, Groundedness PROVE TypeOK'
  OBVIOUS
<1>1. PICK judged \in Judgments(Verifiable) :
        /\ disposition' = Dispose(Failed(judged), "dropped")
        /\ verdicts' = WithJudgments("groundedness", "model", judged)
  BY DEF Groundedness
<1>2. disposition' \in [Finding -> Disposition]
  BY <1>1, DisposeType DEF TypeOK, Disposition
<1>3. verdicts' \in [Finding -> SUBSET Verdict]
  BY <1>1, WithJudgmentsType DEF TypeOK, Lens
<1>4. stage' \in Stage /\ UNCHANGED <<setting, emitted, payload, merged, exit>>
  BY DEF Groundedness, Stage, Lens
<1> QED
  BY <1>2, <1>3, <1>4 DEF TypeOK

LEMMA InjectionType == TypeOK /\ Injection => TypeOK'
<1> SUFFICES ASSUME TypeOK, Injection PROVE TypeOK'
  OBVIOUS
<1>1. PICK judged \in Judgments(Unflagged) :
        /\ disposition' =
              Dispose((Flagged \cap Verifiable) \cup Failed(judged), "dropped")
        /\ verdicts' = [f \in Finding |->
              IF f \in Flagged
              THEN verdicts[f] \cup {Stamp("injection", "fail", "mechanical")}
              ELSE WithJudgments("injection", "mechanical+model", judged)[f]]
  BY DEF Injection
<1>2. PICK restated :
        payload' = [f \in Finding |->
            IF f \in Flagged /\ Exempt(f)
            THEN [payload[f] EXCEPT
                      !.flag  = "none",
                      !.topic = IF f \in restated THEN RedactedTopic[@] ELSE @]
            ELSE payload[f]]
  BY Zenon DEF Injection
<1>3. payload' \in [Finding -> Payload]
  <2> SUFFICES ASSUME NEW f \in Finding
               PROVE  [payload[f] EXCEPT
                          !.flag  = "none",
                          !.topic = IF f \in restated THEN RedactedTopic[@] ELSE @]
                      \in Payload
    BY <1>2 DEF TypeOK
  <2>1. payload[f] \in Payload
    BY DEF TypeOK
  <2>2. RedactedTopic[payload[f].topic] \in Topic /\ "none" \in Flag
    BY <2>1, PersonaAssumption DEF Payload, Flag
  <2> QED
    BY <2>1, <2>2 DEF Payload
<1>4. disposition' \in [Finding -> Disposition]
  BY <1>1, DisposeType DEF TypeOK, Disposition
<1>5. verdicts' \in [Finding -> SUBSET Verdict]
  <2>1. WithJudgments("injection", "mechanical+model", judged) \in [Finding -> SUBSET Verdict]
    BY WithJudgmentsType DEF TypeOK, Lens
  <2>2. Stamp("injection", "fail", "mechanical") \in Verdict
    BY StampType DEF Lens
  <2> QED
    BY <1>1, <2>1, <2>2 DEF TypeOK
<1>6. stage' \in Stage /\ UNCHANGED <<setting, emitted, merged, exit>>
  BY DEF Injection, Stage, Lens
<1> QED
  BY <1>3, <1>4, <1>5, <1>6 DEF TypeOK

LEMMA DuplicationType == TypeOK /\ Duplication => TypeOK'
<1> SUFFICES ASSUME TypeOK, Duplication PROVE TypeOK'
  OBVIOUS
<1>1. PICK losers :
        /\ disposition' = Dispose(losers, "merged")
        /\ verdicts' = [f \in Finding |->
              IF f \in losers
              THEN verdicts[f] \cup {Stamp("duplication", "fail", "mechanical")}
              ELSE verdicts[f]]
        /\ merged' = [f \in Finding |->
              IF f \in Accepted \ losers /\ Group(f) # {f}
              THEN {payload[g].persona : g \in Group(f)}
              ELSE merged[f]]
  BY Zenon DEF Duplication
<1>2. merged' \in [Finding -> SUBSET Persona]
  <2> SUFFICES ASSUME NEW f \in Finding
               PROVE  {payload[g].persona : g \in Group(f)} \subseteq Persona
    BY <1>1 DEF TypeOK
  <2> QED
    BY DEF Group, Accepted, TypeOK, Payload
<1>3. disposition' \in [Finding -> Disposition]
  BY <1>1, DisposeType DEF TypeOK, Disposition
<1>4. verdicts' \in [Finding -> SUBSET Verdict]
  BY <1>1, StampedType DEF TypeOK, Lens
<1>5. stage' \in Stage /\ UNCHANGED <<setting, emitted, payload, exit>>
  BY DEF Duplication, Stage, Lens
<1> QED
  BY <1>2, <1>3, <1>4, <1>5 DEF TypeOK

LEMMA MaterialityType == TypeOK /\ Materiality => TypeOK'
<1> SUFFICES ASSUME TypeOK, Materiality PROVE TypeOK'
  OBVIOUS
<1>1. PICK judged \in Judgments(Verifiable) :
        /\ verdicts' = WithJudgments("materiality", "model", judged)
        /\ \/ disposition' = Dispose(Failed(judged), "dropped") /\ UNCHANGED payload
           \/ /\ disposition' = Dispose(Failed(judged), "downgraded")
              /\ payload' = [f \in Finding |->
                    IF f \in Failed(judged)
                    THEN [payload[f] EXCEPT !.severity = Nit]
                    ELSE payload[f]]
  BY Zenon DEF Materiality
<1>2. disposition' \in [Finding -> Disposition]
  BY <1>1, DisposeType DEF TypeOK, Disposition
<1>3. payload' \in [Finding -> Payload]
  <2>1. \A f \in Finding : [payload[f] EXCEPT !.severity = Nit] \in Payload
    BY DEF TypeOK, Payload, Severity, Nit, Blocker
  <2> QED
    BY <1>1, <2>1 DEF TypeOK
<1>4. verdicts' \in [Finding -> SUBSET Verdict]
  BY <1>1, WithJudgmentsType DEF TypeOK, Lens
<1>5. stage' \in Stage /\ UNCHANGED <<setting, emitted, merged, exit>>
  BY DEF Materiality, Stage, Lens
<1> QED
  BY <1>2, <1>3, <1>4, <1>5 DEF TypeOK

\* The pipeline's state stays well formed: no lens invents a disposition, a
\* severity or a verdict outside the schema.
THEOREM TypeCorrect == Spec => []TypeOK
<1>1. Init => TypeOK
  BY InputAssumption DEF Init, TypeOK, Stage, Disposition
<1>2. TypeOK /\ [Next]_vars => TypeOK'
  <2> SUFFICES ASSUME TypeOK, [Next]_vars PROVE TypeOK'
    OBVIOUS
  <2>1. CASE LensFailure
    BY <2>1 DEF LensFailure, TypeOK, Stage
  <2>2. CASE PostFailure
    BY <2>2 DEF PostFailure, TypeOK, Stage
  <2>3. CASE Conclude
    <3>1. exit' \in {Clean, Findings}
      BY <2>3 DEF Conclude, ExitCode
    <3> QED
      BY <2>3, <3>1 DEF Conclude, TypeOK, Stage
  <2>4. CASE Terminated
    BY <2>4 DEF Terminated, vars, TypeOK
  <2>5. CASE UNCHANGED vars
    BY <2>5 DEF vars, TypeOK
  <2> QED
    BY <2>1, <2>2, <2>3, <2>4, <2>5, MechanicalType, GroundednessType, InjectionType,
       DuplicationType, MaterialityType DEF Next
<1> QED
  BY <1>1, <1>2, PTL DEF Spec

-----------------------------------------------------------------------------
(* What any step may do to a finding.                                      *)

\* Nothing is judged before mechanical validation.
Fresh ==
    stage = "mechanical" =>
        \A f \in Finding : disposition[f] = "accepted" /\ verdicts[f] = {}

Orderly(f) ==
    /\ payload'[f].persona = payload[f].persona
    /\ payload'[f].modelAuthored = payload[f].modelAuthored
    /\ payload'[f].severity =< payload[f].severity
    /\ disposition'[f] = "accepted" =>
          /\ disposition[f] = "accepted"
          /\ payload'[f].severity = payload[f].severity
    /\ verdicts[f] \subseteq verdicts'[f]
    /\ disposition[f] # "accepted" =>
          /\ disposition'[f] = disposition[f]
          /\ verdicts'[f] = verdicts[f]
          /\ payload'[f] = payload[f]

LEMMA SeverityReflexive ==
    ASSUME TypeOK, NEW f \in Finding
    PROVE  payload[f] \in Payload /\ payload[f].severity =< payload[f].severity
BY DEF TypeOK, Payload, Severity, Nit, Blocker

\* A judged finding was accepted.
LEMMA JudgedWasAccepted ==
    ASSUME NEW S, S \subseteq Accepted, NEW judged \in Judgments(S)
    PROVE  DOMAIN judged = S /\ DOMAIN judged \subseteq Accepted /\ Failed(judged) \subseteq Accepted
BY DEF Judgments, Failed

LEMMA MechanicalIsOrderly ==
    ASSUME TypeOK, Fresh, MechanicalValidate, NEW f \in Finding
    PROVE  Orderly(f)
<1>1. disposition[f] = "accepted" /\ verdicts[f] = {}
  BY DEF Fresh, MechanicalValidate
<1>2. PICK ungrounded \in SUBSET {g \in Finding : NeedsEvidence(g)} :
      \E misplaced \in SUBSET {g \in Finding \ ungrounded : payload[g].lines # NoLines} :
      \E unfixable \in SUBSET {g \in Finding \ ungrounded : payload[g].flag = "fix"} :
        /\ payload' = [g \in Finding |->
              [payload[g] EXCEPT
                  !.lines = IF g \in misplaced THEN NoLines ELSE @,
                  !.flag  = IF g \in unfixable THEN "none" ELSE @]]
        /\ disposition' = Dispose(ungrounded \cup TruncatedOf(Finding \ ungrounded),
                                  "dropped")
        /\ verdicts' = [g \in Finding |->
              IF g \in ungrounded
              THEN {Stamp("groundedness", "fail", "mechanical")}
              ELSE verdicts[g]]
  BY DEF MechanicalValidate
<1>3. PICK misplaced \in SUBSET {g \in Finding \ ungrounded : payload[g].lines # NoLines},
           unfixable \in SUBSET {g \in Finding \ ungrounded : payload[g].flag = "fix"} :
        /\ payload' = [g \in Finding |->
              [payload[g] EXCEPT
                  !.lines = IF g \in misplaced THEN NoLines ELSE @,
                  !.flag  = IF g \in unfixable THEN "none" ELSE @]]
        /\ disposition' = Dispose(ungrounded \cup TruncatedOf(Finding \ ungrounded),
                                  "dropped")
        /\ verdicts' = [g \in Finding |->
              IF g \in ungrounded
              THEN {Stamp("groundedness", "fail", "mechanical")}
              ELSE verdicts[g]]
  BY <1>2
<1>4. /\ payload'[f].persona = payload[f].persona
      /\ payload'[f].modelAuthored = payload[f].modelAuthored
      /\ payload'[f].severity = payload[f].severity
  BY <1>3, SeverityReflexive DEF Payload
<1> QED
  BY <1>1, <1>4, SeverityReflexive DEF Orderly

LEMMA GroundednessIsOrderly ==
    ASSUME TypeOK, Groundedness, NEW f \in Finding
    PROVE  Orderly(f)
<1>1. PICK judged \in Judgments(Verifiable) :
        /\ disposition' = Dispose(Failed(judged), "dropped")
        /\ verdicts' = WithJudgments("groundedness", "model", judged)
  BY DEF Groundedness
<1>2. DOMAIN judged \subseteq Accepted /\ Failed(judged) \subseteq Accepted
  BY JudgedWasAccepted DEF Verifiable
<1>3. payload' = payload
  BY DEF Groundedness
<1> QED
  BY <1>1, <1>2, <1>3, SeverityReflexive DEF Orderly, Dispose, WithJudgments, Accepted

LEMMA InjectionIsOrderly ==
    ASSUME TypeOK, Injection, NEW f \in Finding
    PROVE  Orderly(f)
<1>1. PICK judged \in Judgments(Unflagged) :
        /\ disposition' =
              Dispose((Flagged \cap Verifiable) \cup Failed(judged), "dropped")
        /\ verdicts' = [g \in Finding |->
              IF g \in Flagged
              THEN verdicts[g] \cup {Stamp("injection", "fail", "mechanical")}
              ELSE WithJudgments("injection", "mechanical+model", judged)[g]]
  BY DEF Injection
<1>2. /\ DOMAIN judged \subseteq Accepted
      /\ (Flagged \cap Verifiable) \cup Failed(judged) \subseteq Accepted
  BY JudgedWasAccepted DEF Verifiable, Unflagged
<1>3. PICK restated \in SUBSET {g \in Flagged : Exempt(g) /\ payload[g].flag = "prose"} :
        payload' = [g \in Finding |->
            IF g \in Flagged /\ Exempt(g)
            THEN [payload[g] EXCEPT
                      !.flag  = "none",
                      !.topic = IF g \in restated THEN RedactedTopic[@] ELSE @]
            ELSE payload[g]]
  BY DEF Injection
<1>4. /\ payload'[f].persona = payload[f].persona
      /\ payload'[f].modelAuthored = payload[f].modelAuthored
      /\ payload'[f].severity = payload[f].severity
  BY <1>3, SeverityReflexive DEF Payload
<1>5. disposition[f] # "accepted" =>
        payload'[f] = payload[f] /\ disposition'[f] = disposition[f] /\ verdicts'[f] = verdicts[f]
  BY <1>1, <1>2, <1>3 DEF Flagged, Accepted, Dispose, WithJudgments
<1>6. verdicts[f] \subseteq verdicts'[f]
  BY <1>1 DEF WithJudgments
<1> QED
  BY <1>1, <1>4, <1>5, <1>6, SeverityReflexive DEF Orderly, Dispose

LEMMA DuplicationIsOrderly ==
    ASSUME TypeOK, Duplication, NEW f \in Finding
    PROVE  Orderly(f)
<1>1. PICK losers :
        /\ losers \subseteq Accepted
        /\ disposition' = Dispose(losers, "merged")
        /\ verdicts' = [g \in Finding |->
              IF g \in losers
              THEN verdicts[g] \cup {Stamp("duplication", "fail", "mechanical")}
              ELSE verdicts[g]]
  BY DEF Duplication
<1>2. payload' = payload
  BY DEF Duplication
<1> QED
  BY <1>1, <1>2, SeverityReflexive DEF Orderly, Dispose, Accepted

LEMMA MaterialityIsOrderly ==
    ASSUME TypeOK, Materiality, NEW f \in Finding
    PROVE  Orderly(f)
<1>1. PICK judged \in Judgments(Verifiable) :
        /\ verdicts' = WithJudgments("materiality", "model", judged)
        /\ \/ disposition' = Dispose(Failed(judged), "dropped") /\ payload' = payload
           \/ /\ disposition' = Dispose(Failed(judged), "downgraded")
              /\ payload' = [g \in Finding |->
                    IF g \in Failed(judged)
                    THEN [payload[g] EXCEPT !.severity = Nit]
                    ELSE payload[g]]
  BY Zenon DEF Materiality
<1>2. DOMAIN judged \subseteq Accepted /\ Failed(judged) \subseteq Accepted
  BY JudgedWasAccepted DEF Verifiable
<1>3. /\ verdicts[f] \subseteq verdicts'[f]
      /\ disposition[f] # "accepted" => verdicts'[f] = verdicts[f]
  BY <1>1, <1>2 DEF WithJudgments, Accepted
<1>4. CASE f \notin Failed(judged)
  <2>1. payload'[f] = payload[f] /\ disposition'[f] = disposition[f]
    BY <1>1, <1>4 DEF Dispose
  <2> QED
    BY <1>3, <2>1, SeverityReflexive DEF Orderly
<1>5. CASE f \in Failed(judged)
  <2>1. disposition[f] = "accepted" /\ disposition'[f] # "accepted"
    BY <1>1, <1>2, <1>5 DEF Accepted, Dispose
  <2>2. payload'[f] \in {payload[f], [payload[f] EXCEPT !.severity = Nit]}
    BY <1>1
  <2>3. /\ payload'[f].persona = payload[f].persona
        /\ payload'[f].modelAuthored = payload[f].modelAuthored
        /\ payload'[f].severity =< payload[f].severity
    BY <2>2, SeverityReflexive DEF Payload, Severity, Nit, Blocker
  <2> QED
    BY <1>3, <2>1, <2>3 DEF Orderly
<1> QED
  BY <1>4, <1>5

LEMMA StepIsOrderly ==
    ASSUME TypeOK, Fresh, [Next]_vars, NEW f \in Finding
    PROVE  Orderly(f)
<1>1. CASE UNCHANGED <<payload, disposition, verdicts>>
  BY <1>1, SeverityReflexive DEF Orderly
<1> QED
  BY <1>1, MechanicalIsOrderly, GroundednessIsOrderly, InjectionIsOrderly,
     DuplicationIsOrderly, MaterialityIsOrderly
  DEF Next, LensFailure, PostFailure, Conclude, Terminated, vars

\* Mechanical validation runs first, on findings nobody has judged.
LEMMA FreshInvariant == Spec => []Fresh
<1>1. Init => Fresh
  BY DEF Init, Fresh
<1>2. Fresh /\ [Next]_vars => Fresh'
  BY DEF Fresh, Next, MechanicalValidate, Groundedness, Injection, Duplication, Materiality,
         LensFailure, PostFailure, Conclude, Terminated, vars
<1> QED
  BY <1>1, <1>2, PTL DEF Spec

\* No lens reverses an earlier one: a finding that is out stays out, as it
\* was, verdicts only accumulate and severities only fall.
THEOREM FatesAreFinal == Spec => FateIsFinal
<1>1. TypeOK /\ Fresh /\ [Next]_vars =>
        [\A f \in Finding :
            /\ verdicts[f] \subseteq verdicts'[f]
            /\ payload'[f].severity =< payload[f].severity
            /\ disposition[f] # "accepted" =>
                  /\ disposition'[f] = disposition[f]
                  /\ verdicts'[f] = verdicts[f]
                  /\ payload'[f] = payload[f]]_vars
  BY StepIsOrderly DEF Orderly
<1> QED
  BY <1>1, TypeCorrect, FreshInvariant, PTL DEF Spec, FateIsFinal

-----------------------------------------------------------------------------
(* What stays of a finding as it was emitted while it is accepted.         *)

Faithful ==
    \A f \in Finding :
        /\ payload[f].persona = emitted[f].persona
        /\ payload[f].modelAuthored = emitted[f].modelAuthored
        /\ f \in Accepted => payload[f].severity = emitted[f].severity

LEMMA FaithfulStep ==
    ASSUME TypeOK, Fresh, Faithful, [Next]_vars
    PROVE  Faithful'
<1>1. emitted' = emitted
  BY DEF Next, MechanicalValidate, Groundedness, Injection, Duplication, Materiality,
         LensFailure, PostFailure, Conclude, Terminated, vars
<1> QED
  BY <1>1, StepIsOrderly DEF Faithful, Orderly, Accepted

LEMMA FaithfulInvariant == Spec => []Faithful
<1>1. Init => Faithful
  BY DEF Init, Faithful
<1> QED
  BY <1>1, FaithfulStep, TypeCorrect, FreshInvariant, PTL DEF Spec

\* A step that takes a blocker out stamps a failing verdict on it.
LEMMA BlockerLeavesWithVerdict ==
    ASSUME TypeOK, Faithful, [Next]_vars,
           NEW f \in Finding, emitted[f].severity = Blocker,
           disposition[f] = "accepted", disposition'[f] # "accepted"
    PROVE  \E v \in verdicts'[f] : v.result = "fail"
<1>0. payload[f].severity = Blocker /\ f \in Accepted
  BY DEF Faithful, Accepted
<1>1. CASE MechanicalValidate
  <2>1. PICK ungrounded \in SUBSET {g \in Finding : NeedsEvidence(g)} :
          /\ disposition' = Dispose(ungrounded \cup TruncatedOf(Finding \ ungrounded),
                                    "dropped")
          /\ verdicts' = [g \in Finding |->
                IF g \in ungrounded
                THEN {Stamp("groundedness", "fail", "mechanical")}
                ELSE verdicts[g]]
    BY <1>1 DEF MechanicalValidate
  <2>2. f \notin TruncatedOf(Finding \ ungrounded)
    BY <1>0 DEF TruncatedOf, Truncated
  <2>3. f \in ungrounded
    BY <2>1, <2>2 DEF Dispose
  <2> QED
    BY <2>1, <2>3 DEF Stamp
<1>A. \A lens, checked : Stamp(lens, "fail", checked).result = "fail"
  BY DEF Stamp
<1>2. ASSUME NEW lens, NEW checked, NEW S, NEW judged \in Judgments(S), f \in Failed(judged)
      PROVE  \E v \in WithJudgments(lens, checked, judged)[f] : v.result = "fail"
  <2>1. f \in DOMAIN judged /\ judged[f] = "fail"
    BY <1>2 DEF Failed
  <2>2. Stamp(lens, "fail", checked) \in WithJudgments(lens, checked, judged)[f]
    BY <2>1 DEF WithJudgments
  <2> QED
    BY <1>A, <2>2
<1>3. CASE Groundedness
  <2>1. PICK judged \in Judgments(Verifiable) :
          /\ disposition' = Dispose(Failed(judged), "dropped")
          /\ verdicts' = WithJudgments("groundedness", "model", judged)
    BY <1>3 DEF Groundedness
  <2>2. f \in Failed(judged)
    BY <2>1 DEF Dispose
  <2> QED
    BY <1>2, <2>1, <2>2
<1>4. CASE Injection
  <2>1. PICK judged \in Judgments(Unflagged) :
          /\ disposition' =
                Dispose((Flagged \cap Verifiable) \cup Failed(judged), "dropped")
          /\ verdicts' = [g \in Finding |->
                IF g \in Flagged
                THEN verdicts[g] \cup {Stamp("injection", "fail", "mechanical")}
                ELSE WithJudgments("injection", "mechanical+model", judged)[g]]
    BY <1>4 DEF Injection
  <2>2. f \in Flagged \/ f \in Failed(judged)
    BY <2>1 DEF Dispose
  <2>3. CASE f \in Flagged
    <3>1. Stamp("injection", "fail", "mechanical") \in verdicts'[f]
      BY <2>1, <2>3
    <3> QED
      BY <1>A, <3>1
  <2>4. CASE f \notin Flagged
    BY <1>2, <2>1, <2>2, <2>4
  <2> QED
    BY <2>3, <2>4
<1>5. CASE Duplication
  <2>1. PICK losers :
          /\ disposition' = Dispose(losers, "merged")
          /\ verdicts' = [g \in Finding |->
                IF g \in losers
                THEN verdicts[g] \cup {Stamp("duplication", "fail", "mechanical")}
                ELSE verdicts[g]]
    BY <1>5 DEF Duplication
  <2>2. f \in losers
    BY <2>1 DEF Dispose
  <2>3. Stamp("duplication", "fail", "mechanical") \in verdicts'[f]
    BY <2>1, <2>2
  <2> QED
    BY <1>A, <2>3
<1>6. CASE Materiality
  <2>1. PICK judged \in Judgments(Verifiable) :
          /\ verdicts' = WithJudgments("materiality", "model", judged)
          /\ \/ disposition' = Dispose(Failed(judged), "dropped")
             \/ disposition' = Dispose(Failed(judged), "downgraded")
    BY <1>6 DEF Materiality
  <2>2. f \in Failed(judged)
    BY <2>1 DEF Dispose
  <2> QED
    BY <1>2, <2>1, <2>2
<1>7. CASE UNCHANGED disposition
  BY <1>7
<1> QED
  BY <1>1, <1>3, <1>4, <1>5, <1>6, <1>7
  DEF Next, LensFailure, PostFailure, Conclude, Terminated, vars

\* No blocker disappears without a failing verdict on it: truncateFindings
\* exempts blockers, and a batch that omits one leaves it accepted.
THEOREM BlockersLeaveWithVerdict == Spec => []BlockerNeedsVerdict
<1>1. Init => BlockerNeedsVerdict
  BY DEF Init, BlockerNeedsVerdict
<1>2. TypeOK /\ Fresh /\ Faithful /\ BlockerNeedsVerdict /\ [Next]_vars => BlockerNeedsVerdict'
  <2> SUFFICES ASSUME TypeOK, Fresh, Faithful, BlockerNeedsVerdict, [Next]_vars,
                      NEW f \in Finding,
                      emitted'[f].severity = Blocker, disposition'[f] # "accepted"
               PROVE  \E v \in verdicts'[f] : v.result = "fail"
    BY DEF BlockerNeedsVerdict
  <2>1. emitted' = emitted
    BY DEF Next, MechanicalValidate, Groundedness, Injection, Duplication, Materiality,
           LensFailure, PostFailure, Conclude, Terminated, vars
  <2>2. CASE disposition[f] = "accepted"
    BY <2>1, <2>2, BlockerLeavesWithVerdict
  <2>3. CASE disposition[f] # "accepted"
    BY <2>1, <2>3, StepIsOrderly DEF Orderly, BlockerNeedsVerdict
  <2> QED
    BY <2>2, <2>3
<1> QED
  BY <1>1, <1>2, TypeCorrect, FreshInvariant, FaithfulInvariant, PTL DEF Spec

-----------------------------------------------------------------------------
\* Nothing the mechanical screen flags reaches post.Post: the injection lens
\* drops or redacts it, and no later lens puts text back.
THEOREM NothingFlaggedSurvives == Spec => []NoFlaggedSurvivor
<1>1. Init => NoFlaggedSurvivor
  BY DEF Init, NoFlaggedSurvivor
<1>2. TypeOK /\ Fresh /\ NoFlaggedSurvivor /\ [Next]_vars => NoFlaggedSurvivor'
  <2> SUFFICES ASSUME TypeOK, Fresh, NoFlaggedSurvivor, [Next]_vars,
                      stage' \in {"duplication", "materiality", "gate", "done"},
                      NEW f \in Finding, disposition'[f] = "accepted"
               PROVE  payload'[f].flag = "none"
    BY DEF NoFlaggedSurvivor, Accepted
  <2>0. f \in Accepted
    BY StepIsOrderly DEF Orderly, Accepted
  <2>1. CASE Injection
    <3>1. f \notin Flagged \cap Verifiable
      BY <2>1, <2>0 DEF Injection, Dispose
    <3>2. CASE f \in Flagged
      <4>1. Exempt(f)
        BY <2>0, <3>1, <3>2 DEF Verifiable
      <4>2. PICK restated \in SUBSET {g \in Flagged : Exempt(g) /\ payload[g].flag = "prose"} :
              payload' = [g \in Finding |->
                  IF g \in Flagged /\ Exempt(g)
                  THEN [payload[g] EXCEPT
                            !.flag  = "none",
                            !.topic = IF g \in restated THEN RedactedTopic[@] ELSE @]
                  ELSE payload[g]]
        BY <2>1 DEF Injection
      <4> QED
        BY <3>2, <4>1, <4>2, SeverityReflexive DEF Payload
    <3>3. CASE f \notin Flagged
      BY <2>0, <2>1, <3>3 DEF Flagged, Injection
    <3> QED
      BY <3>2, <3>3
  <2>2. CASE Materiality
    <3>1. payload[f].flag = "none"
      BY <2>0, <2>2 DEF NoFlaggedSurvivor, Materiality
    <3>2. payload'[f] \in {payload[f], [payload[f] EXCEPT !.severity = Nit]}
      BY <2>2 DEF Materiality
    <3> QED
      BY <3>1, <3>2, SeverityReflexive DEF Payload
  <2>3. CASE payload' = payload /\ stage \in {"duplication", "materiality", "gate", "done"}
    BY <2>0, <2>3 DEF NoFlaggedSurvivor
  <2> QED
    BY <2>1, <2>2, <2>3
    DEF Next, MechanicalValidate, Groundedness, Duplication, LensFailure, PostFailure,
        Conclude, Terminated, vars
<1> QED
  BY <1>1, <1>2, TypeCorrect, FreshInvariant, PTL DEF Spec

-----------------------------------------------------------------------------
(* Least and greatest elements.                                            *)

LEMMA LeastNatural ==
    ASSUME NEW T, T \subseteq Nat, T # {}
    PROVE  \E x \in T : \A y \in T : x =< y
<1>1. PICK x \in T : \A y \in T : ~(<<y, x>> \in OpToRel(<, Nat))
  BY NatLessThanWellFounded, WFMin
<1>2. \A y \in T : ~(y < x)
  BY <1>1 DEF OpToRel
<1>3. \A y \in T : x \in Nat /\ y \in Nat
  OBVIOUS
<1>4. \A y \in T : x =< y
  BY <1>2, <1>3
<1> QED
  BY <1>4

LEMMA GreatestBounded ==
    ASSUME NEW n \in Nat, NEW T, T \subseteq 0 .. n, T # {}
    PROVE  \E x \in T : \A y \in T : y =< x
<1> DEFINE Below == {n - x : x \in T}
<1>1. Below \subseteq Nat /\ Below # {}
  <2>1. \A x \in T : n - x \in Nat
    OBVIOUS
  <2> QED
    BY <2>1
<1>2. PICK b \in Below : \A c \in Below : b =< c
  BY <1>1, LeastNatural
<1>3. PICK x \in T : b = n - x
  BY <1>2
<1>4. \A y \in T : n - x =< n - y
  BY <1>2, <1>3
<1>5. \A y \in T : x \in 0 .. n /\ y \in 0 .. n
  OBVIOUS
<1>6. \A y \in T : y =< x
  BY <1>4, <1>5
<1> QED
  BY <1>6

-----------------------------------------------------------------------------
(* Duplicate groups are the classes of an equivalence.                     *)

LEMMA SameSymmetric == \A f, g : Same(f, g) => Same(g, f)
BY DEF Same

LEMMA GroupIsClosed ==
    ASSUME NEW f \in Accepted
    PROVE  f \in Group(f) /\ Group(f) \subseteq Accepted /\ ClosedUnderSame(Group(f))
<1>1. f \in Group(f) /\ Group(f) \subseteq Accepted
  BY DEF Group
<1>2. ASSUME NEW a \in Group(f), NEW b \in Accepted, Same(a, b)
      PROVE  b \in Group(f)
  <2> SUFFICES ASSUME NEW S \in SUBSET Accepted, f \in S, ClosedUnderSame(S)
               PROVE  b \in S
    BY DEF Group
  <2>1. a \in S
    BY DEF Group
  <2> QED
    BY <1>2, <2>1 DEF ClosedUnderSame
<1> QED
  BY <1>1, <1>2 DEF ClosedUnderSame

LEMMA GroupIsLeast ==
    ASSUME NEW f \in Accepted, NEW S \in SUBSET Accepted, f \in S, ClosedUnderSame(S)
    PROVE  Group(f) \subseteq S
BY DEF Group

LEMMA GroupsAgree ==
    ASSUME NEW f \in Accepted, NEW g \in Group(f)
    PROVE  Group(g) = Group(f)
<1>0. g \in Accepted
  BY GroupIsClosed
<1>1. Group(g) \subseteq Group(f)
  BY <1>0, GroupIsClosed, GroupIsLeast
<1>2. f \in Group(g)
  <2> SUFFICES ASSUME f \notin Group(g) PROVE FALSE
    OBVIOUS
  <2> DEFINE S == Group(f) \ Group(g)
  <2>1. S \in SUBSET Accepted /\ f \in S
    BY GroupIsClosed
  <2>2. ASSUME NEW a \in S, NEW b \in Accepted, Same(a, b) PROVE b \in S
    <3>1. b \in Group(f)
      BY <2>2, GroupIsClosed DEF ClosedUnderSame
    <3>2. b \notin Group(g)
      <4> SUFFICES ASSUME b \in Group(g) PROVE FALSE
        OBVIOUS
      <4>1. Same(b, a) /\ a \in Accepted
        BY <2>1, <2>2, SameSymmetric
      <4>2. a \in Group(g)
        BY <1>0, <4>1, GroupIsClosed DEF ClosedUnderSame
      <4> QED
        BY <4>2
    <3> QED
      BY <3>1, <3>2
  <2>3. Group(f) \subseteq S
    <3>1. ClosedUnderSame(S)
      BY <2>2 DEF ClosedUnderSame
    <3> QED
      BY <2>1, <3>1, GroupIsLeast
  <2>4. g \in Group(g)
    BY <1>0, GroupIsClosed
  <2> QED
    BY <2>3, <2>4
<1>3. Group(f) \subseteq Group(g)
  BY <1>0, <1>2, GroupIsClosed, GroupIsLeast
<1> QED
  BY <1>1, <1>3

-----------------------------------------------------------------------------
(* One survivor per claim.                                                 *)

\* Of any duplicate group, pickSurvivor picks a member, and none is more severe.
LEMMA GroupHasSurvivor ==
    ASSUME TypeOK, NEW f \in Accepted
    PROVE  /\ Survivor(Group(f)) \in Group(f)
           /\ \A g \in Group(f) : payload[g].severity =< payload[Survivor(Group(f))].severity
<1> DEFINE G == Group(f)
<1>1. f \in G /\ G \subseteq Accepted /\ G \subseteq Finding
  BY GroupIsClosed DEF Accepted
<1>2. \A g \in G : payload[g].severity \in Severity /\ payload[g].confidence \in 0 .. MaxConfidence
  BY <1>1 DEF TypeOK, Payload
<1> HIDE DEF G
<1>3. MostSevere(G) # {}
  <2> DEFINE C == {payload[g].severity : g \in G}
  <2>1. C \subseteq 0 .. 3 /\ C # {}
    BY <1>1, <1>2 DEF Severity, Nit, Blocker
  <2>2. PICK c \in C : \A d \in C : d =< c
    BY <2>1, GreatestBounded
  <2>3. PICK g \in G : payload[g].severity = c
    BY <2>2
  <2> QED
    BY <2>2, <2>3 DEF MostSevere
<1> DEFINE F == Factual(MostSevere(G))
<1>4. F # {} /\ F \subseteq MostSevere(G) /\ F \subseteq G
  BY <1>3 DEF Factual, MostSevere
<1> HIDE DEF F
<1>5. Surest(F) # {} /\ Surest(F) \subseteq F
  <2> DEFINE C == {payload[g].confidence : g \in F}
  <2>1. C \subseteq 0 .. MaxConfidence /\ C # {}
    BY <1>2, <1>4
  <2>2. PICK c \in C : \A d \in C : d =< c
    BY <2>1, GreatestBounded, PersonaAssumption
  <2>3. PICK g \in F : payload[g].confidence = c
    BY <2>2
  <2> QED
    BY <2>2, <2>3 DEF Surest
<1>6. PICK s \in Surest(F) : \A g \in Surest(F) : s =< g
  <2>1. Surest(F) \subseteq Nat
    BY <1>1, <1>4, <1>5, FindingAssumption
  <2> QED
    BY <1>5, <2>1, LeastNatural
<1>7. Survivor(G) \in Surest(F)
  BY <1>6 DEF Survivor, F
<1>8. Survivor(G) \in G /\ Survivor(G) \in MostSevere(G)
  BY <1>4, <1>5, <1>7
<1> QED
  BY <1>8 DEF MostSevere, G

\* Nothing is merged before the merge.
Unmerged ==
    stage \in {"mechanical", "groundedness", "injection", "duplication"} =>
        \A f \in Finding : disposition[f] # "merged" /\ merged[f] = {}

Distinct ==
    stage \in {"materiality", "gate", "done"} =>
        \A f, g \in Accepted : Same(f, g) => f = g

Represents(g, f) ==
    /\ disposition[g] # "merged"
    /\ emitted[f].persona \in merged[g]
    /\ emitted[g].severity >= emitted[f].severity

Represented ==
    \A f \in Finding : disposition[f] = "merged" =>
        \E g \in MergedWith(f) : Represents(g, f)

LEMMA SameIsKept ==
    ASSUME NEW f \in Finding, NEW g \in Finding, emitted' = emitted,
           payload'[f].topic = payload[f].topic, payload'[g].topic = payload[g].topic,
           payload'[f].lines = payload[f].lines, payload'[g].lines = payload[g].lines
    PROVE  Same(f, g)' <=> Same(f, g)
BY DEF Same

\* A step that neither merges nor moves.
MergeStands ==
    /\ emitted' = emitted /\ merged' = merged
    /\ \A f \in Finding :
          /\ payload'[f].topic = payload[f].topic /\ payload'[f].lines = payload[f].lines
          /\ disposition'[f] = "merged" <=> disposition[f] = "merged"

LEMMA MergedWithIsKept ==
    ASSUME MergeStands, NEW f \in Finding
    PROVE  MergedWith(f)' = MergedWith(f)
<1>1. Grouped' = Grouped
  BY DEF Grouped, MergeStands
<1>2. \A a, b \in Finding : Same(a, b)' <=> Same(a, b)
  BY SameIsKept DEF MergeStands
<1>3. \A S \in SUBSET Grouped : ClosedInGroups(S)' <=> ClosedInGroups(S)
  BY <1>1, <1>2 DEF ClosedInGroups, Grouped
<1> QED
  BY <1>1, <1>3 DEF MergedWith, MergeStands

LEMMA GroupsAreKept ==
    ASSUME Represented, MergeStands
    PROVE  Represented'
<1> SUFFICES ASSUME NEW f \in Finding, disposition[f] = "merged"
             PROVE  \E g \in MergedWith(f)' : Represents(g, f)'
  BY DEF Represented, MergeStands
<1>1. PICK g \in MergedWith(f) : Represents(g, f)
  BY DEF Represented
<1>2. g \in Finding
  BY DEF MergedWith, Grouped
<1>3. Represents(g, f)'
  BY <1>1, <1>2 DEF Represents, MergeStands
<1> QED
  BY <1>1, <1>3, MergedWithIsKept

\* What the merge decides of a loser f: the survivor of its group stays, takes
\* over the personas of the group, and is linked to f by duplicates.
LEMMA LoserHasSurvivor ==
    ASSUME TypeOK, Unmerged, Duplication,
           NEW f \in Accepted, Survivor(Group(f)) # f
    PROVE  LET s == Survivor(Group(f))
           IN  /\ s \in Accepted /\ s \in MergedWith(f)'
               /\ disposition'[s] = "accepted" /\ disposition'[f] = "merged"
               /\ merged'[s] = {payload[g].persona : g \in Group(f)}
<1> DEFINE losers == {g \in Accepted : Survivor(Group(g)) # g}
           s == Survivor(Group(f))
<1>1. /\ disposition' = Dispose(losers, "merged")
      /\ merged' = [g \in Finding |->
             IF g \in Accepted \ losers /\ Group(g) # {g}
             THEN {payload[h].persona : h \in Group(g)}
             ELSE merged[g]]
      /\ payload' = payload /\ emitted' = emitted
  BY DEF Duplication
<1>2. f \in losers
  OBVIOUS
<1>3. losers \subseteq Accepted /\ Accepted \subseteq Finding
  BY DEF Accepted
<1>4. \A g \in Accepted \ losers : Survivor(Group(g)) = g
  OBVIOUS
<1>5. s \in Group(f) /\ f \in Group(f) /\ Group(f) \subseteq Accepted
  BY GroupHasSurvivor, GroupIsClosed
<1>6. Group(s) = Group(f) /\ Group(s) # {s}
  BY <1>5, GroupsAgree
<1>7. s \in Accepted \ losers
  BY <1>5, <1>6
<1> HIDE DEF losers
<1>8. merged'[s] = {payload[g].persona : g \in Group(f)}
  BY <1>1, <1>3, <1>6, <1>7
<1>9. disposition'[s] = "accepted" /\ disposition'[f] = "merged"
  BY <1>1, <1>2, <1>3, <1>7 DEF Dispose, Accepted
<1>10. \A g \in Group(f) : g \in Grouped'
  <2> SUFFICES ASSUME NEW g \in Group(f) PROVE g \in Grouped'
    OBVIOUS
  <2>1. CASE g \in losers
    BY <1>1, <1>3, <2>1 DEF Dispose, Grouped
  <2>2. CASE g \notin losers
    <3>1. g = s
      BY <1>4, <1>5, <2>2, GroupsAgree
    <3> QED
      BY <1>3, <1>5, <1>7, <1>8, <3>1 DEF Grouped
  <2> QED
    BY <2>1, <2>2
<1>11. s \in MergedWith(f)'
  <2> SUFFICES ASSUME NEW S \in SUBSET (Grouped'), f \in S, ClosedInGroups(S)'
               PROVE  s \in S
    BY <1>5, <1>9, <1>10 DEF MergedWith
  <2> DEFINE T == S \cap Group(f)
  <2>1. T \in SUBSET Accepted /\ f \in T
    BY <1>5
  <2>2. ClosedUnderSame(T)
    <3> SUFFICES ASSUME NEW a \in T, NEW b \in Accepted, Same(a, b) PROVE b \in T
      BY DEF ClosedUnderSame
    <3>1. b \in Group(f)
      BY GroupIsClosed DEF ClosedUnderSame
    <3>2. b \in Grouped' /\ Same(a, b)'
      BY <1>1, <1>10, <3>1 DEF Same
    <3> QED
      BY <3>1, <3>2 DEF ClosedInGroups
  <2>3. Group(f) \subseteq T
    BY <2>1, <2>2, GroupIsLeast
  <2> QED
    BY <1>5, <2>3
<1> QED
  BY <1>7, <1>8, <1>9, <1>11

LEMMA MergeIsRight ==
    ASSUME TypeOK, Faithful, Unmerged, Duplication
    PROVE  Distinct' /\ Represented'
<1> DEFINE losers == {f \in Accepted : Survivor(Group(f)) # f}
<1>1. /\ disposition' = Dispose(losers, "merged")
      /\ payload' = payload /\ emitted' = emitted
  BY DEF Duplication
<1>2. \A f \in Finding : disposition[f] # "merged"
  BY DEF Unmerged, Duplication
<1>3. losers \subseteq Accepted /\ Accepted \subseteq Finding
  BY DEF Accepted
<1>4. Accepted' = Accepted \ losers
  BY <1>1, <1>3 DEF Accepted, Dispose
<1>5. \A f \in Finding : disposition'[f] = "merged" <=> f \in losers
  BY <1>1, <1>2, <1>3 DEF Dispose
<1>6. \A f \in Accepted \ losers : Survivor(Group(f)) = f
  OBVIOUS
<1>7. \A f \in losers : f \in Accepted /\ Survivor(Group(f)) # f
  OBVIOUS
<1> HIDE DEF losers
<1>8. Distinct'
  <2> SUFFICES ASSUME NEW f \in Accepted \ losers, NEW g \in Accepted \ losers, Same(f, g)
               PROVE  f = g
    BY <1>1, <1>4 DEF Distinct, Same
  <2>1. g \in Group(f)
    BY GroupIsClosed DEF ClosedUnderSame
  <2>2. Group(g) = Group(f)
    BY <2>1, GroupsAgree
  <2> QED
    BY <1>6, <2>2
<1>9. Represented'
  <2> SUFFICES ASSUME NEW f \in losers PROVE \E g \in MergedWith(f)' : Represents(g, f)'
    BY <1>3, <1>5 DEF Represented
  <2>1. PICK s \in Accepted : s = Survivor(Group(f))
    BY <1>7, LoserHasSurvivor
  <2>2. /\ f \in Accepted /\ s \in MergedWith(f)' /\ disposition'[s] = "accepted"
        /\ merged'[s] = {payload[g].persona : g \in Group(f)}
    BY <1>7, <2>1, LoserHasSurvivor
  <2>3. f \in Group(f) /\ payload[f].severity =< payload[s].severity
    BY <2>1, <2>2, GroupHasSurvivor, GroupIsClosed
  <2>4. emitted'[f].persona \in merged'[s]
    BY <1>1, <1>3, <2>2, <2>3 DEF Faithful
  <2>5. /\ emitted'[f].severity = payload[f].severity
        /\ emitted'[s].severity = payload[s].severity
        /\ payload[f].severity \in Severity /\ payload[s].severity \in Severity
    BY <1>1, <1>3, <2>1, <2>2 DEF Faithful, TypeOK, Payload
  <2>6. Represents(s, f)'
    BY <2>2, <2>3, <2>4, <2>5 DEF Represents, Severity, Nit, Blocker
  <2> QED
    BY <2>2, <2>6
<1> QED
  BY <1>8, <1>9

\* A step after the merge leaves the groups as they are.
LEMMA LaterStepsLetTheMergeStand ==
    ASSUME TypeOK, [Next]_vars, stage \in {"materiality", "gate", "done", "failed"}
    PROVE  MergeStands
<1>1. CASE Materiality
  <2>1. PICK judged \in Judgments(Verifiable) :
        \/ disposition' = Dispose(Failed(judged), "dropped") /\ payload' = payload
        \/ /\ disposition' = Dispose(Failed(judged), "downgraded")
           /\ payload' = [g \in Finding |->
                  IF g \in Failed(judged)
                  THEN [payload[g] EXCEPT !.severity = Nit]
                  ELSE payload[g]]
    BY <1>1, Zenon DEF Materiality
  <2>2. Failed(judged) \subseteq Accepted
    BY JudgedWasAccepted DEF Verifiable
  <2>3. emitted' = emitted /\ merged' = merged
    BY <1>1 DEF Materiality
  <2>4. ASSUME NEW f \in Finding
        PROVE  /\ payload'[f].topic = payload[f].topic
               /\ payload'[f].lines = payload[f].lines
               /\ disposition'[f] = "merged" <=> disposition[f] = "merged"
    <3>1. payload[f] \in Payload
      BY DEF TypeOK
    <3>2. payload'[f] \in {payload[f], [payload[f] EXCEPT !.severity = Nit]}
      BY <2>1
    <3>3. disposition'[f] = "merged" <=> disposition[f] = "merged"
      BY <2>1, <2>2 DEF Dispose, Accepted
    <3> QED
      BY <3>1, <3>2, <3>3 DEF Payload
  <2> QED
    BY <2>3, <2>4 DEF MergeStands
<1>2. CASE UNCHANGED <<emitted, payload, disposition, merged>>
  BY <1>2 DEF MergeStands
<1> QED
  BY <1>1, <1>2 DEF Next, MechanicalValidate, Groundedness, Injection, Duplication,
     LensFailure, PostFailure, Conclude, Terminated, vars

OneEach == Unmerged /\ Distinct /\ Represented

LEMMA OneEachStep ==
    ASSUME TypeOK, Fresh, Faithful, OneEach, [Next]_vars
    PROVE  OneEach'
<1>1. emitted' = emitted
  BY DEF Next, MechanicalValidate, Groundedness, Injection, Duplication, Materiality,
         LensFailure, PostFailure, Conclude, Terminated, vars
<1>2. CASE Duplication
  <2>1. stage' = "materiality"
    BY <1>2 DEF Duplication
  <2> QED
    BY <1>2, <2>1, MergeIsRight DEF OneEach, Unmerged
<1>3. CASE MechanicalValidate \/ Groundedness \/ Injection
  <2>1. /\ stage \in {"mechanical", "groundedness", "injection"} /\ merged' = merged
        /\ stage' \in {"groundedness", "injection", "duplication"}
    BY <1>3 DEF MechanicalValidate, Groundedness, Injection
  <2>2. \A f \in Finding : disposition'[f] \in {disposition[f], "dropped"}
    <3>1. \E S : disposition' = Dispose(S, "dropped")
      <4>1. CASE MechanicalValidate
        BY <4>1 DEF MechanicalValidate
      <4>2. CASE Groundedness
        BY <4>2 DEF Groundedness
      <4>3. CASE Injection
        BY <4>3 DEF Injection
      <4> QED
        BY <1>3, <4>1, <4>2, <4>3
    <3> QED
      BY <3>1 DEF Dispose
  <2>3. \A f \in Finding : disposition'[f] # "merged" /\ merged'[f] = {}
    BY <2>1, <2>2 DEF OneEach, Unmerged
  <2> QED
    BY <2>1, <2>3 DEF OneEach, Unmerged, Distinct, Represented
<1>4. CASE Materiality \/ LensFailure \/ PostFailure \/ Conclude \/ Terminated \/ UNCHANGED vars
  <2>0. CASE stage \in {"materiality", "gate", "done", "failed"}
    <3>1. MergeStands
      BY <2>0, LaterStepsLetTheMergeStand
    <3>2. Represented'
      BY <3>1, GroupsAreKept DEF OneEach
    <3>3. \A f, g \in Finding : Same(f, g)' <=> Same(f, g)
      BY <3>1, SameIsKept DEF MergeStands
    <3>4. Accepted' \subseteq Accepted /\ Accepted \subseteq Finding
      BY StepIsOrderly DEF Orderly, Accepted
    <3>5. stage' \in {"materiality", "gate", "done", "failed"}
      BY <1>4, <2>0 DEF Materiality, LensFailure, PostFailure, Conclude, Terminated, vars
    <3>6. stage' \in {"materiality", "gate", "done"} => stage \in {"materiality", "gate", "done"}
      BY <1>4 DEF Materiality, LensFailure, PostFailure, Conclude, Terminated, vars
    <3> QED
      BY <3>2, <3>3, <3>4, <3>5, <3>6 DEF OneEach, Unmerged, Distinct
  <2>1. CASE stage \in {"mechanical", "groundedness", "injection", "duplication"}
    <3>1. UNCHANGED <<disposition, merged>> /\ stage' \in {stage, "failed"}
      BY <1>4, <2>1 DEF Materiality, LensFailure, PostFailure, Conclude, Terminated, vars
    <3> QED
      BY <2>1, <3>1 DEF OneEach, Unmerged, Distinct, Represented
  <2> QED
    BY <2>0, <2>1 DEF TypeOK, Stage, Lens
<1> QED
  BY <1>2, <1>3, <1>4 DEF Next

LEMMA OneEachInvariant == Spec => []OneEach
<1>1. Init => OneEach
  <2> SUFFICES ASSUME Init PROVE OneEach
    OBVIOUS
  <2>1. stage = "mechanical" /\ \A f \in Finding : disposition[f] # "merged" /\ merged[f] = {}
    BY DEF Init
  <2> QED
    BY <2>1 DEF OneEach, Unmerged, Distinct, Represented
<1> QED
  BY <1>1, OneEachStep, TypeCorrect, FreshInvariant, FaithfulInvariant, PTL DEF Spec

\* From the merge on, no claim is accepted twice, and what is merged away is
\* credited on a duplicate that is no less severe (duplication.Apply).
THEOREM ClaimsSurviveOnce == Spec => []OneSurvivorPerClaim
<1>1. OneEach => OneSurvivorPerClaim
  BY DEF OneEach, Distinct, Represented, Represents, OneSurvivorPerClaim
<1> QED
  BY <1>1, OneEachInvariant, PTL

-----------------------------------------------------------------------------
(* The gate.  The invariant: a certain blocker, once emitted, stays        *)
(* accepted or is merged into a fact that stands for it, one that is       *)
(* accepted or that materiality failed.  The hard step is the merge: the   *)
(* survivor of a group that holds a certain blocker is a blocker computed  *)
(* in code too, certain or contested.                                      *)

CertainAccepted == {f \in Accepted : Certain(f)}
FactAccepted    == {f \in Accepted : Certain(f) \/ Contested(f)}

Immaterial(g) == Stamp("materiality", "fail", "model") \in verdicts[g]

StandsFor(g) ==
    \/ g \in FactAccepted
    \/ Contested(g) /\ Immaterial(g)

Kept ==
    \A f \in Finding : Certain(f) =>
        f \in Accepted \/ \E g \in MergedWith(f) : StandsFor(g)

\* A run has no exit code before its last step.
Undecided == stage \notin {"done", "failed"} => exit = Pending

IInv == Undecided /\ Kept /\ CertainBlockerGates

\* A certain blocker that is accepted is exempt from the model lenses, and
\* nothing mechanical applies to it but the merge.
LEMMA CertainIsExempt ==
    ASSUME Faithful, NEW f \in CertainAccepted
    PROVE  /\ f \in Finding /\ f \in Accepted
           /\ Exempt(f) /\ f \notin Verifiable
           /\ CodeComputed(f) /\ ~NeedsEvidence(f)
           /\ payload[f].severity = Blocker
<1>1. f \in Finding /\ f \in Accepted /\ Certain(f)
  BY DEF CertainAccepted, Accepted
<1>2. /\ payload[f].persona = emitted[f].persona
      /\ ~payload[f].modelAuthored
      /\ payload[f].severity = Blocker
      /\ Kind[payload[f].persona] = "deterministic"
      /\ OptsOut[payload[f].persona]
  BY <1>1 DEF Faithful, Certain
<1> QED
  BY <1>1, <1>2 DEF Exempt, Verifiable, CodeComputed, NeedsEvidence

LEMMA FactIsBlocker ==
    ASSUME Faithful, NEW f \in FactAccepted
    PROVE  f \in Accepted /\ payload[f].severity = Blocker
BY DEF Faithful, FactAccepted, Accepted, Certain, Contested

\* The survivor of a group with a certain blocker is a fact: pickSurvivor
\* prefers what code computed among the most severe.
LEMMA SurvivorIsFact ==
    ASSUME TypeOK, Faithful, NEW f \in CertainAccepted
    PROVE  /\ Survivor(Group(f)) \in Group(f)
           /\ Survivor(Group(f)) \in FactAccepted
<1> DEFINE G == Group(f)
<1>1. f \in G /\ G \subseteq Accepted /\ G \subseteq Finding
  BY CertainIsExempt, GroupIsClosed DEF Accepted
<1>2. \A g \in G : payload[g].severity \in Severity /\ payload[g].confidence \in 0 .. MaxConfidence
  BY <1>1 DEF TypeOK, Payload
<1>3. f \in MostSevere(G)
  <2>1. payload[f].severity = Blocker
    BY CertainIsExempt
  <2>2. \A g \in G : payload[g].severity =< Blocker
    BY <1>2 DEF Severity, Nit, Blocker
  <2> QED
    BY <1>1, <2>1, <2>2 DEF MostSevere
<1>4. \A g \in MostSevere(G) : g \in G /\ payload[g].severity = Blocker
  <2> SUFFICES ASSUME NEW g \in MostSevere(G) PROVE g \in G /\ payload[g].severity = Blocker
    OBVIOUS
  <2>1. g \in G /\ payload[f].severity =< payload[g].severity
    BY <1>1 DEF MostSevere
  <2>2. payload[g].severity \in Severity /\ payload[f].severity = Blocker
    BY <1>2, <2>1, CertainIsExempt
  <2> QED
    BY <2>1, <2>2 DEF Severity, Nit, Blocker
<1> DEFINE F == Factual(MostSevere(G))
<1>5. f \in F /\ (\A g \in F : g \in MostSevere(G) /\ CodeComputed(g))
  BY <1>3, CertainIsExempt DEF Factual
<1>6. \A g \in F : g \in G /\ g \in FactAccepted
  <2> SUFFICES ASSUME NEW g \in F PROVE g \in G /\ g \in FactAccepted
    OBVIOUS
  <2>1. /\ g \in G /\ g \in Accepted /\ g \in Finding
        /\ payload[g].severity = Blocker /\ CodeComputed(g)
    BY <1>1, <1>4, <1>5
  <2>2. /\ emitted[g].persona = payload[g].persona
        /\ emitted[g].modelAuthored = payload[g].modelAuthored
        /\ emitted[g].severity = Blocker
    BY <2>1 DEF Faithful
  <2> QED
    BY <2>1, <2>2 DEF FactAccepted, Certain, Contested, CodeComputed
<1>7. Surest(F) # {} /\ Surest(F) \subseteq F
  <2> DEFINE C == {payload[g].confidence : g \in F}
  <2>1. C \subseteq 0 .. MaxConfidence /\ C # {}
    BY <1>2, <1>5, <1>6
  <2>2. PICK c \in C : \A d \in C : d =< c
    BY <2>1, GreatestBounded, PersonaAssumption
  <2>3. PICK g \in F : payload[g].confidence = c
    BY <2>2
  <2>4. g \in Surest(F)
    BY <2>2, <2>3 DEF Surest
  <2> QED
    BY <2>4 DEF Surest
<1>8. PICK s \in Surest(F) : \A g \in Surest(F) : s =< g
  <2>1. Surest(F) \subseteq Nat
    BY <1>1, <1>6, <1>7, FindingAssumption
  <2> QED
    BY <1>7, <2>1, LeastNatural
<1>9. Survivor(G) \in Surest(F)
  BY <1>8 DEF Survivor
<1> QED
  BY <1>6, <1>7, <1>9

-----------------------------------------------------------------------------
(* What a step does to the certain blockers and the facts they merge into. *)

LEMMA EmittedIsKept == ASSUME [Next]_vars PROVE emitted' = emitted
BY DEF Next, MechanicalValidate, Groundedness, Injection, Duplication, Materiality,
       LensFailure, PostFailure, Conclude, Terminated, vars

\* A step that takes out no certain blocker keeps them all.
LEMMA SparedIsKept ==
    ASSUME NEW S, NEW fate,
           disposition \in [Finding -> Disposition],
           disposition' = Dispose(S, fate), emitted' = emitted,
           S \cap CertainAccepted = {}
    PROVE  CertainAccepted \subseteq CertainAccepted'
BY DEF Dispose, CertainAccepted, Accepted, Certain

LEMMA MechanicalKeepsCertain ==
    ASSUME TypeOK, Faithful, MechanicalValidate
    PROVE  CertainAccepted \subseteq CertainAccepted'
<1>1. PICK ungrounded \in SUBSET {f \in Finding : NeedsEvidence(f)} :
        disposition' = Dispose(ungrounded \cup TruncatedOf(Finding \ ungrounded), "dropped")
  BY DEF MechanicalValidate
<1>2. ASSUME NEW f \in CertainAccepted
      PROVE  f \notin ungrounded \cup TruncatedOf(Finding \ ungrounded)
  <2>1. f \notin ungrounded
    BY CertainIsExempt
  <2>2. \A p, S : f \notin Truncated(p, S)
    BY CertainIsExempt DEF Truncated
  <2> QED
    BY <2>1, <2>2 DEF TruncatedOf
<1>3. emitted' = emitted
  BY DEF MechanicalValidate
<1> DEFINE S == ungrounded \cup TruncatedOf(Finding \ ungrounded)
<1>4. S \cap CertainAccepted = {}
  BY <1>2
<1> HIDE DEF S
<1> QED
  BY <1>1, <1>3, <1>4, SparedIsKept DEF TypeOK, S

LEMMA LensesKeepCertain ==
    ASSUME TypeOK, Faithful, Groundedness \/ Injection \/ Materiality
    PROVE  CertainAccepted \subseteq CertainAccepted'
<1>0. \A f \in CertainAccepted : f \notin Verifiable
  BY CertainIsExempt
<1>1. PICK S, fate : disposition' = Dispose(S, fate) /\ S \subseteq Verifiable
  <2>1. \A T : \A judged \in Judgments(T) : Failed(judged) \subseteq T
    BY DEF Judgments, Failed
  <2>2. CASE Groundedness
    BY <2>1, <2>2 DEF Groundedness
  <2>3. CASE Injection
    <3>1. PICK judged \in Judgments(Unflagged) :
            disposition' = Dispose((Flagged \cap Verifiable) \cup Failed(judged), "dropped")
      BY <2>3 DEF Injection
    <3>2. (Flagged \cap Verifiable) \cup Failed(judged) \subseteq Verifiable
      BY <2>1 DEF Unflagged
    <3> QED
      BY <3>1, <3>2
  <2>4. CASE Materiality
    BY <2>1, <2>4 DEF Materiality
  <2> QED
    BY <2>2, <2>3, <2>4
<1>2. S \cap CertainAccepted = {}
  BY <1>0, <1>1
<1>3. emitted' = emitted
  BY DEF Groundedness, Injection, Materiality
<1> QED
  BY <1>1, <1>2, <1>3, SparedIsKept DEF TypeOK

\* Only the merge takes a certain blocker out.
LEMMA CertainStays ==
    ASSUME TypeOK, Faithful, [Next]_vars, ~Duplication
    PROVE  CertainAccepted \subseteq CertainAccepted'
<1>1. CASE UNCHANGED <<emitted, disposition>>
  BY <1>1 DEF CertainAccepted, Accepted, Certain
<1> QED
  BY <1>1, MechanicalKeepsCertain, LensesKeepCertain
  DEF Next, LensFailure, PostFailure, Conclude, Terminated, vars

\* The merge takes one out for a fact it is linked to.
LEMMA MergeTradesForFact ==
    ASSUME TypeOK, Faithful, Unmerged, Duplication, NEW f \in CertainAccepted
    PROVE  \/ f \in FactAccepted'
           \/ \E s \in MergedWith(f)' : s \in FactAccepted'
<1> DEFINE s == Survivor(Group(f))
<1>1. f \in Accepted /\ s \in FactAccepted
  BY CertainIsExempt, SurvivorIsFact
<1>2. emitted' = emitted
  BY DEF Duplication
<1>3. \A g \in FactAccepted : disposition'[g] = "accepted" => g \in FactAccepted'
  BY <1>2 DEF FactAccepted, Accepted, Certain, Contested
<1>4. CASE s # f
  <2>1. s \in MergedWith(f)' /\ disposition'[s] = "accepted"
    BY <1>1, <1>4, LoserHasSurvivor
  <2> QED
    BY <1>1, <1>3, <2>1
<1>5. CASE s = f
  <2>1. disposition' = Dispose({g \in Accepted : Survivor(Group(g)) # g}, "merged")
    BY DEF Duplication
  <2>2. disposition'[f] = "accepted"
    BY <1>1, <1>5, <2>1 DEF Dispose, Accepted
  <2> QED
    BY <1>1, <1>3, <1>5, <2>2
<1> QED
  BY <1>4, <1>5

\* After the merge, what stands for a certain blocker goes on doing so: only
\* materiality can fail it, and that is stamped on it.
LEMMA StandInStays ==
    ASSUME TypeOK, Faithful, Fresh, [Next]_vars,
           stage \in {"materiality", "gate", "done", "failed"},
           NEW g \in Finding, StandsFor(g)
    PROVE  StandsFor(g)'
<1>1. emitted' = emitted
  BY EmittedIsKept
<1>2. (Certain(g)' <=> Certain(g)) /\ (Contested(g)' <=> Contested(g))
  BY <1>1 DEF Certain, Contested
<1>3. CASE Contested(g) /\ Immaterial(g)
  <2>1. verdicts[g] \subseteq verdicts'[g]
    BY StepIsOrderly DEF Orderly
  <2> QED
    BY <1>2, <1>3, <2>1 DEF StandsFor, Immaterial
<1>4. CASE g \in FactAccepted /\ Materiality
  <2>1. PICK judged \in Judgments(Verifiable) :
          /\ verdicts' = WithJudgments("materiality", "model", judged)
          /\ \E fate : disposition' = Dispose(Failed(judged), fate)
    BY <1>4, Zenon DEF Materiality
  <2>2. CASE g \in Failed(judged)
    <3>1. judged[g] = "fail" /\ g \in DOMAIN judged /\ g \in Verifiable
      BY <2>2 DEF Failed, Judgments
    <3>2. verdicts'[g] = verdicts[g] \cup {Stamp("materiality", "fail", "model")}
      BY <2>1, <3>1 DEF WithJudgments
    <3>3. ~Certain(g)
      BY <1>4, <3>1, CertainIsExempt DEF CertainAccepted, FactAccepted
    <3> QED
      BY <1>2, <1>4, <3>2, <3>3 DEF StandsFor, Immaterial, FactAccepted
  <2>3. CASE g \notin Failed(judged)
    <3>1. disposition'[g] = "accepted"
      BY <1>4, <2>1, <2>3 DEF Dispose, FactAccepted, Accepted
    <3> QED
      BY <1>2, <1>4, <3>1 DEF StandsFor, FactAccepted, Accepted
  <2> QED
    BY <2>2, <2>3
<1>5. CASE g \in FactAccepted /\ disposition' = disposition
  BY <1>2, <1>5 DEF StandsFor, FactAccepted, Accepted
<1> QED
  BY <1>3, <1>4, <1>5 DEF StandsFor, Next, MechanicalValidate, Groundedness, Injection,
     Duplication, LensFailure, PostFailure, Conclude, Terminated, vars

LEMMA KeptStep ==
    ASSUME TypeOK, Faithful, Fresh, Unmerged, Kept, [Next]_vars
    PROVE  Kept'
<1> SUFFICES ASSUME NEW f \in Finding, Certain(f)
             PROVE  f \in Accepted' \/ \E g \in MergedWith(f)' : StandsFor(g)'
  BY EmittedIsKept DEF Kept, Certain
<1>1. CASE f \in Accepted /\ Duplication
  <2>1. f \in CertainAccepted
    BY <1>1 DEF CertainAccepted
  <2> QED
    BY <1>1, <2>1, MergeTradesForFact DEF StandsFor, FactAccepted
<1>2. CASE f \in Accepted /\ ~Duplication
  BY <1>2, CertainStays DEF CertainAccepted
<1>3. CASE f \notin Accepted
  <2>1. PICK g \in MergedWith(f) : StandsFor(g)
    BY <1>3 DEF Kept
  <2>2. g \in Finding /\ disposition[f] = "merged"
    BY <2>1 DEF MergedWith, Grouped
  <2>3. stage \in {"materiality", "gate", "done", "failed"}
    BY <2>2 DEF Unmerged, TypeOK, Stage, Lens
  <2>4. StandsFor(g)' /\ MergedWith(f)' = MergedWith(f)
    BY <2>1, <2>2, <2>3, StandInStays, LaterStepsLetTheMergeStand, MergedWithIsKept
  <2> QED
    BY <2>1, <2>4
<1> QED
  BY <1>1, <1>2, <1>3

LEMMA UndecidedStep == Undecided /\ [Next]_vars => Undecided'
BY DEF Undecided, Next, MechanicalValidate, Groundedness, Injection, Duplication,
       Materiality, LensFailure, PostFailure, Conclude, Terminated, vars

\* A fact that is still accepted closes the gate.
LEMMA FactGates ==
    ASSUME TypeOK, Faithful, Conclude, FactAccepted # {}
    PROVE  exit' = Findings
<1>1. PICK f \in FactAccepted : f \in Accepted /\ payload[f].severity = Blocker
  BY FactIsBlocker
<1>2. Blocker >= setting.failOn
  BY DEF TypeOK, Setting, FailOn, Unranked, Severity, Nit, Blocker
<1> QED
  BY <1>1, <1>2 DEF Conclude, ExitCode

LEMMA GateStep ==
    ASSUME TypeOK, Faithful, IInv, [Next]_vars
    PROVE  CertainBlockerGates'
<1> SUFFICES ASSUME exit' = Clean, NEW f \in Finding, Certain(f)
             PROVE  \E g \in MergedWith(f)' : Contested(g)' /\ Immaterial(g)'
  BY EmittedIsKept DEF CertainBlockerGates, Certain, Immaterial
<1> USE DEF Clean, Infra, Findings, Pending
<1>1. CASE Conclude
  <2>1. FactAccepted = {}
    BY <1>1, FactGates
  <2>2. f \notin Accepted
    BY <2>1 DEF FactAccepted
  <2>3. PICK g \in MergedWith(f) : Contested(g) /\ Immaterial(g)
    BY <2>1, <2>2 DEF IInv, Kept, StandsFor
  <2>4. MergeStands /\ UNCHANGED <<emitted, verdicts>>
    BY <1>1 DEF Conclude, MergeStands
  <2>5. MergedWith(f)' = MergedWith(f)
    BY <2>4, MergedWithIsKept
  <2>6. Contested(g)' /\ Immaterial(g)'
    BY <2>3, <2>4 DEF Contested, Immaterial
  <2> QED
    BY <2>3, <2>5, <2>6
<1>2. CASE ~Conclude
  <2>0. exit' = exit \/ exit' = Infra
    BY <1>2, Zenon DEF Next, MechanicalValidate, Groundedness, Injection, Duplication,
       Materiality, LensFailure, PostFailure, Terminated, vars
  <2>1. exit = Clean
    BY <2>0
  <2>2. stage \in {"done", "failed"}
    BY <2>1 DEF IInv, Undecided
  <2>3. UNCHANGED vars
    BY <1>2, <2>2 DEF Next, MechanicalValidate, Groundedness, Injection, Duplication,
       Materiality, LensFailure, PostFailure, Terminated
  <2>4. MergeStands /\ UNCHANGED <<emitted, verdicts>>
    BY <2>3 DEF vars, MergeStands
  <2>5. PICK g \in MergedWith(f) : Contested(g) /\ Immaterial(g)
    BY <2>1 DEF IInv, CertainBlockerGates, Immaterial
  <2>6. MergedWith(f)' = MergedWith(f)
    BY <2>4, MergedWithIsKept
  <2>7. Contested(g)' /\ Immaterial(g)'
    BY <2>4, <2>5 DEF Contested, Immaterial
  <2> QED
    BY <2>5, <2>6, <2>7
<1> QED
  BY <1>1, <1>2

\* The invariant is inductive.
LEMMA Inductive == Spec => []IInv
<1>1. Init => IInv
  <2> SUFFICES ASSUME Init PROVE IInv
    OBVIOUS
  <2>1. Accepted = Finding
    BY DEF Init, Accepted
  <2>2. exit = Pending /\ exit # Clean
    BY DEF Init, Pending, Clean
  <2> QED
    BY <2>1, <2>2 DEF IInv, Undecided, Kept, CertainBlockerGates
<1>2. TypeOK /\ Faithful /\ Fresh /\ OneEach /\ IInv /\ [Next]_vars => IInv'
  BY UndecidedStep, KeptStep, GateStep DEF IInv, OneEach
<1> QED
  BY <1>1, <1>2, TypeCorrect, FaithfulInvariant, FreshInvariant, OneEachInvariant, PTL
  DEF Spec

\* Whatever the lenses' models answer, whatever else was emitted, and whatever
\* personas a repository defines, a run that exits clean lost a certain blocker
\* only to the merge, for a code-computed blocker of a persona that did not opt
\* out of verification, which materiality then failed (gate.Exit).
THEOREM CertainBlockersGate == Spec => []CertainBlockerGates
<1>1. IInv => CertainBlockerGates
  BY DEF IInv
<1> QED
  BY <1>1, Inductive, PTL

\* In particular, where every deterministic persona opts out of verification,
\* as those built in do, a run with a certain blocker never exits clean.
THEOREM BuiltInGuardsGate ==
    ASSUME \A p \in Persona : Kind[p] = "deterministic" => OptsOut[p]
    PROVE  Spec => []((\E f \in Finding : Certain(f)) => exit # Clean)
<1>1. TypeOK /\ CertainBlockerGates => ((\E f \in Finding : Certain(f)) => exit # Clean)
  <2> SUFFICES ASSUME TypeOK, CertainBlockerGates, NEW f \in Finding, Certain(f), exit = Clean
               PROVE  FALSE
    OBVIOUS
  <2>1. PICK g \in Finding : Contested(g)
    BY DEF CertainBlockerGates, MergedWith, Grouped
  <2>2. emitted[g].persona \in Persona
    BY <2>1 DEF TypeOK, Payload
  <2> QED
    BY <2>1, <2>2 DEF Contested
<1> QED
  BY <1>1, TypeCorrect, CertainBlockersGate, PTL

\* The pipeline implements the abstract screening: it withdraws findings but
\* never the last certain blocker unless a contested one stays, and it closes
\* once, never clear over either kind.
THEOREM PipelineScreens == Spec => ImplementsScreening
<1> USE DEF Pending, Clean, Infra, Findings
<1>1. Init => Screen!Init
  BY DEF Init, Screen!Init, Accepted, Certain, Contested
<1>2. TypeOK /\ Faithful /\ Fresh /\ OneEach /\ Undecided /\ [Next]_vars
          => [Screen!Next]_(Screen!screening)
  <2> SUFFICES ASSUME TypeOK, Faithful, Fresh, OneEach, Undecided, [Next]_vars
               PROVE  [Screen!Next]_(Screen!screening)
    OBVIOUS
  <2> DEFINE binding   == {f \in Finding : Certain(f)}
             contested == {f \in Finding : Contested(f)}
  <2>0. /\ CertainAccepted = Accepted \cap binding
        /\ FactAccepted = Accepted \cap (binding \cup contested)
        /\ FactAccepted' = Accepted' \cap (binding' \cup contested')
    BY DEF CertainAccepted, FactAccepted, Accepted
  <2>1. emitted' = emitted /\ binding' = binding /\ contested' = contested
    BY EmittedIsKept DEF Certain, Contested
  <2>2. CASE UNCHANGED <<disposition, exit>>
    BY <2>1, <2>2 DEF Screen!screening, Accepted
  <2>3. CASE exit' = exit /\ stage \notin {"done", "failed"}
    <3>1. exit = Pending
      BY <2>3 DEF Undecided
    <3>2. Accepted' \subseteq Accepted
      BY StepIsOrderly DEF Orderly, Accepted
    <3>3. CertainAccepted # {} => FactAccepted' # {}
      <4>1. CertainAccepted' \subseteq FactAccepted'
        BY DEF CertainAccepted, FactAccepted
      <4> QED
        BY <4>1, CertainStays, MergeTradesForFact DEF OneEach
    <3>4. Accepted \cap binding # {} => Accepted' \cap (binding \cup contested) # {}
      BY <2>0, <2>1, <3>3
    <3> QED
      BY <2>1, <2>3, <3>1, <3>2, <3>4 DEF Screen!Next, Screen!Withdraw
  <2>4. CASE LensFailure \/ PostFailure \/ Conclude
    <3>1. exit = Pending /\ exit' \in {Clean, Infra, Findings}
      BY <2>4 DEF LensFailure, PostFailure, Conclude, Undecided, ExitCode
    <3>2. Accepted' = Accepted
      BY <2>4 DEF LensFailure, PostFailure, Conclude, Accepted
    <3>3. Accepted \cap (binding \cup contested) # {} => exit' # Clean
      BY <2>0, <2>4, FactGates DEF LensFailure, PostFailure
    <3> QED
      BY <2>1, <3>1, <3>2, <3>3 DEF Screen!Next, Screen!Close
  <2> QED
    BY <2>2, <2>3, <2>4
    DEF Next, MechanicalValidate, Groundedness, Injection, Duplication, Materiality,
        Terminated, vars
<1>3. IInv => Undecided
  BY DEF IInv
<1> QED
  BY <1>1, <1>2, <1>3, TypeCorrect, FaithfulInvariant, Inductive, FreshInvariant,
     OneEachInvariant, PTL
  DEF Spec, ImplementsScreening, Screen!Spec

-----------------------------------------------------------------------------
(* A failing verdict takes a finding out, or is a redaction.               *)

\* Only the injection lens changes what the screen would flag.
FlagsAreOriginal ==
    \A f \in Finding : payload[f].flag # "none" => emitted[f].flag # "none"

LEMMA JudgedFail ==
    ASSUME NEW S, NEW judged \in Judgments(S), NEW lens, NEW checked,
           NEW f \in Finding, f \notin Failed(judged),
           NEW v \in WithJudgments(lens, checked, judged)[f], v.result = "fail"
    PROVE  v \in verdicts[f]
<1> SUFFICES ASSUME f \in DOMAIN judged, judged[f] # "missing"
             PROVE  v \in verdicts[f]
  BY DEF WithJudgments
<1>1. judged[f] # "fail"
  BY DEF Failed
<1>2. v \in verdicts[f] \/ v = Stamp(lens, judged[f], checked)
  BY DEF WithJudgments
<1>3. Stamp(lens, judged[f], checked).result = judged[f]
  BY DEF Stamp
<1> QED
  BY <1>1, <1>2, <1>3

LEMMA FlagsStep ==
    ASSUME TypeOK, FlagsAreOriginal, [Next]_vars
    PROVE  FlagsAreOriginal'
<1> SUFFICES ASSUME NEW f \in Finding, payload'[f].flag # "none"
             PROVE  emitted'[f].flag # "none"
  BY DEF FlagsAreOriginal
<1>1. emitted' = emitted
  BY DEF Next, MechanicalValidate, Groundedness, Injection, Duplication, Materiality,
         LensFailure, PostFailure, Conclude, Terminated, vars
<1>2. payload[f] \in Payload
  BY DEF TypeOK
<1>3. payload[f].flag # "none"
  <2>1. CASE MechanicalValidate
    <3>1. PICK ungrounded \in SUBSET {g \in Finding : NeedsEvidence(g)} :
          \E misplaced \in SUBSET {g \in Finding \ ungrounded : payload[g].lines # NoLines} :
          \E unfixable \in SUBSET {g \in Finding \ ungrounded : payload[g].flag = "fix"} :
            /\ payload' = [g \in Finding |->
                  [payload[g] EXCEPT
                      !.lines = IF g \in misplaced THEN NoLines ELSE @,
                      !.flag  = IF g \in unfixable THEN "none" ELSE @]]
            /\ disposition' = Dispose(ungrounded \cup TruncatedOf(Finding \ ungrounded),
                                      "dropped")
            /\ verdicts' = [g \in Finding |->
                  IF g \in ungrounded
                  THEN {Stamp("groundedness", "fail", "mechanical")}
                  ELSE verdicts[g]]
      BY <2>1 DEF MechanicalValidate
    <3>2. PICK misplaced, unfixable :
            payload'[f] =
              [payload[f] EXCEPT
                  !.lines = IF f \in misplaced THEN NoLines ELSE @,
                  !.flag  = IF f \in unfixable THEN "none" ELSE @]
      BY <3>1
    <3> QED
      BY <1>2, <3>2 DEF Payload
  <2>2. CASE Injection
    <3>1. PICK restated :
            payload' = [g \in Finding |->
              IF g \in Flagged /\ Exempt(g)
              THEN [payload[g] EXCEPT
                        !.flag  = "none",
                        !.topic = IF g \in restated THEN RedactedTopic[@] ELSE @]
              ELSE payload[g]]
      BY <2>2 DEF Injection
    <3> QED
      BY <1>2, <3>1 DEF Payload
  <2>3. CASE Materiality
    <3>1. payload'[f] \in {payload[f], [payload[f] EXCEPT !.severity = Nit]}
      BY <2>3 DEF Materiality
    <3> QED
      BY <1>2, <3>1 DEF Payload
  <2>4. CASE payload' = payload
    BY <2>4
  <2> QED
    BY <2>1, <2>2, <2>3, <2>4 DEF Next, Groundedness, Duplication, LensFailure, PostFailure,
       Conclude, Terminated, vars
<1> QED
  BY <1>1, <1>3 DEF FlagsAreOriginal

\* A step that stamps nothing failing on a finding that stays accepted, and
\* leaves its text alone.
LEMMA NothingNewFails ==
    ASSUME TypeOK, FailureIsRedactionOrExit, NEW f \in Finding,
           f \in Accepted, Orderly(f), emitted' = emitted,
           payload'[f].flag = payload[f].flag,
           \A v \in verdicts'[f] : v.result = "fail" => v \in verdicts[f]
    PROVE  \A v \in verdicts'[f] : v.result = "fail" =>
              /\ v = Stamp("injection", "fail", "mechanical")
              /\ Exempt(f)'
              /\ emitted'[f].flag # "none" /\ payload'[f].flag = "none"
BY DEF FailureIsRedactionOrExit, Orderly, Exempt

\* What the mechanical checks, the lenses and the merge hold against a finding
\* takes it out, but for a redacted fact (verify.Run).
THEOREM FailuresRedactOrRemove == Spec => []FailureIsRedactionOrExit
<1>1. Init => FailureIsRedactionOrExit /\ FlagsAreOriginal
  <2> SUFFICES ASSUME Init PROVE FailureIsRedactionOrExit /\ FlagsAreOriginal
    OBVIOUS
  <2>1. \A f \in Accepted : verdicts[f] = {}
    BY DEF Init, Accepted
  <2>2. payload = emitted
    BY DEF Init
  <2> QED
    BY <2>1, <2>2 DEF FailureIsRedactionOrExit, FlagsAreOriginal
<1>2. TypeOK /\ Fresh /\ FlagsAreOriginal /\ FailureIsRedactionOrExit /\ [Next]_vars
      => FailureIsRedactionOrExit'
  <2> SUFFICES ASSUME TypeOK, Fresh, FlagsAreOriginal, FailureIsRedactionOrExit, [Next]_vars,
                      NEW f \in Finding, f \in Accepted'
               PROVE  \A v \in verdicts'[f] : v.result = "fail" =>
                        /\ v = Stamp("injection", "fail", "mechanical")
                        /\ Exempt(f)'
                        /\ emitted'[f].flag # "none" /\ payload'[f].flag = "none"
    BY DEF FailureIsRedactionOrExit, Accepted
  <2>1. emitted' = emitted
    BY DEF Next, MechanicalValidate, Groundedness, Injection, Duplication, Materiality,
           LensFailure, PostFailure, Conclude, Terminated, vars
  <2>2. Orderly(f) /\ f \in Accepted /\ disposition'[f] = "accepted" /\ payload[f] \in Payload
    BY StepIsOrderly DEF Orderly, Accepted, TypeOK
  <2>3. CASE MechanicalValidate
    <3>1. PICK ungrounded \in SUBSET {g \in Finding : NeedsEvidence(g)} :
            /\ disposition' = Dispose(ungrounded \cup TruncatedOf(Finding \ ungrounded),
                                      "dropped")
            /\ verdicts' = [g \in Finding |->
                  IF g \in ungrounded
                  THEN {Stamp("groundedness", "fail", "mechanical")}
                  ELSE verdicts[g]]
      BY <2>3 DEF MechanicalValidate
    <3>2. f \notin ungrounded
      BY <2>2, <3>1 DEF Dispose
    <3>3. verdicts'[f] = {}
      BY <2>3, <3>1, <3>2 DEF Fresh, MechanicalValidate
    <3> QED
      BY <3>3
  <2>4. CASE Groundedness
    <3>1. PICK judged \in Judgments(Verifiable) :
            /\ disposition' = Dispose(Failed(judged), "dropped")
            /\ verdicts' = WithJudgments("groundedness", "model", judged)
      BY <2>4 DEF Groundedness
    <3>2. f \notin Failed(judged) /\ payload' = payload
      BY <2>2, <2>4, <3>1 DEF Dispose, Groundedness
    <3>3. \A v \in verdicts'[f] : v.result = "fail" => v \in verdicts[f]
      BY <3>1, <3>2, JudgedFail
    <3> QED
      BY <2>1, <2>2, <3>2, <3>3, NothingNewFails
  <2>5. CASE Injection
    <3>1. PICK judged \in Judgments(Unflagged) :
            /\ disposition' =
                  Dispose((Flagged \cap Verifiable) \cup Failed(judged), "dropped")
            /\ verdicts' = [g \in Finding |->
                  IF g \in Flagged
                  THEN verdicts[g] \cup {Stamp("injection", "fail", "mechanical")}
                  ELSE WithJudgments("injection", "mechanical+model", judged)[g]]
      BY <2>5 DEF Injection
    <3>2. f \notin Flagged \cap Verifiable /\ f \notin Failed(judged)
      BY <2>2, <3>1 DEF Dispose
    <3>3. PICK restated :
            payload' = [g \in Finding |->
              IF g \in Flagged /\ Exempt(g)
              THEN [payload[g] EXCEPT
                        !.flag  = "none",
                        !.topic = IF g \in restated THEN RedactedTopic[@] ELSE @]
              ELSE payload[g]]
      BY <2>5 DEF Injection
    <3>4. CASE f \in Flagged
      <4>1. Exempt(f)
        BY <2>2, <3>2, <3>4 DEF Verifiable
      <4>2. payload'[f].flag = "none"
        BY <2>2, <3>3, <3>4, <4>1 DEF Payload
      <4>3. Exempt(f)'
        BY <2>2, <4>1 DEF Exempt, Orderly
      <4>4. emitted'[f].flag # "none"
        BY <2>1, <3>4 DEF Flagged, FlagsAreOriginal
      <4>5. \A v \in verdicts'[f] :
              v \in verdicts[f] \/ v = Stamp("injection", "fail", "mechanical")
        BY <3>1, <3>4
      <4> QED
        BY <2>2, <4>2, <4>3, <4>4, <4>5 DEF FailureIsRedactionOrExit
    <3>5. CASE f \notin Flagged
      <4>1. payload'[f] = payload[f]
        BY <3>3, <3>5
      <4>2. verdicts'[f] = WithJudgments("injection", "mechanical+model", judged)[f]
        BY <3>1, <3>5
      <4>3. \A v \in verdicts'[f] : v.result = "fail" => v \in verdicts[f]
        BY <3>2, <4>2, JudgedFail
      <4> QED
        BY <2>1, <2>2, <4>1, <4>3, NothingNewFails
    <3> QED
      BY <3>4, <3>5
  <2>6. CASE Duplication
    <3>1. PICK losers :
            /\ disposition' = Dispose(losers, "merged")
            /\ verdicts' = [g \in Finding |->
                  IF g \in losers
                  THEN verdicts[g] \cup {Stamp("duplication", "fail", "mechanical")}
                  ELSE verdicts[g]]
      BY <2>6 DEF Duplication
    <3>2. f \notin losers /\ payload' = payload
      BY <2>2, <2>6, <3>1 DEF Dispose, Duplication
    <3>3. verdicts'[f] = verdicts[f]
      BY <3>1, <3>2
    <3> QED
      BY <2>1, <2>2, <3>2, <3>3, NothingNewFails
  <2>7. CASE Materiality
    <3>1. PICK judged \in Judgments(Verifiable) :
            /\ verdicts' = WithJudgments("materiality", "model", judged)
            /\ \/ disposition' = Dispose(Failed(judged), "dropped") /\ payload' = payload
               \/ /\ disposition' = Dispose(Failed(judged), "downgraded")
                  /\ payload' = [g \in Finding |->
                        IF g \in Failed(judged)
                        THEN [payload[g] EXCEPT !.severity = Nit]
                        ELSE payload[g]]
      BY <2>7, Zenon DEF Materiality
    <3>2. f \notin Failed(judged)
      BY <2>2, <3>1 DEF Dispose
    <3>3. payload'[f] = payload[f]
      BY <3>1, <3>2
    <3>4. \A v \in verdicts'[f] : v.result = "fail" => v \in verdicts[f]
      BY <3>1, <3>2, JudgedFail
    <3> QED
      BY <2>1, <2>2, <3>3, <3>4, NothingNewFails
  <2>8. CASE UNCHANGED <<payload, verdicts>>
    BY <2>1, <2>2, <2>8, NothingNewFails
  <2> QED
    BY <2>3, <2>4, <2>5, <2>6, <2>7, <2>8
    DEF Next, LensFailure, PostFailure, Conclude, Terminated, vars
<1>3. TypeOK /\ FlagsAreOriginal /\ [Next]_vars => FlagsAreOriginal'
  BY FlagsStep
<1> QED
  BY <1>1, <1>2, <1>3, TypeCorrect, FreshInvariant, PTL DEF Spec

-----------------------------------------------------------------------------
(* Truncation.                                                             *)

\* Under a name: the library has an Injection of its own.
FS == INSTANCE FiniteSetTheorems

LEMMA CountIsNatural ==
    ASSUME NEW S, IsFiniteSet(S)
    PROVE  Cardinality(S) \in Nat
BY FS!FS_CardinalityType DEF IsFiniteSet, FS!IsFiniteSet, Cardinality, FS!Cardinality

LEMMA CountOfSubset ==
    ASSUME NEW S, IsFiniteSet(S), NEW T \in SUBSET S
    PROVE  IsFiniteSet(T) /\ Cardinality(T) =< Cardinality(S)
<1>1. IsFiniteSet(T)
  BY FS!FS_Subset DEF IsFiniteSet, FS!IsFiniteSet
<1>2. Cardinality(T) =< Cardinality(S)
  BY FS!FS_Subset DEF IsFiniteSet, FS!IsFiniteSet, Cardinality, FS!Cardinality
<1> QED
  BY <1>1, <1>2

LEMMA CountWithout ==
    ASSUME NEW S, IsFiniteSet(S), NEW x \in S
    PROVE  IsFiniteSet(S \ {x}) /\ Cardinality(S \ {x}) = Cardinality(S) - 1
BY FS!FS_RemoveElement DEF IsFiniteSet, FS!IsFiniteSet, Cardinality, FS!Cardinality

LEMMA CountOfDifference ==
    ASSUME NEW S, IsFiniteSet(S), NEW T
    PROVE  Cardinality(S \ T) = Cardinality(S) - Cardinality(S \cap T)
BY FS!FS_Difference DEF IsFiniteSet, FS!IsFiniteSet, Cardinality, FS!Cardinality

LEMMA CountAround ==
    ASSUME NEW S, IsFiniteSet(S), NEW T \in SUBSET S, NEW x \in S \ T
    PROVE  Cardinality((S \ T) \ {x}) = Cardinality(S) - Cardinality(T) - 1
<1>1. S \cap T = T /\ x \in S \ T
  OBVIOUS
<1>2. IsFiniteSet(S \ T) /\ Cardinality(S \ T) = Cardinality(S) - Cardinality(T)
  BY <1>1, CountOfDifference, CountOfSubset
<1> QED
  BY <1>2, CountWithout

Outranks(g, f) ==
    \/ emitted[g].severity > emitted[f].severity
    \/ emitted[g].severity = emitted[f].severity /\ g > f

Ranked(f) ==
    {g \in Finding :
        /\ emitted[g].persona = emitted[f].persona
        /\ Stamp("groundedness", "fail", "mechanical") \notin verdicts[g]
        /\ Outranks(g, f)}

Spares(f) == Cardinality(Ranked(f)) >= Limit(emitted[f].persona)

Sparing ==
    \A f \in Finding : disposition[f] = "dropped" /\ verdicts[f] = {} => Spares(f)

LEMMA LimitIsNatural == \A p \in Persona : Limit(p) \in Nat
BY PersonaAssumption DEF Limit

\* Of the findings S of a persona, the limit's worth outranks a truncated one.
LEMMA LimitIsKept ==
    ASSUME TypeOK, Fresh, Faithful, stage = "mechanical",
           NEW p \in Persona, NEW S \in SUBSET Finding, NEW f \in Truncated(p, S)
    PROVE  Cardinality({g \in S : Outranks(g, f)}) >= Limit(p)
<1> DEFINE droppable == {g \in S : payload[g].severity # Blocker}
           W == {g \in droppable : Weaker(g, f)}
           K == {g \in S : Outranks(g, f)}
<1>1. f \in S /\ payload[f].severity # Blocker /\ Cardinality(W) < Cardinality(S) - Limit(p)
  BY DEF Truncated
<1>2. \A g \in Finding : /\ payload[g].severity = emitted[g].severity
                         /\ payload[g].severity \in 0 .. 3 /\ g \in Int
  BY FindingAssumption DEF Fresh, Faithful, Accepted, TypeOK, Payload, Severity, Nit, Blocker
<1>3. IsFiniteSet(S) /\ W \in SUBSET S /\ f \in S \ W
  <2>1. IsFiniteSet(S)
    BY FindingAssumption, CountOfSubset
  <2>2. ~Weaker(f, f)
    BY <1>1, <1>2 DEF Weaker
  <2> QED
    BY <1>1, <2>1, <2>2
<1>4. K = (S \ W) \ {f}
  <2> SUFFICES ASSUME NEW g \in S PROVE Outranks(g, f) <=> g \notin W /\ g # f
    OBVIOUS
  <2> QED
    BY <1>1, <1>2 DEF Outranks, Weaker, Blocker
<1>5. Cardinality(K) = Cardinality(S) - Cardinality(W) - 1
  BY <1>3, <1>4, CountAround
<1>6. Cardinality(S) \in Nat /\ Cardinality(W) \in Nat /\ Limit(p) \in Nat
  BY <1>3, CountIsNatural, CountOfSubset, LimitIsNatural
<1> HIDE DEF W, K
<1>7. Cardinality(K) >= Limit(p)
  BY <1>1, <1>5, <1>6
<1> QED
  BY <1>7 DEF K

LEMMA TruncationSpares ==
    ASSUME TypeOK, Fresh, Faithful, MechanicalValidate
    PROVE  Sparing'
<1>1. PICK ungrounded \in SUBSET {g \in Finding : NeedsEvidence(g)} :
        /\ disposition' = Dispose(ungrounded \cup TruncatedOf(Finding \ ungrounded), "dropped")
        /\ verdicts' = [g \in Finding |->
              IF g \in ungrounded
              THEN {Stamp("groundedness", "fail", "mechanical")}
              ELSE verdicts[g]]
  BY DEF MechanicalValidate
<1>2. emitted' = emitted /\ stage = "mechanical"
  BY DEF MechanicalValidate
<1>3. \A g \in Finding : disposition[g] = "accepted" /\ verdicts[g] = {}
  BY <1>2 DEF Fresh
<1> SUFFICES ASSUME NEW f \in Finding, disposition'[f] = "dropped", verdicts'[f] = {}
             PROVE  Spares(f)'
  BY DEF Sparing
<1>4. f \notin ungrounded
  BY <1>1
<1>5. f \in TruncatedOf(Finding \ ungrounded)
  BY <1>1, <1>3, <1>4 DEF Dispose
<1>6. PICK p \in Persona : f \in Truncated(p, {g \in Finding \ ungrounded : payload[g].persona = p})
  BY <1>5 DEF TruncatedOf
<1> DEFINE S == {g \in Finding \ ungrounded : payload[g].persona = p}
<1>7. emitted[f].persona = p
  BY <1>6 DEF Truncated, Faithful
<1>8. Cardinality({g \in S : Outranks(g, f)}) >= Limit(p)
  BY <1>2, <1>6, LimitIsKept
<1>9. Ranked(f)' = {g \in S : Outranks(g, f)}
  <2>1. \A g \in Finding : g \notin ungrounded <=>
            Stamp("groundedness", "fail", "mechanical") \notin verdicts'[g]
    BY <1>1, <1>3
  <2>2. \A g \in Finding : payload[g].persona = emitted[g].persona
    BY DEF Faithful
  <2>3. \A g : Outranks(g, f)' <=> Outranks(g, f)
    BY <1>2 DEF Outranks
  <2> QED
    BY <1>2, <1>7, <2>1, <2>2, <2>3 DEF Ranked
<1> QED
  BY <1>2, <1>7, <1>8, <1>9 DEF Spares

LEMMA SparingStep ==
    ASSUME TypeOK, Fresh, Faithful, Sparing, [Next]_vars
    PROVE  Sparing'
<1> DEFINE stamp == Stamp("groundedness", "fail", "mechanical")
<1>1. CASE MechanicalValidate
  BY <1>1, TruncationSpares
<1>2. ASSUME emitted' = emitted,
             \A g \in Finding :
                /\ verdicts[g] \subseteq verdicts'[g]
                /\ stamp \in verdicts'[g] => stamp \in verdicts[g]
                /\ disposition'[g] = "dropped" /\ verdicts'[g] = {} => disposition[g] = "dropped"
      PROVE  Sparing'
  <2>1. \A f \in Finding : Ranked(f)' = Ranked(f)
    BY <1>2 DEF Ranked, Outranks
  <2>2. \A f \in Finding : Spares(f)' <=> Spares(f)
    BY <1>2, <2>1 DEF Spares
  <2> QED
    BY <1>2, <2>2 DEF Sparing
<1>3. ASSUME NEW S, NEW judged \in Judgments(S), NEW lens, NEW checked, <<lens, checked>> # <<"groundedness", "mechanical">>,
             NEW g \in Finding
      PROVE  /\ verdicts[g] \subseteq WithJudgments(lens, checked, judged)[g]
             /\ stamp \in WithJudgments(lens, checked, judged)[g] => stamp \in verdicts[g]
             /\ g \in Failed(judged) => WithJudgments(lens, checked, judged)[g] # {}
  <2>1. stamp # Stamp(lens, judged[g], checked)
    BY <1>3 DEF Stamp
  <2>2. g \in Failed(judged) => g \in DOMAIN judged /\ judged[g] # "missing"
    BY DEF Failed
  <2> HIDE DEF stamp
  <2> QED
    BY <1>3, <2>1, <2>2 DEF WithJudgments
<1> HIDE DEF stamp
<1>4. CASE Groundedness
  <2>1. PICK judged \in Judgments(Verifiable) :
          /\ disposition' = Dispose(Failed(judged), "dropped")
          /\ verdicts' = WithJudgments("groundedness", "model", judged)
    BY <1>4 DEF Groundedness
  <2>2. emitted' = emitted
    BY <1>4 DEF Groundedness
  <2> QED
    BY <1>2, <1>3, <2>1, <2>2 DEF Dispose
<1>5. CASE Injection
  <2>1. PICK judged \in Judgments(Unflagged) :
          /\ disposition' = Dispose((Flagged \cap Verifiable) \cup Failed(judged), "dropped")
          /\ verdicts' = [g \in Finding |->
                IF g \in Flagged
                THEN verdicts[g] \cup {Stamp("injection", "fail", "mechanical")}
                ELSE WithJudgments("injection", "mechanical+model", judged)[g]]
    BY <1>5 DEF Injection
  <2>2. emitted' = emitted
    BY <1>5 DEF Injection
  <2>3. stamp # Stamp("injection", "fail", "mechanical")
    BY DEF stamp, Stamp
  <2>4. ASSUME NEW g \in Finding
        PROVE  /\ verdicts[g] \subseteq verdicts'[g]
               /\ stamp \in verdicts'[g] => stamp \in verdicts[g]
               /\ disposition'[g] = "dropped" /\ verdicts'[g] = {} => disposition[g] = "dropped"
    <3>1. CASE g \in Flagged
      BY <2>1, <2>3, <3>1
    <3>2. CASE g \notin Flagged
      BY <1>3, <2>1, <3>2 DEF Dispose
    <3> QED
      BY <3>1, <3>2
  <2> QED
    BY <1>2, <2>2, <2>4
<1>6. CASE Duplication
  <2>1. PICK losers :
          /\ disposition' = Dispose(losers, "merged")
          /\ verdicts' = [g \in Finding |->
                IF g \in losers
                THEN verdicts[g] \cup {Stamp("duplication", "fail", "mechanical")}
                ELSE verdicts[g]]
    BY <1>6 DEF Duplication
  <2>2. emitted' = emitted
    BY <1>6 DEF Duplication
  <2>3. stamp # Stamp("duplication", "fail", "mechanical")
    BY DEF stamp, Stamp
  <2> QED
    BY <1>2, <2>1, <2>2, <2>3 DEF Dispose
<1>7. CASE Materiality
  <2>1. PICK judged \in Judgments(Verifiable) :
          /\ verdicts' = WithJudgments("materiality", "model", judged)
          /\ \/ disposition' = Dispose(Failed(judged), "dropped")
             \/ disposition' = Dispose(Failed(judged), "downgraded")
    BY <1>7, Zenon DEF Materiality
  <2>2. emitted' = emitted
    BY <1>7 DEF Materiality
  <2> QED
    BY <1>2, <1>3, <2>1, <2>2 DEF Dispose
<1>8. CASE UNCHANGED <<emitted, disposition, verdicts>>
  BY <1>2, <1>8
<1> QED
  BY <1>1, <1>4, <1>5, <1>6, <1>7, <1>8
  DEF Next, LensFailure, PostFailure, Conclude, Terminated, vars

\* A finding is dropped without a verdict only when its persona kept its limit
\* of findings ranked above it (runner.truncateFindings).
THEOREM TruncationIsFair == Spec => []TruncationSparesTheStrong
<1>1. Init => Sparing
  BY DEF Init, Sparing
<1>2. Sparing => TruncationSparesTheStrong
  BY DEF Sparing, Spares, Ranked, Outranks, TruncationSparesTheStrong
<1> QED
  BY <1>1, <1>2, SparingStep, TypeCorrect, FreshInvariant, FaithfulInvariant, PTL DEF Spec
=============================================================================
