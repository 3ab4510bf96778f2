-------------------------------- MODULE Gate --------------------------------
(***************************************************************************)
(* The two decisions of internal/gate.  Severities are their ranks in      *)
(* schema.Severities, so the order of the enum is the order of integers;   *)
(* a fail_on outside the enum ranks below every severity, as               *)
(* gate.severityRank has it.                                               *)
(***************************************************************************)
EXTENDS Integers

Nit     == 0
Warning == 1
Error   == 2
Blocker == 3

Severity == Nit .. Blocker
Unranked == -1
FailOn   == Severity \cup {Unranked}

\* Exit codes of a review run.
Clean    == 0
Infra    == 1
Findings == 2

\* gate.Exit over the severities of the accepted findings; guardBlocker says
\* that one of them is a blocker whose persona is config-guard.
ExitCode(severities, guardBlocker, failOn, touchesReviewConfig) ==
    IF \/ \E s \in severities : s >= failOn
       \/ touchesReviewConfig /\ guardBlocker
    THEN Findings
    ELSE Clean

\* gate.Skip: every class of a nonempty diff is skippable, or a skip_when rule
\* (facts only) holds.  ruleMatches is the set of verdicts of those rules.
SkipReview(classes, skipClasses, ruleMatches) ==
    \/ classes # {} /\ classes \subseteq skipClasses
    \/ TRUE \in ruleMatches
=============================================================================
