------------------------------- MODULE MCTeam -------------------------------
(***************************************************************************)
(* An instance of Team with the built-in personas, numbered in the order   *)
(* of their ids, and small limits so that team.max, the size ceiling and   *)
(* the token budget all bite.                                              *)
(***************************************************************************)
EXTENDS Team, TLC

configGuard == 1
depRisk     == 2
forkGuard   == 3
logic       == 4
security    == 5
triage      == 6

Registry == configGuard .. triage

Kinds ==
    [p \in Registry |->
        CASE p \in {configGuard, depRisk} -> "deterministic"
          [] p = triage                   -> "triage"
          [] OTHER                        -> "agent"]

Priorities == (configGuard :> 0) @@ (depRisk :> 0) @@ (forkGuard :> 15)
              @@ (logic :> 5) @@ (security :> 10) @@ (triage :> 0)

TokensOf == (configGuard :> 2) @@ (depRisk :> 0) @@ (forkGuard :> 2)
            @@ (logic :> 3) @@ (security :> 3) @@ (triage :> 1)

\* A configuration in which logic and security exclude each other.
Exclusions == [p \in Registry |->
    CASE p = logic -> {security} [] p = security -> {logic, configGuard} [] OTHER -> {}]

Facts(fork, required, volunteers, requiredIf, volunteersIf, escalations) ==
    [isFork |-> fork, ruleError |-> FALSE, required |-> required, volunteers |-> volunteers,
     ifAssessed |-> [required |-> requiredIf, volunteers |-> volunteersIf],
     escalations |-> escalations]

\* Rules that match in every combination of these, and one that cannot be
\* evaluated.
AllCases ==
    {Facts(fork, required, volunteers, requiredIf, volunteersIf, escalations) :
        fork         \in BOOLEAN,
        required     \in {{}, {configGuard}, {depRisk, logic}, {configGuard, logic, security}},
        volunteers   \in {{logic}, {logic, security}, {forkGuard, logic}},
        requiredIf   \in {{}, {security}},
        volunteersIf \in {{}, {depRisk}},
        escalations  \in {<<>>, <<forkGuard>>}}
    \cup {[Facts(FALSE, {}, {logic}, {}, {}, <<>>) EXCEPT !.ruleError = TRUE]}

SomeAssessments == {Assessed(<<>>), Assessed(<<logic, Unknown, security>>), Assessed(<<triage, depRisk>>)}

\* Only members that a model answers for ask for anyone.
Escalations ==
    [p \in Registry |->
        CASE p = logic    -> {<<>>, <<security>>, <<Unknown, triage, depRisk>>}
          [] p = security -> {<<>>, <<logic, forkGuard>>, <<depRisk, configGuard>>}
          [] p = forkGuard -> {<<>>, <<security, depRisk>>}
          [] OTHER        -> {<<>>}]

SomeScopes == {{}, {logic}, {depRisk, forkGuard, triage}}
=============================================================================
