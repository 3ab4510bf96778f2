------------------------------- MODULE Roster -------------------------------
(***************************************************************************)
(* roster.Compute: the tier-2 team as a function of the registry, the      *)
(* facts, triage's assessment and the escalations a first wave asked for.  *)
(* A persona is the position of its id in the sorted registry.             *)
(***************************************************************************)
EXTENDS Integers, FiniteSets, Sequences, SequencesExt

CONSTANTS
    Persona,
    Kind,           \* Kind[p]: "agent", "deterministic", "triage" or "verifier"
    Immutable,      \* the personas no other may exclude
    Priority, Tokens, Excludes,
    TeamMin, TeamMax,
    MaxTeamSize, MaxTotalTokens

ASSUME RegistryAssumption ==
    /\ Persona \subseteq Nat /\ IsFiniteSet(Persona)
    /\ Kind \in [Persona -> {"agent", "deterministic", "triage", "verifier"}]
    /\ Priority \in [Persona -> Int]
    /\ Tokens \in [Persona -> Nat]
    /\ Excludes \in [Persona -> SUBSET Persona]
    /\ Immutable \subseteq Persona
    /\ {TeamMin, TeamMax, MaxTeamSize, MaxTotalTokens} \subseteq Nat

TeamPersona == {p \in Persona : Kind[p] \in {"agent", "deterministic"}}
Agent       == {p \in Persona : Kind[p] = "agent"}

\* Ids that models invent are outside the registry.
Unknown == -1

\* The facts of a pull request, as far as the rules tell them apart: which
\* required_when and volunteer_on rules they match, which match only under an
\* assessment, and what the matching escalation rules add, in order.
FactsCase ==
    [isFork       : BOOLEAN,
     ruleError    : BOOLEAN,            \* a rule fails to evaluate
     required     : SUBSET TeamPersona,
     volunteers   : SUBSET TeamPersona,
     ifAssessed   : [required : SUBSET TeamPersona, volunteers : SUBSET TeamPersona],
     escalations  : Seq(Persona \cup {Unknown})]

\* Triage's assessment, or its absence.
Unassessed == [assessed |-> FALSE, suggested |-> <<>>]
Assessed(suggested) == [assessed |-> TRUE, suggested |-> suggested]

-----------------------------------------------------------------------------
Required(c, a) ==
    c.required \cup (IF a.assessed THEN c.ifAssessed.required ELSE {})

Volunteers(c, a) ==
    (c.volunteers \cup (IF a.assessed THEN c.ifAssessed.volunteers ELSE {}))
        \ Required(c, a)

\* The ids of S in order: the n-th has n - 1 before it.
InOrder(S) ==
    [n \in 1 .. Cardinality(S) |->
        CHOOSE p \in S : Cardinality({q \in S : q < p}) = n - 1]

\* Priority descending, then id ascending.
Better(p, q) ==
    \/ Priority[p] > Priority[q]
    \/ Priority[p] = Priority[q] /\ p < q

Best(n, S) == {p \in S : Cardinality({q \in S : Better(q, p)}) < n}

\* required_when and immutability both beat excludes.
Spared(required) == required \cup Immutable

\* applyExcludes: in id order, a member still present takes out those it
\* excludes.
AfterExcludes(required, volunteers) ==
    LET Drop(present, p) ==
            IF p \in present THEN present \ (Excludes[p] \ Spared(required)) ELSE present
    IN  FoldLeft(Drop, required \cup volunteers, InOrder(required \cup volunteers))

CapTeam(required, volunteers) ==
    required \cup Best(TeamMax - Cardinality(required), volunteers)

FillFloor(team) == team \cup Best(TeamMin - Cardinality(team), Agent \ team)

\* How many the escalations may still add under the hard ceiling.
Room(team) == MaxTeamSize - Cardinality(team)

FirstAt(p, requests) ==
    CHOOSE i \in DOMAIN requests :
        requests[i] = p /\ \A j \in DOMAIN requests : requests[j] = p => i =< j

\* tryEscalate for each request in turn: of the registered ids not yet in the
\* team, of any kind, the first that there is room for.
Escalate(team, requests) ==
    LET new == {p \in Persona \ team : \E i \in DOMAIN requests : requests[i] = p}
        Earlier(p) == {q \in new : FirstAt(q, requests) < FirstAt(p, requests)}
    IN  team \cup {p \in new : Cardinality(Earlier(p)) < Room(team)}

\* The team before its budget: steps 1 to 6 of Compute.
Selected(c, a, wave2) ==
    LET required == Required(c, a)
        present  == AfterExcludes(required, Volunteers(c, a))
        capped   == CapTeam(required, Volunteers(c, a) \cap present)
    IN  Escalate(FillFloor(capped), c.escalations \o a.suggested \o wave2)

TotalTokens(team) == FoldSet(LAMBDA p, sum : Tokens[p] + sum, 0, team)

\* Mutants of OverBudget: only the worst candidate may be dropped; required
\* members are dropped like any other.
OverBudgetOnce(team, required) ==
    {p \in team \ required :
        /\ TotalTokens(team) > MaxTotalTokens
        /\ \A q \in team \ required : q # p => Better(q, p)}

OverBudgetAny(team, required) ==
    {p \in team :
        TotalTokens(team \ {q \in team : Better(p, q)}) > MaxTotalTokens}

\* What enforceBudget drops: worst candidates first, while those left exceed
\* the budget.
OverBudget(team, required) ==
    {p \in team \ required :
        TotalTokens(team \ {q \in team \ required : Better(p, q)}) > MaxTotalTokens}

\* Mutant: a fork goes over budget with a warning, as any other run does.
InsufficientNever(c, members) == FALSE

\* ErrInsufficientForkBudget.
Insufficient(c, members) == c.isFork /\ TotalTokens(members) > MaxTotalTokens

\* buildSkipped.
SkippedOf(team) == TeamPersona \ team

\* members is what runs, team what it was before the budget: buildSkipped
\* reports the team personas outside the latter.
Compute(c, a, wave2) ==
    LET team    == Selected(c, a, wave2)
        members == team \ OverBudget(team, Required(c, a))
    IN  [ok      |-> ~c.ruleError /\ ~Insufficient(c, members),
         members |-> members,
         skipped |-> SkippedOf(team)]
=============================================================================
