-------------------------------- MODULE Team --------------------------------
(***************************************************************************)
(* The model-driven half of a review run up to its raw findings: triage,   *)
(* the roster, the scope of a summons, and runner.RunTeam's two waves of   *)
(* concurrent members with the recomputed roster between them.             *)
(*                                                                         *)
(* A member is a goroutine that answers or fails and records its outcome   *)
(* under the wave's mutex.  Before it starts, the dispatching loop puts a  *)
(* token into the wave's semaphore, a channel made for as many members as  *)
(* may run at a time; the member takes one out when it ends.  What an      *)
(* answer says is kept to what the waves look at: the ids it escalates to. *)
(***************************************************************************)
EXTENDS Roster

CONSTANTS
    Cases,          \* the facts runs may meet
    Assessments,    \* the assessments triage may give
    Asks,           \* Asks[p]: the escalate lists p may answer with
    Scopes,         \* persona ids named by a summons; {} when none are
    Slots           \* members of a wave that run at a time (4 in the code)

ASSUME RunAssumption ==
    /\ Cases \subseteq FactsCase
    /\ \A a \in Assessments :
          a.assessed = TRUE /\ a.suggested \in Seq(Persona \cup {Unknown})
    /\ Asks \in [Persona -> SUBSET Seq(Persona \cup {Unknown})]
    /\ Scopes \subseteq SUBSET Persona
    /\ Slots \in Nat \ {0}

Stage == {"triage", "roster", "wave 1", "wave 2", "done", "failed"}

VARIABLES
    stage,
    facts,
    assessment,
    scope,
    roster,     \* the roster of wave 1: what the artifact and footer show
    final,      \* the roster whose members' findings are stamped
    queue,      \* members the wave has still to dispatch
    capacity,   \* of the wave's semaphore; 0 when the wave made none
    held,       \* tokens in it
    running,
    status,     \* status[p]: "none" before p's outcome, then "ok" or "error"
    escalate,   \* escalate[p]: the ids p's answer asked for
    stamped     \* members whose findings enter the review

vars == <<stage, facts, assessment, scope, roster, final, queue, capacity, held,
          running, status, escalate, stamped>>

NoRoster == [ok |-> FALSE, members |-> {}, skipped |-> {}]

Init ==
    /\ stage = "triage"
    /\ facts \in Cases
    /\ assessment = Unassessed
    /\ scope \in Scopes
    /\ roster = NoRoster
    /\ final = NoRoster
    /\ queue = {}
    /\ capacity = 0
    /\ held = 0
    /\ running = {}
    /\ status = [p \in Persona |-> "none"]
    /\ escalate = [p \in Persona |-> <<>>]
    /\ stamped = {}

\* RunTriage gives an assessment, or an error that leaves it nil.
Triage ==
    /\ stage = "triage"
    /\ assessment' \in Assessments \cup {Unassessed}
    /\ stage' = "roster"
    /\ UNCHANGED <<facts, scope, roster, final, queue, capacity, held, running, status,
                   escalate, stamped>>

RestrictToScope(rst) ==
    IF scope = {} THEN rst ELSE [rst EXCEPT !.members = @ \cap scope]

\* runWave begins: a semaphore of its own, none for an empty wave.
Dispatch(members) ==
    /\ queue' = members
    /\ capacity' = IF Cardinality(members) < Slots THEN Cardinality(members) ELSE Slots
    /\ held' = 0

\* The first roster, or the error summary.
ComputeRoster ==
    /\ stage = "roster"
    /\ LET first == Compute(facts, assessment, <<>>)
       IN  IF first.ok
           THEN /\ roster' = RestrictToScope(first)
                /\ final' = RestrictToScope(first)
                /\ Dispatch(RestrictToScope(first).members)
                /\ stage' = "wave 1"
           ELSE /\ stage' = "failed"
                /\ UNCHANGED <<roster, final, queue, capacity, held>>
    /\ UNCHANGED <<facts, assessment, scope, running, status, escalate, stamped>>

\* runWave dispatches in id order; the send blocks while the semaphore is full.
Start(p) ==
    /\ p \in queue
    /\ \A q \in queue : p =< q
    /\ held < capacity
    /\ queue' = queue \ {p}
    /\ held' = held + 1
    /\ running' = running \cup {p}
    /\ UNCHANGED <<stage, facts, assessment, scope, roster, final, capacity, status, escalate,
                   stamped>>

\* Mutant: a member that fails is dispatched again.
FinishRequeues(p) ==
    /\ p \in running
    /\ held > 0
    /\ held' = held - 1
    /\ running' = running \ {p}
    /\ \/ /\ queue' = queue \cup {p}
          /\ UNCHANGED <<status, escalate>>
       \/ /\ status' = [status EXCEPT ![p] = "ok"]
          /\ \E ids \in Asks[p] : escalate' = [escalate EXCEPT ![p] = ids]
          /\ UNCHANGED queue
    /\ UNCHANGED <<stage, facts, assessment, scope, roster, final, capacity, stamped>>

\* Mutant: a member that fails returns without taking its token out.
FinishKeepsSlot(p) ==
    /\ p \in running
    /\ running' = running \ {p}
    /\ \/ /\ status' = [status EXCEPT ![p] = "error"]
          /\ UNCHANGED <<escalate, held>>
       \/ /\ held > 0
          /\ held' = held - 1
          /\ status' = [status EXCEPT ![p] = "ok"]
          /\ \E ids \in Asks[p] : escalate' = [escalate EXCEPT ![p] = ids]
    /\ UNCHANGED <<stage, facts, assessment, scope, roster, final, queue, capacity, stamped>>

\* A member ends with an error, or with an answer; a handler never escalates.
\* The deferred receive, which would block on an empty semaphore, gives its
\* slot back; nothing reads the outcome before the wave's last member is done.
Finish(p) ==
    /\ p \in running
    /\ held > 0
    /\ held' = held - 1
    /\ running' = running \ {p}
    /\ \/ /\ status' = [status EXCEPT ![p] = "error"]
          /\ UNCHANGED escalate
       \/ /\ status' = [status EXCEPT ![p] = "ok"]
          /\ \E ids \in IF Kind[p] = "deterministic" THEN {<<>>} ELSE Asks[p] :
                escalate' = [escalate EXCEPT ![p] = ids]
    /\ UNCHANGED <<stage, facts, assessment, scope, roster, final, queue, capacity, stamped>>

Drained == queue = {} /\ running = {}

\* The escalate lists of a wave's members, in id order.
Requests(members) ==
    FoldLeft(LAMBDA ids, p : ids \o escalate[p], <<>>, InOrder(members))

\* Mutant: wave 2 runs the whole recomputed roster.
NewcomersAll(members) == members

Newcomers(members) == {p \in members : status[p] = "none"}

\* Mutant: the recomputed roster is not told of triage's assessment.
RecomputeUnassessed == Compute(facts, Unassessed, Requests(roster.members))

\* The roster with what wave 1 asked for; the scope is not applied again.
Recompute == Compute(facts, assessment, Requests(roster.members))

\* The end of wave 1.  A recompute that fails leaves the first roster final.
Collect ==
    /\ stage = "wave 1" /\ Drained
    /\ IF Requests(roster.members) # <<>> /\ Recompute.ok
       THEN /\ final' = Recompute
            /\ Dispatch(Newcomers(Recompute.members))
       ELSE UNCHANGED <<final, queue, capacity, held>>
    /\ stage' = "wave 2"
    /\ UNCHANGED <<facts, assessment, scope, roster, running, status, escalate, stamped>>

\* The findings of the final roster's members, in id order.
StampFindings ==
    /\ stage = "wave 2" /\ Drained
    /\ stamped' = {p \in final.members : status[p] = "ok"}
    /\ stage' = "done"
    /\ UNCHANGED <<facts, assessment, scope, roster, final, queue, capacity, held, running,
                   status, escalate>>

Terminated == stage \in {"done", "failed"} /\ UNCHANGED vars

Next ==
    \/ Triage
    \/ ComputeRoster
    \/ \E p \in Persona : Start(p) \/ Finish(p)
    \/ Collect
    \/ StampFindings
    \/ Terminated

Spec == Init /\ [][Next]_vars

\* What the steps of Review's own goroutine do to the stage: Triage,
\* ComputeRoster, Collect or StampFindings, whichever is due.
Advance ==
    /\ stage \notin {"done", "failed"}
    /\ stage \in {"wave 1", "wave 2"} => Drained
    /\ stage' \in Stage \ {stage}

\* Review does not stop on its way, a send or receive that can proceed does, and every member
\* returns: a model conversation is bounded in turns and each of its calls in
\* time, and so are the handlers' queries.
FairSpec ==
    /\ Spec
    /\ WF_stage(Advance)
    /\ \A p \in Persona : WF_vars(Start(p)) /\ WF_vars(Finish(p))

-----------------------------------------------------------------------------
RosterType == [ok : BOOLEAN, members : SUBSET Persona, skipped : SUBSET TeamPersona]

TypeOK ==
    /\ stage \in Stage
    /\ facts \in Cases
    /\ assessment \in Assessments \cup {Unassessed}
    /\ scope \in Scopes
    /\ roster \in RosterType /\ final \in RosterType
    /\ queue \in SUBSET Persona /\ running \in SUBSET Persona
    /\ capacity \in 0 .. Slots /\ held \in 0 .. Slots
    /\ status \in [Persona -> {"none", "ok", "error"}]
    /\ escalate \in [Persona -> Seq(Persona \cup {Unknown})]
    /\ stamped \in SUBSET Persona

Ran == {p \in Persona : status[p] # "none"}

InScope(p) == scope = {} \/ p \in scope

\* A run that completes has run every persona whose required_when its facts
\* and assessment match, within the scope of its summons, and publishes the
\* findings of those that did not fail: neither excludes, team.max, the token
\* budget nor the roster of wave 2 costs a required persona its place.
RequiredServed ==
    stage = "done" =>
        \A p \in Required(facts, assessment) : InScope(p) =>
            /\ status[p] # "none"
            /\ status[p] = "ok" => p \in stamped

\* A member is dispatched once in a run: its outcome is final, and it does not
\* run again in wave 2 when the recomputed roster still lists it.
EachRunsOnce ==
    [][\A p \in Persona : status[p] # "none" =>
          /\ status'[p] = status[p] /\ escalate'[p] = escalate[p]
          /\ p \notin queue' \cup running']_vars

\* After a first roster was accepted the second Compute cannot fail: a fork
\* whose required members fit the budget still fits after any escalation, so
\* RunTeam's branch for a failed recompute is never taken.
RecomputeNeverFails ==
    stage = "wave 1" /\ Drained => Recompute.ok

\* A recomputed roster is held to the limits once more, and both waves together
\* stay close to them: they run no more personas than the largest of the limits
\* on a roster's size, and on a fork what is published fits the token ceiling
\* and what runs is allocated at most twice that.
BothWavesBounded ==
    LET limits == {MaxTeamSize, TeamMax, TeamMin, Cardinality(Required(facts, assessment))}
    IN  /\ Cardinality(Ran) =< Max(limits)
        /\ facts.isFork =>
            /\ TotalTokens(final.members) =< MaxTotalTokens
            /\ TotalTokens(Ran) =< 2 * MaxTotalTokens

\* In a run without a scope, whoever runs beyond the first roster was asked
\* for by a member of wave 1 that answered: the recompute does not bring back
\* a persona that the cap, an exclusion or the budget had left out.
WaveTwoIsAsked ==
    scope = {} =>
        \A p \in Ran \ roster.members :
            \E q \in roster.members : status[q] = "ok" /\ p \in Range(escalate[q])

\* The semaphore of a wave neither leaks nor starves: no more members run than
\* it has room for, a dispatching loop that waits on it waits for a member that
\* runs, and a member that ends finds a token to take out.
SlotsCirculate ==
    stage \in {"wave 1", "wave 2"} =>
        /\ Cardinality(running) =< capacity
        /\ queue # {} /\ held >= capacity => running # {}
        /\ running # {} => held > 0

\* A run comes to its end whatever its members answer.
Terminates == <>(stage \in {"done", "failed"})

-----------------------------------------------------------------------------
(* What comments and documents say and the code does otherwise.            *)

\* restrictToScope's comment: a summons restricts the tier-2 team to the
\* personas it names.
ScopeRespected == \A p \in Ran : InScope(p)
=============================================================================
