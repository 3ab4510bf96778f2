------------------------------- MODULE Review -------------------------------
(***************************************************************************)
(* runner.Review, the entry point of every run: which events start a       *)
(* review, what each step's failure leads to, what the run tells the pull  *)
(* request and with which code it exits.  Runs started by different events *)
(* overlap; the comments of the app are events too.                        *)
(*                                                                         *)
(* The steps that Team, Verify and Posting model are one action each here, *)
(* with the outcomes those modules allow.  Of the team only config-guard   *)
(* is told from the others.                                                *)
(***************************************************************************)
EXTENDS Gate

CONSTANTS
    Run,
    Events,         \* events that people cause
    Echoes,         \* Echoes["ack"], Echoes["summary"]: the events a new
                    \* comment of the app may cause
    Settings,       \* pull requests and configurations the runs may meet
    Reviews,        \* sets of accepted findings verification may end with
    DryRun          \* AGENTIC_REVIEW_DRY_RUN

Guard   == "config-guard"
Other   == "another persona"
Persona == {Guard, Other}

PullRequestEvent ==
    [kind     : {"pull_request"},
     action   : {"opened", "edited", "reopened", "ready_for_review", "other"},
     draft    : BOOLEAN,
     retarget : BOOLEAN]            \* an edit that changed the base

\* mention: the body contains "/agentic-review".  marker: where it has a
\* marker of the app.  scope: the personas named after the mention, with
\* "unknown" for any other word.
IssueCommentEvent ==
    [kind    : {"issue_comment"},
     action  : {"created", "other"},
     onPR    : BOOLEAN,
     bot     : BOOLEAN,
     mention : BOOLEAN,
     marker  : {"none", "first line", "quoted"},
     level   : {"admin", "write", "read", "none"},
     scope   : SUBSET (Persona \cup {"unknown"})]

UnsupportedEvent == [kind : {"unsupported"}]
Event == PullRequestEvent \cup IssueCommentEvent \cup UnsupportedEvent

\* certain: config-guard's rules find a weakening in the diff.
Setting == [classes     : SUBSET {"docs", "source", "review-config"},
            skipClasses : SUBSET {"docs", "source", "review-config"},
            skipWhen    : SUBSET BOOLEAN,
            certain     : BOOLEAN,
            failOn      : FailOn]

Touches(s) == "review-config" \in s.classes

Finding == Persona \X Severity

ASSUME ReviewAssumption ==
    /\ Reviews \subseteq SUBSET Finding
    /\ Events \subseteq Event
    /\ Echoes \in [{"ack", "summary"} -> SUBSET IssueCommentEvent]
    /\ \A what \in DOMAIN Echoes : \A e \in Echoes[what] :
          e.marker = "first line" /\ e.onPR
    /\ Settings \subseteq Setting
    /\ \A s \in Settings : s.classes # {} /\ (s.certain => Touches(s))
    /\ DryRun \in BOOLEAN

Step    == {"idle", "parse", "summons", "prepare", "roster", "team", "verify",
            "post", "skip", "error", "ended"}
Status  == {"clean", "findings", "skipped", "error", "error after fallback"}
Pending == -1
NoEvent == [kind |-> "none"]

VARIABLES
    pc,
    event,
    setting,
    scope,      \* the personas a summons names; {} when it names none
    fallback,   \* triage failed
    roster,     \* the members roster.Compute chose
    ran,        \* the personas that ran
    findings,   \* <<persona, severity>> of the accepted findings
    filtered,   \* some finding was dropped, downgraded or merged
    exit,
    wrote,      \* what the run has put on the pull request
    summary,    \* the status of the latest summary comment; "none" before
    comments    \* the events that comments of the app have caused

judgment == <<fallback, roster, ran, findings, filtered>>
page     == <<wrote, summary, comments>>
vars     == <<pc, event, setting, scope, judgment, exit, page>>

Init ==
    /\ pc = [r \in Run |-> "idle"]
    /\ event = [r \in Run |-> NoEvent]
    /\ setting \in [Run -> Settings]
    /\ scope = [r \in Run |-> {}]
    /\ fallback = [r \in Run |-> FALSE]
    /\ roster = [r \in Run |-> {}]
    /\ ran = [r \in Run |-> {}]
    /\ findings = [r \in Run |-> {}]
    /\ filtered = [r \in Run |-> FALSE]
    /\ exit = [r \in Run |-> Pending]
    /\ wrote = [r \in Run |-> {}]
    /\ summary = "none"
    /\ comments = {}

Goto(r, step) == pc' = [pc EXCEPT ![r] = step] /\ UNCHANGED exit
Exit(r, code) == pc' = [pc EXCEPT ![r] = "ended"] /\ exit' = [exit EXCEPT ![r] = code]

-----------------------------------------------------------------------------
(* Events.                                                                 *)

\* Deliveries are not ordered, and may be repeated.
Deliver(r) ==
    /\ pc[r] = "idle"
    /\ \E e \in Events \cup comments : event' = [event EXCEPT ![r] = e]
    /\ Goto(r, "parse")
    /\ UNCHANGED <<setting, scope, judgment, page>>

\* ghevent.Gate.
LetThrough(e, priorSummary) ==
    CASE e.kind = "pull_request" ->
            \/ e.action = "opened" /\ ~e.draft
            \/ e.action \in {"edited", "reopened"} /\ (priorSummary => e.retarget)
            \/ e.action = "ready_for_review"
      [] e.kind = "issue_comment" ->
            e.action = "created" /\ e.onPR /\ ~e.bot /\ e.mention

\* Parse, the look for a prior summary, Gate.  Only a pull_request event
\* looks, and a failed look counts as none.
Begin(r) ==
    /\ pc[r] = "parse"
    /\ IF event[r].kind = "unsupported"
       THEN Exit(r, Infra)
       ELSE \E priorSummary \in IF event[r].kind = "pull_request"
                                THEN {summary # "none", FALSE} ELSE {FALSE} :
              IF ~LetThrough(event[r], priorSummary) THEN Exit(r, Clean)
              ELSE Goto(r, IF event[r].kind = "issue_comment" THEN "summons" ELSE "prepare")
    /\ UNCHANGED <<event, setting, scope, judgment, page>>

\* Mutant: nobody looks for the app's own marker.
EchoedNever(e) == FALSE

\* render.Parse looks at the first line, and a quotation's starts with ">".
Echoed(e) == e.marker = "first line"

\* Mutant: whoever may read may summon.
MaySummonReaders(e) == e.level \in {"admin", "write", "read"}

MaySummon(e) == e.level \in {"admin", "write"}

Write(r, what) == wrote' = [wrote EXCEPT ![r] = @ \cup {what}]

\* handleSummons.  An error of PermissionLevel ends the run at once; those of
\* the two writes are only logged.
Summons(r) ==
    /\ pc[r] = "summons"
    /\ \/ Echoed(event[r]) /\ Exit(r, Clean) /\ UNCHANGED <<scope, page>>
       \/ ~Echoed(event[r]) /\ Exit(r, Infra) /\ UNCHANGED <<scope, page>>
       \/ /\ ~Echoed(event[r]) /\ ~MaySummon(event[r])
          /\ Exit(r, Clean)
          /\ \/ Write(r, "ack") /\ comments' = comments \cup Echoes["ack"]
             \/ UNCHANGED <<wrote, comments>>
          /\ UNCHANGED <<scope, summary>>
       \/ /\ ~Echoed(event[r]) /\ MaySummon(event[r])
          /\ scope' = [scope EXCEPT ![r] = event[r].scope]
          /\ Write(r, "reaction") \/ UNCHANGED wrote
          /\ Goto(r, "prepare")
          /\ UNCHANGED <<summary, comments>>
    /\ UNCHANGED <<event, setting, judgment>>

-----------------------------------------------------------------------------
(* The review.                                                             *)

\* Configuration, facts, the tier-0 gate, the dry run's early end, and the
\* artifact directory.  Any of them may fail.
Prepare(r) ==
    /\ pc[r] = "prepare"
    /\ \/ Goto(r, "error")
       \/ LET s == setting[r]
          IN  IF SkipReview(s.classes, s.skipClasses, s.skipWhen) THEN Goto(r, "skip")
              ELSE IF DryRun THEN Exit(r, Clean)
              ELSE Goto(r, "roster")
    /\ UNCHANGED <<event, setting, scope, judgment, page>>

\* Mutant: config-guard volunteers like any other persona.
RosterVolunteering(r) == SUBSET Persona

\* What roster.Compute may choose: config-guard's required_when is that the
\* diff touches the review configuration, and nothing excludes it.
Rosters(r) ==
    {members \in SUBSET Persona : Touches(setting[r]) <=> Guard \in members}

InScope(r, members) == IF scope[r] = {} THEN members ELSE members \cap scope[r]

\* RunTriage, which may fail, roster.Compute and restrictToScope.
ComputeRoster(r) ==
    /\ pc[r] = "roster"
    /\ \E failed \in BOOLEAN : fallback' = [fallback EXCEPT ![r] = failed]
    /\ \/ Goto(r, "error") /\ UNCHANGED <<roster, ran>>
       \/ /\ \E members \in Rosters(r) :
                /\ roster' = [roster EXCEPT ![r] = members]
                /\ ran' = [ran EXCEPT ![r] = InScope(r, members)]
          /\ Goto(r, "team")
    /\ UNCHANGED <<event, setting, scope, findings, filtered, page>>

\* RunTeam, whose error is always nil.  The second wave, which an answer of
\* the first may ask for, is computed without the scope.
RunTeam(r) ==
    /\ pc[r] = "team"
    /\ \/ UNCHANGED ran
       \/ /\ Other \in ran[r]
          /\ ran' = [ran EXCEPT ![r] = @ \cup roster[r]]
    /\ Goto(r, "verify")
    /\ UNCHANGED <<event, setting, scope, fallback, roster, findings, filtered, page>>

\* What verify.Run may leave accepted: config-guard's certain blocker is among
\* it whenever config-guard ran.
Accepted(r) ==
    {found \in Reviews :
        /\ found \subseteq ran[r] \X Severity
        /\ Guard \in ran[r] /\ setting[r].certain => <<Guard, Blocker>> \in found}

\* A lens fails when the model cannot be reached or its answers stay malformed.
Verify(r) ==
    /\ pc[r] = "verify"
    /\ \/ ran[r] # {} /\ Goto(r, "error") /\ UNCHANGED <<findings, filtered>>
       \/ /\ \E found \in Accepted(r) : findings' = [findings EXCEPT ![r] = found]
          /\ \E dropped \in IF ran[r] = {} THEN {FALSE} ELSE BOOLEAN :
                filtered' = [filtered EXCEPT ![r] = dropped]
          /\ Goto(r, "post")
    /\ UNCHANGED <<event, setting, scope, fallback, roster, ran, page>>

-----------------------------------------------------------------------------
(* What the run says.                                                      *)

\* render.summaryStatus of a review.
StatusOf(r) == IF findings[r] = {} /\ ~filtered[r] THEN "clean" ELSE "findings"

\* upsertSummary: an edit causes no event that is let through.
Upsert(r, status) ==
    /\ Write(r, status)
    /\ summary' = status
    /\ comments' = IF summary = "none" THEN comments \cup Echoes["summary"] ELSE comments

\* post.Post, which fails before its summary is there or, answered with an
\* error, after.
Post(r, status, code) ==
    \/ Upsert(r, status) /\ Exit(r, code)
    \/ Upsert(r, status) /\ Exit(r, Infra)
    \/ UNCHANGED page /\ Exit(r, Infra)

\* Mutant: a run whose comments could not be posted goes by its findings.
PostReviewRegardless(r) ==
    /\ pc[r] = "post"
    /\ LET code == ExitCode({f[2] : f \in findings[r]}, <<Guard, Blocker>> \in findings[r],
                            setting[r].failOn, Touches(setting[r]))
       IN  Exit(r, code) /\ (Upsert(r, StatusOf(r)) \/ UNCHANGED page)
    /\ UNCHANGED <<event, setting, scope, judgment>>

PostReview(r) ==
    /\ pc[r] = "post"
    /\ Post(r, StatusOf(r),
            ExitCode({f[2] : f \in findings[r]}, <<Guard, Blocker>> \in findings[r],
                     setting[r].failOn, Touches(setting[r])))
    /\ UNCHANGED <<event, setting, scope, judgment>>

PostSkip(r) ==
    /\ pc[r] = "skip"
    /\ Post(r, "skipped", Clean)
    /\ UNCHANGED <<event, setting, scope, judgment>>

\* Mutant: the error is posted and forgotten.
FailInfraClean(r) ==
    /\ pc[r] = "error"
    /\ Post(r, "error", Clean)
    /\ UNCHANGED <<event, setting, scope, judgment>>

\* The error summary.  Its input leaves FallbackRosterUsed out, so that it is
\* never the variant that tells of the fallback roster.
FailInfra(r) ==
    /\ pc[r] = "error"
    /\ Post(r, "error", Infra)
    /\ UNCHANGED <<event, setting, scope, judgment>>

-----------------------------------------------------------------------------
Progress(r) ==
    \/ Begin(r)
    \/ Summons(r)
    \/ Prepare(r)
    \/ ComputeRoster(r)
    \/ RunTeam(r)
    \/ Verify(r)
    \/ PostReview(r)
    \/ PostSkip(r)
    \/ FailInfra(r)

Terminated == (\A r \in Run : pc[r] = "ended") /\ UNCHANGED vars

Next == (\E r \in Run : Deliver(r) \/ Progress(r)) \/ Terminated

Spec == Init /\ [][Next]_vars

-----------------------------------------------------------------------------
TypeOK ==
    /\ pc \in [Run -> Step]
    /\ event \in [Run -> Event \cup {NoEvent}]
    /\ setting \in [Run -> Settings]
    /\ scope \in [Run -> SUBSET (Persona \cup {"unknown"})]
    /\ fallback \in [Run -> BOOLEAN]
    /\ roster \in [Run -> SUBSET Persona]
    /\ ran \in [Run -> SUBSET Persona]
    /\ findings \in [Run -> Reviews \cup {{}}]
    /\ filtered \in [Run -> BOOLEAN]
    /\ exit \in [Run -> {Pending, Clean, Infra, Findings}]
    /\ \A r \in Run : exit[r] = Pending <=> pc[r] # "ended"
    /\ wrote \in [Run -> SUBSET (Status \cup {"ack", "reaction"})]
    /\ summary \in Status \cup {"none"}
    /\ comments \subseteq Echoes["ack"] \cup Echoes["summary"]

Reported == {"clean", "findings", "skipped"}

\* The events that are reviewed whatever the pull request holds already.
Unconditional == {e \in PullRequestEvent : LetThrough(e, TRUE)}

\* A run passes only with its report on the pull request, free of findings
\* the gate fails on; without one, only when it was not to review at all: no
\* failed step or call turns into a pass.
PassIsReported ==
    \A r \in Run : exit[r] = Clean =>
        /\ \A f \in findings[r] : f[2] < setting[r].failOn
        /\ wrote[r] \cap Reported = {} =>
              /\ ran[r] = {}
              /\ DryRun \/ event[r] \notin Unconditional

\* A run that fails on its findings has shown that there are some; it never
\* leaves the check red beside a summary that says otherwise, or none.
FindingsAreReported ==
    \A r \in Run : exit[r] = Findings =>
        /\ wrote[r] \cap Status = {"findings"}
        /\ \E f \in findings[r] : f[2] >= setting[r].failOn

\* A review with no scope does not pass a change in which config-guard's
\* rules find a weakening, whatever fail_on says, whether or not triage
\* failed, and whatever the models answer.
GuardedReviewsFail ==
    \A r \in Run :
        setting[r].certain /\ scope[r] = {} /\ exit[r] = Clean =>
            wrote[r] \cap {"clean", "findings"} = {}

\* The app's own comments, as whoever's and with whatever text it posts them,
\* bring about nothing when they come back as events: no review, no comment,
\* no failed check.
OwnCommentsInert ==
    \A r \in Run : event[r] \in comments =>
        wrote[r] = {} /\ exit[r] \in {Pending, Clean}

\* A comment by someone who may not write to the repository, or by a bot, gets
\* an acknowledgement at most, whatever the runs around it do.
OnlyWritersSummon ==
    \A r \in Run :
        event[r].kind = "issue_comment"
            /\ (event[r].level \notin {"admin", "write"} \/ event[r].bot) =>
        wrote[r] \subseteq {"ack"} /\ ran[r] = {}

-----------------------------------------------------------------------------
(* What comments and documents say and the code does otherwise.            *)

\* Section 12.4 of the specification document: config-touching pull requests
\* cannot pass with unresolved config-guard blockers.
GuardCannotBePassed ==
    \A r \in Run :
        setting[r].certain /\ exit[r] = Clean => wrote[r] \cap Reported = {}
=============================================================================
