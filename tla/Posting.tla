------------------------------ MODULE Posting ------------------------------
(***************************************************************************)
(* What review runs do to the comments of one pull request: the look at    *)
(* the prior summary (runner.Review, ghevent.Gate), post.Post, and the     *)
(* GitHub calls under it, which the transport of internal/gh repeats after *)
(* a 5xx or a rate limit.  Runs started by different events overlap.       *)
(*                                                                         *)
(* A finding is a record: its place in emission order, the identity its    *)
(* fingerprint hashes, its severity, and where the rendering ladder puts   *)
(* it.  A summary comment is the history its marker carries.               *)
(***************************************************************************)
EXTENDS Gate, FiniteSets, SequencesExt

CONSTANTS
    Run,
    Fingerprint,
    Reviews,        \* what the pipeline of a run may hand to Post; {} also
                    \* for a run the tier-0 gate skips
    Events,         \* the events that may start a run; a reopening stands for
                    \* an edit as well, an opening for every other pull_request
                    \* event that is let through
    Cap,            \* Cap[s]: review.caps, 0 when unset; not consulted for blockers
    MaxHistory,     \* maxHistoryEntries
    Retries         \* retries of one call in retryTransport (3 in the code)

Finding == [id : Nat, fp : Fingerprint, severity : Severity,
            place : {"line", "file", "summary"}]

ASSUME PostingAssumption ==
    /\ Reviews \subseteq SUBSET Finding
    /\ \A review \in Reviews :
        /\ IsFiniteSet(review)
        /\ \A f, g \in review : f.id = g.id \/ f.fp = g.fp => f = g
    /\ Events \subseteq {"opened", "reopened", "summons"}
    /\ Cap \in [Severity -> Nat]
    /\ MaxHistory \in Nat \ {0}
    /\ Retries \in Nat

Step == {"start", "list", "review", "files", "summary", "done", "skipped", "failed"}

VARIABLES
    pc,         \* the step of each run
    event,
    findings,   \* the accepted findings of each run
    prior,      \* the history it read before its review, newest first
    whole,      \* FALSE once the run goes for an error summary
    seen,       \* the fingerprints on the pull request when it listed them
    queue,      \* the file comments it has still to post
    attempt,    \* how often the transport has repeated the current call
    target,     \* the summary comment to edit; 0 for none
    created,    \* created[r][p]: the comments r put on the pull request, by fp
    summaries   \* the histories of the summary comments, oldest comment first

run == <<event, findings>>
vars == <<pc, run, prior, whole, seen, queue, attempt, target, created, summaries>>

Init ==
    /\ pc = [r \in Run |-> "start"]
    /\ event \in [Run -> Events]
    /\ findings \in [Run -> Reviews]
    /\ prior = [r \in Run |-> <<>>]
    /\ whole = [r \in Run |-> TRUE]
    /\ seen = [r \in Run |-> {}]
    /\ queue = [r \in Run |-> {}]
    /\ attempt = [r \in Run |-> 0]
    /\ target = [r \in Run |-> 0]
    /\ created = [r \in Run |-> [p \in Fingerprint |-> 0]]
    /\ summaries = <<>>

Posted == {p \in Fingerprint : \E r \in Run : created[r][p] > 0}

Goto(r, step) == pc' = [pc EXCEPT ![r] = step]

-----------------------------------------------------------------------------
(* Before the review.                                                      *)

\* Only a pull_request event looks for summaries; it keeps the history of the
\* last one, and a failed look counts as none.  A run that is already
\* reviewed stops; any other either reviews or ends in an error summary.
Begin(r) ==
    /\ pc[r] = "start"
    /\ \E found \in IF event[r] = "summons" THEN {<<>>} ELSE {summaries, <<>>} :
        /\ prior' = [prior EXCEPT ![r] = IF found = <<>> THEN <<>> ELSE Last(found)]
        /\ IF event[r] = "reopened" /\ found # <<>>
           THEN Goto(r, "skipped") /\ UNCHANGED <<whole, findings>>
           ELSE /\ Goto(r, "list")
                /\ \/ UNCHANGED <<whole, findings>>
                   \/ /\ whole' = [whole EXCEPT ![r] = FALSE]
                      /\ findings' = [findings EXCEPT ![r] = {}]
    /\ UNCHANGED <<event, seen, queue, attempt, target, created, summaries>>

-----------------------------------------------------------------------------
(* What to post.                                                           *)

\* Mutant: the fingerprints already on the pull request are not looked up.
UnseenIgnored(r, place) == {f \in findings[r] : f.place = place}

Unseen(r, place) == {f \in findings[r] : f.place = place /\ f.fp \notin seen[r]}

\* Mutants: blockers have a cap like the others; the cap lets one more pass.
WithinCapAll(f, S) ==
    \/ Cap[f.severity] = 0
    \/ Cardinality({g \in S : g.severity = f.severity /\ g.id < f.id}) < Cap[f.severity]

WithinCapOneMore(f, S) ==
    \/ f.severity = Blocker \/ Cap[f.severity] = 0
    \/ Cardinality({g \in S : g.severity = f.severity /\ g.id < f.id}) =< Cap[f.severity]

\* Of each severity but blocker, the first in emission order up to the cap.
WithinCap(f, S) ==
    \/ f.severity = Blocker \/ Cap[f.severity] = 0
    \/ Cardinality({g \in S : g.severity = f.severity /\ g.id < f.id}) < Cap[f.severity]

\* dedupAndCap, applied to the line findings and the file findings apart.
ToPost(r, place) == {f \in Unseen(r, place) : WithinCap(f, Unseen(r, place))}

ListReviewComments(r) ==
    /\ pc[r] = "list"
    /\ \/ seen' = [seen EXCEPT ![r] = Posted] /\ Goto(r, "review")
       \/ Goto(r, "failed") /\ UNCHANGED seen
    /\ UNCHANGED <<run, prior, whole, queue, attempt, target, created, summaries>>

-----------------------------------------------------------------------------
(* Calls that write.  GitHub may have applied a call whatever it answers;  *)
(* "retry" stands for the statuses the transport tries again on, "error"   *)
(* for those it hands back.                                                *)

Response == {"ok", "retry", "error"}
MayApply(response) == IF response = "ok" THEN {TRUE} ELSE BOOLEAN

\* Mutant of Answered: an error is logged and the next step taken.
AnsweredCarryOn(r, response, next) ==
    IF response = "retry" /\ attempt[r] < Retries
    THEN attempt' = [attempt EXCEPT ![r] = @ + 1] /\ UNCHANGED pc
    ELSE attempt' = [attempt EXCEPT ![r] = 0] /\ Goto(r, next)

\* The rest of RoundTrip: another attempt, or the answer goes to the caller,
\* which moves on or gives up.
Answered(r, response, next) ==
    IF response = "retry" /\ attempt[r] < Retries
    THEN attempt' = [attempt EXCEPT ![r] = @ + 1] /\ UNCHANGED pc
    ELSE /\ attempt' = [attempt EXCEPT ![r] = 0]
         /\ Goto(r, IF response = "ok" THEN next ELSE "failed")

WithComments(r, fps) ==
    [created EXCEPT ![r] = [p \in Fingerprint |-> @[p] + (IF p \in fps THEN 1 ELSE 0)]]

FpsOf(S) == {f.fp : f \in S}

\* All line comments in one review; no call when there are none.
CreateReview(r) ==
    /\ pc[r] = "review"
    /\ IF ToPost(r, "line") = {}
       THEN Goto(r, "files") /\ UNCHANGED <<attempt, created>>
       ELSE \E response \in Response : \E applied \in MayApply(response) :
              /\ Answered(r, response, "files")
              /\ created' = IF applied
                            THEN WithComments(r, FpsOf(ToPost(r, "line")))
                            ELSE created
    /\ queue' = [queue EXCEPT ![r] = ToPost(r, "file")]
    /\ UNCHANGED <<run, prior, whole, seen, target, summaries>>

\* dedupAndCap's output order: severities ascending, then emission order.
Before(f, g) ==
    \/ f.severity < g.severity
    \/ f.severity = g.severity /\ f.id < g.id

\* One file comment; the queue loses it once it is posted.
CreateFileComment(r) ==
    /\ pc[r] = "files" /\ queue[r] # {}
    /\ \E f \in queue[r] : \E response \in Response : \E applied \in MayApply(response) :
        /\ \A g \in queue[r] : f = g \/ Before(f, g)
        /\ Answered(r, response, "files")
        /\ created' = IF applied THEN WithComments(r, {f.fp}) ELSE created
        /\ queue' = IF response = "ok" THEN [queue EXCEPT ![r] = @ \ {f}] ELSE queue
    /\ UNCHANGED <<run, prior, whole, seen, target, summaries>>

\* Mutant: when the look for the summary fails the posting starts over.
LocateSummaryAnew(r) ==
    /\ pc[r] = "files" /\ queue[r] = {}
    /\ \/ /\ target' = [target EXCEPT ![r] = IF summaries = <<>> THEN 0 ELSE 1]
          /\ Goto(r, "summary")
       \/ Goto(r, "list") /\ UNCHANGED target
    /\ UNCHANGED <<run, prior, whole, seen, queue, attempt, created, summaries>>

\* upsertSummary looks for the first summary comment.
LocateSummary(r) ==
    /\ pc[r] = "files" /\ queue[r] = {}
    /\ \/ /\ target' = [target EXCEPT ![r] = IF summaries = <<>> THEN 0 ELSE 1]
          /\ Goto(r, "summary")
       \/ Goto(r, "failed") /\ UNCHANGED target
    /\ UNCHANGED <<run, prior, whole, seen, queue, attempt, created, summaries>>

\* Mutant: the entry is added to what the comment holds when it is written.
HistoryInPlace(r) ==
    IF target[r] = 0 THEN <<r>> ELSE <<r>> \o summaries[target[r]]

\* The history the run writes: its own entry first, unless it failed before
\* it had one, cut to what the marker may hold.
History(r) ==
    LET entries == IF whole[r] THEN <<r>> \o prior[r] ELSE prior[r]
    IN  SubSeq(entries, 1, IF Len(entries) < MaxHistory THEN Len(entries) ELSE MaxHistory)

EditSummary(r) ==
    /\ pc[r] = "summary" /\ target[r] # 0
    /\ \E response \in Response : \E applied \in MayApply(response) :
        /\ Answered(r, response, "done")
        /\ summaries' = IF applied
                        THEN [summaries EXCEPT ![target[r]] = History(r)]
                        ELSE summaries
    /\ UNCHANGED <<run, prior, whole, seen, queue, target, created>>

CreateSummary(r) ==
    /\ pc[r] = "summary" /\ target[r] = 0
    /\ \E response \in Response : \E applied \in MayApply(response) :
        /\ Answered(r, response, "done")
        /\ summaries' = IF applied THEN Append(summaries, History(r)) ELSE summaries
    /\ UNCHANGED <<run, prior, whole, seen, queue, target, created>>

-----------------------------------------------------------------------------
Progress(r) ==
    \/ Begin(r)
    \/ ListReviewComments(r)
    \/ CreateReview(r)
    \/ CreateFileComment(r)
    \/ LocateSummary(r)
    \/ EditSummary(r)
    \/ CreateSummary(r)

\* A runner that is cancelled or dies leaves what it has posted.
Crash(r) ==
    /\ pc[r] \notin {"done", "skipped", "failed"}
    /\ Goto(r, "failed")
    /\ UNCHANGED <<run, prior, whole, seen, queue, attempt, target, created, summaries>>

Terminated ==
    /\ \A r \in Run : pc[r] \in {"done", "skipped", "failed"}
    /\ UNCHANGED vars

Next == (\E r \in Run : Progress(r) \/ Crash(r)) \/ Terminated

Spec == Init /\ [][Next]_vars

\* Every call returns, and is repeated a bounded number of times.
FairSpec == Spec /\ \A r \in Run : WF_vars(Progress(r))

-----------------------------------------------------------------------------
TypeOK ==
    /\ pc \in [Run -> Step]
    /\ event \in [Run -> Events]
    /\ findings \in [Run -> SUBSET Finding]
    /\ prior \in [Run -> Seq(Run)]
    /\ whole \in [Run -> BOOLEAN]
    /\ seen \in [Run -> SUBSET Fingerprint]
    /\ queue \in [Run -> SUBSET Finding]
    /\ attempt \in [Run -> 0 .. Retries]
    /\ target \in [Run -> Nat]
    /\ \A r \in Run : pc[r] = "summary" => target[r] =< Len(summaries)
    /\ created \in [Run -> [Fingerprint -> Nat]]
    /\ summaries \in Seq(Seq(Run))

\* When a run is done, every accepted finding with a place in the diff is a
\* comment on the pull request, put there by this run or another, or there is
\* a cap on its severity and earlier findings of the run fill it; a blocker is
\* always there.
CompletedIsPublished ==
    \A r \in Run : pc[r] = "done" =>
        \A f \in findings[r] : f.place # "summary" /\ f.fp \notin Posted =>
            /\ f.severity # Blocker
            /\ Cap[f.severity] > 0
            /\ Cardinality({g \in findings[r] :
                    /\ g.place = f.place /\ g.severity = f.severity /\ g.id < f.id
                    /\ g.fp \in Posted}) >= Cap[f.severity]

\* A run listed in a summary's history has put all its comments on the pull
\* request: no crash, failed call or retry leaves a summary that claims a
\* review whose comments are missing.
SummaryComesLast ==
    \A i \in DOMAIN summaries : \A r \in Range(summaries[i]) :
        \A f \in ToPost(r, "line") \cup ToPost(r, "file") : created[r][f.fp] > 0

\* A run adds no comment for what was on the pull request when it looked, and
\* puts no more copies of a comment there than the transport made attempts.
NoRepeat ==
    \A r \in Run : \A p \in Fingerprint : created[r][p] > 0 =>
        p \notin seen[r] /\ created[r][p] =< Retries + 1

\* In either place, the findings of one severity below blocker for which a run
\* adds comments stay within the cap.
CapHolds ==
    \A r \in Run : \A s \in Severity \ {Blocker} : \A place \in {"line", "file"} :
        Cap[s] > 0 =>
            Cardinality({f \in findings[r] :
                /\ f.severity = s /\ f.place = place /\ created[r][f.fp] > 0}) =< Cap[s]

\* However often a write is repeated, no history lists a run twice.
EachRunListedOnce ==
    \A i \in DOMAIN summaries : IsInjective(summaries[i])

\* Every run comes to its end.
EveryRunEnds == \A r \in Run : <>(pc[r] \in {"done", "skipped", "failed"})
=============================================================================
