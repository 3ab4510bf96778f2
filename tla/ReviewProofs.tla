---------------------------- MODULE ReviewProofs ----------------------------
(***************************************************************************)
(* Proofs about Review: what the exit code of a run says, and whom a run   *)
(* listens to, for any number of overlapping runs, any events, settings    *)
(* and outcomes of the steps that Team, Verify and Posting model.          *)
(*                                                                         *)
(* An action of a run changes nothing of another's, so the invariants are  *)
(* stated of one run, and a step is taken apart only for the run whose it  *)
(* is.                                                                     *)
(***************************************************************************)
EXTENDS Review, TLAPS

LEMMA EventsAreEvents ==
    ASSUME TypeOK PROVE Events \cup comments \subseteq Event
  BY ReviewAssumption DEF TypeOK, Event

-----------------------------------------------------------------------------
(* Types.                                                                  *)

Code  == {Pending, Clean, Infra, Findings}
Trace == Status \cup {"ack", "reaction"}

\* The part of TypeOK that Goto and Exit touch.
Coded ==
    /\ pc \in [Run -> Step]
    /\ exit \in [Run -> Code]
    /\ \A r \in Run : exit[r] = Pending <=> pc[r] # "ended"

LEMMA Going ==
    ASSUME Coded, NEW r \in Run, NEW step \in Step, step # "ended", pc[r] # "ended",
           Goto(r, step)
    PROVE  Coded'
  BY DEF Coded, Goto

LEMMA Exiting ==
    ASSUME Coded, NEW r \in Run, NEW code \in Code, code # Pending, Exit(r, code)
    PROVE  Coded'
  BY DEF Coded, Exit, Step

LEMMA Codes == /\ Clean \in Code /\ Infra \in Code /\ Findings \in Code
               /\ Clean # Pending /\ Infra # Pending /\ Findings # Pending
               /\ Clean # Infra /\ Infra # Findings /\ Clean # Findings
  BY DEF Code, Clean, Infra, Findings, Pending

\* What the runs know of their reviews.
Judged ==
    /\ event \in [Run -> Event \cup {NoEvent}]
    /\ setting \in [Run -> Settings]
    /\ scope \in [Run -> SUBSET (Persona \cup {"unknown"})]
    /\ fallback \in [Run -> BOOLEAN]
    /\ roster \in [Run -> SUBSET Persona]
    /\ ran \in [Run -> SUBSET Persona]
    /\ findings \in [Run -> Reviews \cup {{}}]
    /\ filtered \in [Run -> BOOLEAN]

\* What the pull request holds.
Paged ==
    /\ wrote \in [Run -> SUBSET Trace]
    /\ summary \in Status \cup {"none"}
    /\ comments \subseteq Echoes["ack"] \cup Echoes["summary"]

LEMMA TypeParts == TypeOK <=> Coded /\ Judged /\ Paged
  BY DEF TypeOK, Coded, Judged, Paged, Code, Trace

LEMMA Posting ==
    ASSUME Coded, Paged, NEW r \in Run, NEW status \in Status, NEW code \in Code \ {Pending},
           Post(r, status, code)
    PROVE  Coded' /\ Paged'
<1>1. Coded'
  BY Codes, Exiting DEF Post
<1>2. Paged'
  BY DEF Post, Upsert, Write, Paged, Trace, page
<1> QED
  BY <1>1, <1>2

\* Only a comment is taken for a summons: a pull_request event has no scope.
Asked == \A r \in Run : pc[r] = "summons" => event[r].kind = "issue_comment"

LEMMA CommentsHaveScope ==
    ASSUME NEW e \in Event \cup {NoEvent}, e.kind = "issue_comment"
    PROVE  e \in IssueCommentEvent
<1>1. e # NoEvent
  BY DEF NoEvent
<1>2. e \notin PullRequestEvent
  BY DEF PullRequestEvent
<1>3. e \notin UnsupportedEvent
  BY DEF UnsupportedEvent
<1> QED
  BY <1>1, <1>2, <1>3 DEF Event

LEMMA TypeKept == TypeOK /\ Asked /\ [Next]_vars => TypeOK' /\ Asked'
<1> SUFFICES ASSUME TypeOK, Asked, [Next]_vars
             PROVE  Coded' /\ Judged' /\ Paged' /\ Asked'
  BY TypeParts DEF TypeOK, Coded, Judged, Paged, Code, Trace
<1>0. Coded /\ Judged /\ Paged
  BY TypeParts
<1>1. ASSUME NEW r \in Run, Deliver(r) PROVE Coded' /\ Judged' /\ Paged' /\ Asked'
  <2>1. Coded'
    BY <1>0, <1>1, Going DEF Deliver, Step
  <2>2. event' \in [Run -> Event \cup {NoEvent}]
    BY <1>0, <1>1, EventsAreEvents DEF Deliver, Judged
  <2>9. Asked'
    BY <1>0, <1>1 DEF Deliver, Goto, Exit, Asked, Coded, Judged
  <2> QED
    BY <2>9, <1>0, <1>1, <2>1, <2>2 DEF Deliver, judgment, page, Judged, Paged
<1>2. ASSUME NEW r \in Run, Begin(r) PROVE Coded' /\ Judged' /\ Paged' /\ Asked'
  <2>1. Coded'
    BY <1>0, <1>2, Going, Exiting, Codes DEF Begin, Step
  <2>9. Asked'
    BY <1>0, <1>2 DEF Begin, Goto, Exit, Asked, Coded, Judged
  <2> QED
    BY <2>9, <1>0, <1>2, <2>1 DEF Begin, judgment, page, Judged, Paged
<1>3. ASSUME NEW r \in Run, Summons(r) PROVE Coded' /\ Judged' /\ Paged' /\ Asked'
  <2>1. Coded'
    BY <1>0, <1>3, Going, Exiting, Codes DEF Summons, Step
  <2>2. event[r].scope \in SUBSET (Persona \cup {"unknown"})
    <3>1. event[r] \in Event \cup {NoEvent} /\ event[r].kind = "issue_comment"
      BY <1>0, <1>3 DEF Summons, Judged, Asked
    <3> QED
      BY <3>1, CommentsHaveScope DEF IssueCommentEvent
  <2>3. Judged'
    BY <1>0, <1>3, <2>2 DEF Summons, judgment, Judged
  <2>4. Paged'
    BY <1>0, <1>3 DEF Summons, page, Paged, Write, Trace
  <2>9. Asked'
    BY <1>0, <1>3 DEF Summons, Goto, Exit, Asked, Coded, Judged
  <2> QED
    BY <2>9, <2>1, <2>3, <2>4
<1>4. ASSUME NEW r \in Run, Prepare(r) PROVE Coded' /\ Judged' /\ Paged' /\ Asked'
  <2>1. Coded'
    BY <1>0, <1>4, Going, Exiting, Codes DEF Prepare, Step
  <2>9. Asked'
    BY <1>0, <1>4 DEF Prepare, Goto, Exit, Asked, Coded, Judged
  <2> QED
    BY <2>9, <1>0, <1>4, <2>1 DEF Prepare, judgment, page, Judged, Paged
<1>5. ASSUME NEW r \in Run, ComputeRoster(r) PROVE Coded' /\ Judged' /\ Paged' /\ Asked'
  <2>1. Coded'
    BY <1>0, <1>5, Going DEF ComputeRoster, Step
  <2>2. Judged'
    BY <1>0, <1>5 DEF ComputeRoster, Judged, Rosters, InScope
  <2>9. Asked'
    BY <1>0, <1>5 DEF ComputeRoster, Goto, Exit, Asked, Coded, Judged
  <2> QED
    BY <2>9, <1>0, <1>5, <2>1, <2>2 DEF ComputeRoster, page, Paged
<1>6. ASSUME NEW r \in Run, RunTeam(r) PROVE Coded' /\ Judged' /\ Paged' /\ Asked'
  <2>1. Coded'
    BY <1>0, <1>6, Going DEF RunTeam, Step
  <2>9. Asked'
    BY <1>0, <1>6 DEF RunTeam, Goto, Exit, Asked, Coded, Judged
  <2> QED
    BY <2>9, <1>0, <1>6, <2>1 DEF RunTeam, page, Judged, Paged
<1>7. ASSUME NEW r \in Run, Verify(r) PROVE Coded' /\ Judged' /\ Paged' /\ Asked'
  <2>1. Coded'
    BY <1>0, <1>7, Going DEF Verify, Step
  <2>9. Asked'
    BY <1>0, <1>7 DEF Verify, Goto, Exit, Asked, Coded, Judged
  <2> QED
    BY <2>9, <1>0, <1>7, <2>1 DEF Verify, page, Judged, Paged, Accepted
<1>8. ASSUME NEW r \in Run, PostReview(r) PROVE Coded' /\ Judged' /\ Paged' /\ Asked'
  <2>1. Coded' /\ Paged'
    BY <1>0, <1>8, Posting, Codes DEF PostReview, StatusOf, ExitCode, Status
  <2>9. Asked'
    BY <1>0, <1>8 DEF PostReview, Post, Goto, Exit, Asked, Coded, Judged
  <2> QED
    BY <2>9, <1>0, <1>8, <2>1 DEF PostReview, judgment, Judged
<1>9. ASSUME NEW r \in Run, PostSkip(r) PROVE Coded' /\ Judged' /\ Paged' /\ Asked'
  <2>1. Coded' /\ Paged'
    BY <1>0, <1>9, Posting, Codes DEF PostSkip, Status
  <2>9. Asked'
    BY <1>0, <1>9 DEF PostSkip, Post, Goto, Exit, Asked, Coded, Judged
  <2> QED
    BY <2>9, <1>0, <1>9, <2>1 DEF PostSkip, judgment, Judged
<1>10. ASSUME NEW r \in Run, FailInfra(r) PROVE Coded' /\ Judged' /\ Paged' /\ Asked'
  <2>1. Coded' /\ Paged'
    BY <1>0, <1>10, Posting, Codes DEF FailInfra, Status
  <2>9. Asked'
    BY <1>0, <1>10 DEF FailInfra, Post, Goto, Exit, Asked, Coded, Judged
  <2> QED
    BY <2>9, <1>0, <1>10, <2>1 DEF FailInfra, judgment, Judged
<1>11. CASE UNCHANGED vars
  BY <1>0, <1>11 DEF vars, judgment, page, Coded, Judged, Paged, Asked
<1> QED
  BY <1>1, <1>2, <1>3, <1>4, <1>5, <1>6, <1>7, <1>8, <1>9, <1>10, <1>11
  DEF Next, Progress, Terminated

\* Every variable keeps its type, and a run has an exit code exactly when it
\* has ended.
THEOREM TypeCorrect == Spec => []TypeOK
<1>1. Init => TypeOK /\ Asked
  BY DEF Init, TypeOK, Step, Pending, Clean, Infra, Findings, Asked
<1> QED
  BY <1>1, TypeKept, PTL DEF Spec

-----------------------------------------------------------------------------
(* One run.                                                                *)

Unstarted == {"idle", "parse", "summons"}
Unheard   == Unstarted \cup {"prepare", "roster", "skip"}

\* A run that has not ended has written no more than its reaction.
Quiet(r) ==
    /\ pc[r] \in Unstarted => wrote[r] = {}
    /\ pc[r] # "ended" => wrote[r] \subseteq {"reaction"}

\* Nobody has run before the team does, and nothing is found before the
\* lenses have answered.
Unjudged(r) ==
    /\ pc[r] \in Unheard => ran[r] = {}
    /\ pc[r] \notin {"post", "ended"} => findings[r] = {}

\* Config-guard's certain blocker is on its way to the gate.
Guarding(r) ==
    setting[r].certain /\ scope[r] = {} =>
        /\ pc[r] \in {"team", "verify"} => Guard \in ran[r]
        /\ pc[r] = "post" => <<Guard, Blocker>> \in findings[r]

Passes(r) ==
    exit[r] = Clean =>
        /\ \A f \in findings[r] : f[2] < setting[r].failOn
        /\ wrote[r] \cap Reported = {} =>
              /\ ran[r] = {}
              /\ DryRun \/ event[r] \notin Unconditional

Fails(r) ==
    exit[r] = Findings =>
        /\ wrote[r] \cap Status = {"findings"}
        /\ \E f \in findings[r] : f[2] >= setting[r].failOn

GuardFails(r) ==
    setting[r].certain /\ scope[r] = {} /\ exit[r] = Clean =>
        wrote[r] \cap {"clean", "findings"} = {}

\* A comment of the app, or of someone who may not summon, is at most looked
\* at.
Inert(r) ==
    event[r].kind = "issue_comment" /\ event[r].marker = "first line" =>
        /\ pc[r] \in Unstarted \cup {"ended"}
        /\ wrote[r] = {}
        /\ exit[r] \in {Pending, Clean}

Uninvited(r) ==
    event[r].kind = "issue_comment"
        /\ (event[r].level \notin {"admin", "write"} \/ event[r].bot) =>
            /\ pc[r] \in Unstarted \cup {"ended"}
            /\ pc[r] = "summons" => ~event[r].bot
            /\ wrote[r] \subseteq {"ack"}
            /\ ran[r] = {}

Local(r) ==
    /\ Quiet(r)
    /\ Unjudged(r)
    /\ Guarding(r)
    /\ Passes(r)
    /\ Fails(r)
    /\ GuardFails(r)
    /\ Inert(r)
    /\ Uninvited(r)

\* A step of run r leaves every other run as it is.
Apart(r) ==
    \A q \in Run \ {r} :
        /\ pc'[q] = pc[q] /\ event'[q] = event[q] /\ setting'[q] = setting[q]
        /\ scope'[q] = scope[q] /\ ran'[q] = ran[q] /\ findings'[q] = findings[q]
        /\ exit'[q] = exit[q] /\ wrote'[q] = wrote[q]

LEMMA StaysApart ==
    ASSUME NEW r \in Run, NEW q \in Run \ {r}, Apart(r), Local(q)
    PROVE  Local(q)'
  BY DEF Apart, Local, Quiet, Unjudged, Guarding, Passes, Fails, GuardFails, Inert, Uninvited

LEMMA StepsApart ==
    ASSUME TypeOK, NEW r \in Run, Deliver(r) \/ Progress(r)
    PROVE  Apart(r)
<1> USE DEF TypeOK, Apart, Goto, Exit, judgment, page
<1>1. CASE Deliver(r)
  BY <1>1 DEF Deliver
<1>2. CASE Begin(r)
  BY <1>2 DEF Begin
<1>3. CASE Summons(r)
  BY <1>3 DEF Summons, Write
<1>4. CASE Prepare(r)
  BY <1>4 DEF Prepare
<1>5. CASE ComputeRoster(r)
  BY <1>5 DEF ComputeRoster
<1>6. CASE RunTeam(r)
  BY <1>6 DEF RunTeam
<1>7. CASE Verify(r)
  BY <1>7 DEF Verify
<1>8. CASE PostReview(r)
  BY <1>8 DEF PostReview, Post, Upsert, Write
<1>9. CASE PostSkip(r)
  BY <1>9 DEF PostSkip, Post, Upsert, Write
<1>10. CASE FailInfra(r)
  BY <1>10 DEF FailInfra, Post, Upsert, Write
<1> QED
  BY <1>1, <1>2, <1>3, <1>4, <1>5, <1>6, <1>7, <1>8, <1>9, <1>10 DEF Progress

\* While a run has not ended it claims nothing.
LEMMA NothingClaimed ==
    ASSUME TypeOK, NEW r \in Run, pc[r] # "ended"
    PROVE  exit[r] = Pending /\ Passes(r) /\ Fails(r) /\ GuardFails(r)
  BY Codes DEF TypeOK, Passes, Fails, GuardFails

LEMMA GoesOn ==
    ASSUME TypeOK, NEW r \in Run, NEW step \in Step \ {"ended"}, pc[r] # "ended",
           Goto(r, step)
    PROVE  /\ pc'[r] = step /\ exit'[r] = Pending
           /\ Passes(r)' /\ Fails(r)' /\ GuardFails(r)'
<1>1. pc'[r] = step /\ exit'[r] = Pending
  BY DEF TypeOK, Goto
<1> QED
  BY <1>1, Codes DEF Passes, Fails, GuardFails

LEMMA EndsWith ==
    ASSUME TypeOK, NEW r \in Run, NEW code, Exit(r, code)
    PROVE  pc'[r] = "ended" /\ exit'[r] = code
  BY DEF TypeOK, Exit

LEMMA DeliverLocal ==
    ASSUME TypeOK, NEW r \in Run, Local(r), Deliver(r)
    PROVE  Local(r)'
<1>1. pc[r] = "idle" /\ pc'[r] = "parse" /\ exit'[r] = Pending
  BY GoesOn DEF Deliver, Step
<1>2. Passes(r)' /\ Fails(r)' /\ GuardFails(r)'
  BY GoesOn DEF Deliver, Step
<1>3. UNCHANGED <<setting, scope, ran, findings, wrote>>
  BY DEF Deliver, judgment, page
<1> QED
  BY <1>1, <1>2, <1>3
  DEF Local, Quiet, Unjudged, Guarding, Inert, Uninvited, Unstarted, Unheard

LEMMA Monotone ==
    ASSUME NEW e \in PullRequestEvent, NEW b \in BOOLEAN, LetThrough(e, TRUE)
    PROVE  LetThrough(e, b)
<1>1. e.kind = "pull_request"
  BY DEF PullRequestEvent
<1> QED
  BY <1>1 DEF LetThrough

LEMMA BeginLocal ==
    ASSUME TypeOK, NEW r \in Run, Local(r), Begin(r)
    PROVE  Local(r)'
<1>1. UNCHANGED <<event, setting, scope, ran, findings, wrote>>
  BY DEF Begin, judgment, page
<1>2. pc[r] = "parse" /\ wrote[r] = {} /\ ran[r] = {} /\ findings[r] = {}
  BY DEF Begin, Local, Quiet, Unjudged, Unstarted, Unheard
<1>3. CASE event[r].kind = "unsupported"
  <2>1. pc'[r] = "ended" /\ exit'[r] = Infra
    BY <1>3, EndsWith DEF Begin
  <2> QED
    BY <1>1, <1>2, <1>3, <2>1, Codes DEF Local, Quiet, Unjudged, Guarding, Passes, Fails,
      GuardFails, Inert, Uninvited, Unstarted, Unheard
<1>4. CASE event[r].kind # "unsupported"
  <2>1. PICK b \in BOOLEAN :
            IF ~LetThrough(event[r], b) THEN Exit(r, Clean)
            ELSE Goto(r, IF event[r].kind = "issue_comment" THEN "summons" ELSE "prepare")
    BY <1>4 DEF Begin
  <2>2. CASE ~LetThrough(event[r], b)
    <3>1. pc'[r] = "ended" /\ exit'[r] = Clean
      BY <2>1, <2>2, EndsWith
    <3>2. event[r] \notin Unconditional
      BY <2>2, Monotone DEF Unconditional
    <3> QED
      BY <1>1, <1>2, <3>1, <3>2, Codes DEF Local, Quiet, Unjudged, Guarding, Passes, Fails,
        GuardFails, Inert, Uninvited, Unstarted, Unheard
  <2>3. CASE LetThrough(event[r], b) /\ event[r].kind = "issue_comment"
    <3>1. /\ pc'[r] = "summons" /\ exit'[r] = Pending
          /\ Passes(r)' /\ Fails(r)' /\ GuardFails(r)'
      BY <1>2, <2>1, <2>3, GoesOn DEF Step
    <3>2. ~event[r].bot
      BY <2>3 DEF LetThrough
    <3> QED
      BY <1>1, <1>2, <3>1, <3>2 DEF Local, Quiet, Unjudged, Guarding, Inert, Uninvited,
        Unstarted, Unheard
  <2>4. CASE LetThrough(event[r], b) /\ event[r].kind # "issue_comment"
    <3>1. /\ pc'[r] = "prepare" /\ exit'[r] = Pending
          /\ Passes(r)' /\ Fails(r)' /\ GuardFails(r)'
      BY <1>2, <2>1, <2>4, GoesOn DEF Step
    <3> QED
      BY <1>1, <1>2, <2>4, <3>1 DEF Local, Quiet, Unjudged, Guarding, Inert, Uninvited,
        Unstarted, Unheard
  <2> QED
    BY <2>2, <2>3, <2>4
<1> QED
  BY <1>3, <1>4

LEMMA SummonsLocal ==
    ASSUME TypeOK, Asked, NEW r \in Run, Local(r), Summons(r)
    PROVE  Local(r)'
<1>1. UNCHANGED <<event, setting, ran, findings>>
  BY DEF Summons, judgment
<1>2. pc[r] = "summons" /\ wrote[r] = {} /\ ran[r] = {} /\ findings[r] = {}
  BY DEF Summons, Local, Quiet, Unjudged, Unstarted, Unheard
<1>3. event[r].kind = "issue_comment" /\ event[r] \notin Unconditional
  BY <1>2 DEF Asked, Unconditional, PullRequestEvent
<1>4. CASE Echoed(event[r]) /\ Exit(r, Clean) /\ UNCHANGED <<scope, page>>
  BY <1>1, <1>2, <1>3, <1>4, EndsWith, Codes DEF Local, Quiet, Unjudged, Guarding, Passes,
    Fails, GuardFails, Inert, Uninvited, Unstarted, Unheard, page
<1>5. CASE ~Echoed(event[r]) /\ Exit(r, Infra) /\ UNCHANGED <<scope, page>>
  BY <1>1, <1>2, <1>3, <1>5, EndsWith, Codes DEF Local, Quiet, Unjudged, Guarding, Passes,
    Fails, GuardFails, Inert, Uninvited, Unstarted, Unheard, Echoed, page
<1>6. CASE ~Echoed(event[r]) /\ ~MaySummon(event[r]) /\ Exit(r, Clean)
  <2>1. wrote'[r] \subseteq {"ack"} /\ UNCHANGED scope
    BY <1>2, <1>6 DEF Summons, Write, TypeOK, page
  <2>2. pc'[r] = "ended" /\ exit'[r] = Clean
    BY <1>6, EndsWith
  <2> QED
    BY <1>1, <1>2, <1>3, <1>6, <2>1, <2>2, Codes DEF Local, Quiet, Unjudged, Guarding, Passes,
      Fails, GuardFails, Inert, Uninvited, Unstarted, Unheard, Echoed
<1>7. CASE ~Echoed(event[r]) /\ MaySummon(event[r]) /\ Goto(r, "prepare")
  <2>1. wrote'[r] \subseteq {"reaction"}
    BY <1>2, <1>7 DEF Summons, Write, TypeOK, Exit, Goto, page
  <2>2. /\ pc'[r] = "prepare" /\ exit'[r] = Pending
        /\ Passes(r)' /\ Fails(r)' /\ GuardFails(r)'
    BY <1>2, <1>7, GoesOn DEF Step
  <2> QED
    BY <1>1, <1>2, <1>3, <1>7, <2>1, <2>2 DEF Local, Quiet, Unjudged, Guarding, Inert,
      Uninvited, Unstarted, Unheard, Echoed, MaySummon
<1> QED
  BY <1>4, <1>5, <1>6, <1>7 DEF Summons

\* Who is past the summons may be heard, and stays so.
LEMMA Heard ==
    ASSUME NEW r \in Run, Local(r), pc[r] \notin Unstarted \cup {"ended"}, event'[r] = event[r]
    PROVE  Inert(r)' /\ Uninvited(r)'
  BY DEF Local, Inert, Uninvited

LEMMA PrepareLocal ==
    ASSUME TypeOK, NEW r \in Run, Local(r), Prepare(r)
    PROVE  Local(r)'
<1>1. UNCHANGED <<event, setting, scope, ran, findings, wrote>> /\ pc[r] = "prepare"
  BY DEF Prepare, judgment, page
<1>2. wrote[r] \subseteq {"reaction"} /\ ran[r] = {} /\ findings[r] = {}
  BY <1>1 DEF Local, Quiet, Unjudged, Unheard
<1>3. Inert(r)' /\ Uninvited(r)'
  BY <1>1, Heard DEF Unstarted
<1>4. ASSUME NEW step \in {"error", "skip", "roster"}, Goto(r, step) PROVE Local(r)'
  <2>1. /\ pc'[r] = step /\ exit'[r] = Pending
        /\ Passes(r)' /\ Fails(r)' /\ GuardFails(r)'
    BY <1>1, <1>4, GoesOn DEF Step
  <2> QED
    BY <1>1, <1>2, <1>3, <2>1 DEF Local, Quiet, Unjudged, Guarding, Unstarted, Unheard
<1>5. CASE DryRun /\ Exit(r, Clean)
  <2>1. pc'[r] = "ended" /\ exit'[r] = Clean
    BY <1>5, EndsWith
  <2> QED
    BY <1>1, <1>2, <1>3, <1>5, <2>1, Codes DEF Local, Quiet, Unjudged, Guarding, Passes,
      Fails, GuardFails, Unstarted, Unheard
<1> QED
  BY <1>4, <1>5 DEF Prepare

\* Only a change of the review configuration can be found to weaken it.
LEMMA CertainTouches ==
    ASSUME NEW s \in Settings, s.certain PROVE Touches(s)
  BY ReviewAssumption

LEMMA ComputeRosterLocal ==
    ASSUME TypeOK, NEW r \in Run, Local(r), ComputeRoster(r)
    PROVE  Local(r)'
<1>1. UNCHANGED <<event, setting, scope, findings, wrote>> /\ pc[r] = "roster"
  BY DEF ComputeRoster, page
<1>2. wrote[r] \subseteq {"reaction"} /\ ran[r] = {} /\ findings[r] = {}
  BY <1>1 DEF Local, Quiet, Unjudged, Unheard
<1>3. Inert(r)' /\ Uninvited(r)'
  BY <1>1, Heard DEF Unstarted
<1>4. CASE Goto(r, "error")
  <2>1. /\ pc'[r] = "error" /\ exit'[r] = Pending
        /\ Passes(r)' /\ Fails(r)' /\ GuardFails(r)'
    BY <1>1, <1>4, GoesOn DEF Step
  <2> QED
    BY <1>1, <1>2, <1>3, <2>1 DEF Local, Quiet, Unjudged, Guarding, Unstarted, Unheard
<1>5. CASE Goto(r, "team") /\ \E members \in Rosters(r) :
                ran' = [ran EXCEPT ![r] = InScope(r, members)]
  <2>1. /\ pc'[r] = "team" /\ exit'[r] = Pending
        /\ Passes(r)' /\ Fails(r)' /\ GuardFails(r)'
    BY <1>1, <1>5, GoesOn DEF Step
  <2>2. setting[r].certain /\ scope[r] = {} => Guard \in ran'[r]
    <3>1. setting[r].certain => Touches(setting[r])
      BY CertainTouches DEF TypeOK
    <3> QED
      BY <1>5, <3>1 DEF Rosters, InScope, TypeOK
  <2> QED
    BY <1>1, <1>2, <1>3, <2>1, <2>2 DEF Local, Quiet, Unjudged, Guarding, Unstarted, Unheard
<1> QED
  BY <1>4, <1>5 DEF ComputeRoster

LEMMA RunTeamLocal ==
    ASSUME TypeOK, NEW r \in Run, Local(r), RunTeam(r)
    PROVE  Local(r)'
<1>1. UNCHANGED <<event, setting, scope, findings, wrote>> /\ pc[r] = "team"
  BY DEF RunTeam, page
<1>2. wrote[r] \subseteq {"reaction"} /\ findings[r] = {}
  BY <1>1 DEF Local, Quiet, Unjudged
<1>3. Inert(r)' /\ Uninvited(r)'
  BY <1>1, Heard DEF Unstarted
<1>4. /\ pc'[r] = "verify" /\ exit'[r] = Pending
      /\ Passes(r)' /\ Fails(r)' /\ GuardFails(r)'
  BY <1>1, GoesOn DEF RunTeam, Step
<1>5. ran[r] \subseteq ran'[r]
  BY DEF RunTeam, TypeOK
<1> QED
  BY <1>1, <1>2, <1>3, <1>4, <1>5 DEF Local, Quiet, Unjudged, Guarding, Unstarted, Unheard

LEMMA VerifyLocal ==
    ASSUME TypeOK, NEW r \in Run, Local(r), Verify(r)
    PROVE  Local(r)'
<1>1. UNCHANGED <<event, setting, scope, ran, wrote>> /\ pc[r] = "verify"
  BY DEF Verify, page
<1>2. wrote[r] \subseteq {"reaction"} /\ findings[r] = {}
  BY <1>1 DEF Local, Quiet, Unjudged
<1>3. Inert(r)' /\ Uninvited(r)'
  BY <1>1, Heard DEF Unstarted
<1>4. CASE Goto(r, "error") /\ UNCHANGED findings
  <2>1. /\ pc'[r] = "error" /\ exit'[r] = Pending
        /\ Passes(r)' /\ Fails(r)' /\ GuardFails(r)'
    BY <1>1, <1>4, GoesOn DEF Step
  <2> QED
    BY <1>1, <1>2, <1>3, <1>4, <2>1 DEF Local, Quiet, Unjudged, Guarding, Unstarted, Unheard
<1>5. CASE Goto(r, "post") /\ \E found \in Accepted(r) :
                findings' = [findings EXCEPT ![r] = found]
  <2>1. /\ pc'[r] = "post" /\ exit'[r] = Pending
        /\ Passes(r)' /\ Fails(r)' /\ GuardFails(r)'
    BY <1>1, <1>5, GoesOn DEF Step
  <2>2. setting[r].certain /\ scope[r] = {} => <<Guard, Blocker>> \in findings'[r]
    <3>1. setting[r].certain /\ scope[r] = {} => Guard \in ran[r]
      BY <1>1 DEF Local, Guarding
    <3>2. Guard \in ran[r] /\ setting[r].certain => <<Guard, Blocker>> \in findings'[r]
      BY <1>5 DEF Accepted, TypeOK
    <3> QED
      BY <3>1, <3>2
  <2> QED
    BY <1>1, <1>2, <1>3, <2>1, <2>2 DEF Local, Quiet, Unjudged, Guarding, Unstarted, Unheard
<1> QED
  BY <1>4, <1>5 DEF Verify

LEMMA SettingsAreSettings ==
    ASSUME NEW s \in Settings PROVE s.failOn \in FailOn
  BY ReviewAssumption DEF Setting

LEMMA ReviewsAreFindings ==
    ASSUME NEW found \in Reviews \cup {{}} PROVE found \subseteq Finding
  BY ReviewAssumption

\* The gate's verdict, in terms of the findings.
GateOf(r) ==
    ExitCode({f[2] : f \in findings[r]}, <<Guard, Blocker>> \in findings[r],
             setting[r].failOn, Touches(setting[r]))

LEMMA GateSays ==
    ASSUME TypeOK, NEW r \in Run
    PROVE  /\ GateOf(r) = Clean =>
                /\ \A f \in findings[r] : f[2] < setting[r].failOn
                /\ ~(Touches(setting[r]) /\ <<Guard, Blocker>> \in findings[r])
           /\ GateOf(r) = Findings =>
                \E f \in findings[r] : f[2] >= setting[r].failOn
<1>1. findings[r] \subseteq Finding /\ setting[r].failOn \in FailOn
  BY SettingsAreSettings, ReviewsAreFindings DEF TypeOK
<1>2. \A f \in findings[r] : f[2] \in Severity
  BY <1>1 DEF Finding
<1>3. Blocker \in Severity /\ \A s \in Severity : s <= Blocker
  BY DEF Severity, Nit, Blocker
<1>4. Severity \subseteq Int /\ FailOn \subseteq Int
  BY DEF Severity, FailOn, Nit, Blocker, Unranked
<1>5. Blocker >= setting[r].failOn
  BY <1>1, <1>3 DEF FailOn, Unranked, Blocker, Severity, Nit
<1>6. ASSUME GateOf(r) = Clean
      PROVE  /\ \A f \in findings[r] : f[2] < setting[r].failOn
             /\ ~(Touches(setting[r]) /\ <<Guard, Blocker>> \in findings[r])
  <2>1. /\ \A s \in {f[2] : f \in findings[r]} : ~(s >= setting[r].failOn)
        /\ ~(Touches(setting[r]) /\ <<Guard, Blocker>> \in findings[r])
    BY <1>6, Codes DEF GateOf, ExitCode
  <2>2. ASSUME NEW f \in findings[r] PROVE f[2] < setting[r].failOn
    <3>1. f[2] \in Int /\ setting[r].failOn \in Int
      BY <1>1, <1>2, <1>4
    <3>2. ~(f[2] >= setting[r].failOn)
      BY <2>1
    <3>3. \A x, y \in Int : ~(x >= y) => x < y
      OBVIOUS
    <3> QED
      BY <3>1, <3>2, <3>3, Zenon
  <2> QED
    BY <2>1, <2>2
<1>7. ASSUME GateOf(r) = Findings
      PROVE  \E f \in findings[r] : f[2] >= setting[r].failOn
  <2>1. CASE \E s \in {f[2] : f \in findings[r]} : s >= setting[r].failOn
    BY <2>1
  <2>2. CASE <<Guard, Blocker>> \in findings[r]
    BY <2>2, <1>5
  <2> QED
    BY <1>7, <2>1, <2>2, Codes DEF GateOf, ExitCode
<1> QED
  BY <1>6, <1>7

\* A run ends with an answered Post, its report there, or in an infra error.
LEMMA PostEnds ==
    ASSUME TypeOK, NEW r \in Run, NEW status, NEW code, Post(r, status, code)
    PROVE  /\ pc'[r] = "ended"
           /\ \/ exit'[r] = code /\ wrote'[r] = wrote[r] \cup {status}
              \/ exit'[r] = Infra
  BY EndsWith DEF Post, Upsert, Write, TypeOK

\* Whatever it writes, a run that exits with an infra error claims nothing.
LEMMA InfraLocal ==
    ASSUME TypeOK, NEW r \in Run, Local(r), pc[r] \notin Unstarted \cup {"ended"},
           event'[r] = event[r], pc'[r] = "ended", exit'[r] = Infra
    PROVE  Local(r)'
  BY Heard, Codes DEF Local, Quiet, Unjudged, Guarding, Passes, Fails, GuardFails,
    Unstarted, Unheard

LEMMA PostReviewLocal ==
    ASSUME TypeOK, NEW r \in Run, Local(r), PostReview(r)
    PROVE  Local(r)'
<1>1. UNCHANGED <<event, setting, scope, ran, findings>> /\ pc[r] = "post"
  BY DEF PostReview, judgment
<1>2. wrote[r] \subseteq {"reaction"}
  BY <1>1 DEF Local, Quiet
<1>3. Inert(r)' /\ Uninvited(r)'
  BY <1>1, Heard DEF Unstarted
<1>4. /\ pc'[r] = "ended"
      /\ \/ exit'[r] = GateOf(r) /\ wrote'[r] = wrote[r] \cup {StatusOf(r)}
         \/ exit'[r] = Infra
  BY PostEnds DEF PostReview, GateOf
<1>5. CASE exit'[r] = Infra
  BY <1>1, <1>4, <1>5, InfraLocal DEF Unstarted
<1>6. CASE exit'[r] = GateOf(r) /\ wrote'[r] = wrote[r] \cup {StatusOf(r)}
  <2>1. Passes(r)'
    <3>1. StatusOf(r) \in Reported
      BY DEF StatusOf, Reported
    <3> QED
      BY <1>1, <1>6, <3>1, GateSays DEF Passes
  <2>2. Fails(r)'
    <3> SUFFICES ASSUME exit'[r] = Findings
                 PROVE  /\ wrote'[r] \cap Status = {"findings"}
                        /\ \E f \in findings[r] : f[2] >= setting[r].failOn
      BY <1>1 DEF Fails
    <3>1. \E f \in findings[r] : f[2] >= setting[r].failOn
      BY <1>6, GateSays
    <3>2. StatusOf(r) = "findings"
      BY <3>1 DEF StatusOf
    <3> QED
      BY <1>2, <1>6, <3>1, <3>2 DEF Status
  <2>3. GuardFails(r)'
    <3>1. setting[r].certain /\ scope[r] = {} =>
              Touches(setting[r]) /\ <<Guard, Blocker>> \in findings[r]
      BY <1>1, CertainTouches DEF Local, Guarding, TypeOK
    <3> QED
      BY <1>1, <1>6, <3>1, GateSays DEF GuardFails
  <2> QED
    BY <1>1, <1>3, <1>4, <2>1, <2>2, <2>3 DEF Local, Quiet, Unjudged, Guarding, Unstarted, Unheard
<1> QED
  BY <1>4, <1>5, <1>6

LEMMA PostSkipLocal ==
    ASSUME TypeOK, NEW r \in Run, Local(r), PostSkip(r)
    PROVE  Local(r)'
<1>1. UNCHANGED <<event, setting, scope, ran, findings>> /\ pc[r] = "skip"
  BY DEF PostSkip, judgment
<1>2. wrote[r] \subseteq {"reaction"} /\ findings[r] = {}
  BY <1>1 DEF Local, Quiet, Unjudged
<1>3. Inert(r)' /\ Uninvited(r)'
  BY <1>1, Heard DEF Unstarted
<1>4. /\ pc'[r] = "ended"
      /\ \/ exit'[r] = Clean /\ wrote'[r] = wrote[r] \cup {"skipped"}
         \/ exit'[r] = Infra
  BY PostEnds DEF PostSkip
<1>5. CASE exit'[r] = Infra
  BY <1>1, <1>4, <1>5, InfraLocal DEF Unstarted
<1>6. CASE exit'[r] = Clean /\ wrote'[r] = wrote[r] \cup {"skipped"}
  BY <1>1, <1>2, <1>3, <1>4, <1>6, Codes DEF Local, Quiet, Unjudged, Guarding, Passes, Fails,
    GuardFails, Reported, Unstarted, Unheard
<1> QED
  BY <1>4, <1>5, <1>6

LEMMA FailInfraLocal ==
    ASSUME TypeOK, NEW r \in Run, Local(r), FailInfra(r)
    PROVE  Local(r)'
<1>1. event'[r] = event[r] /\ pc[r] = "error"
  BY DEF FailInfra
<1>2. pc'[r] = "ended" /\ exit'[r] = Infra
  BY PostEnds DEF FailInfra
<1> QED
  BY <1>1, <1>2, InfraLocal DEF Unstarted

-----------------------------------------------------------------------------
(* Every run.                                                              *)

IInv == TypeOK /\ Asked /\ \A r \in Run : Local(r)

LEMMA Inductive == IInv /\ [Next]_vars => IInv'
<1> SUFFICES ASSUME IInv, [Next]_vars, TypeOK', Asked'
             PROVE  \A q \in Run : Local(q)'
  BY TypeKept DEF IInv
<1>1. ASSUME NEW r \in Run, Deliver(r) \/ Progress(r)
      PROVE  \A q \in Run : Local(q)'
  <2>1. Local(r)'
    BY <1>1, DeliverLocal, BeginLocal, SummonsLocal, PrepareLocal, ComputeRosterLocal,
       RunTeamLocal, VerifyLocal, PostReviewLocal, PostSkipLocal, FailInfraLocal
    DEF IInv, Progress
  <2>2. Apart(r)
    BY <1>1, StepsApart DEF IInv
  <2>3. ASSUME NEW q \in Run \ {r} PROVE Local(q)'
    BY <2>2, <2>3, StaysApart DEF IInv
  <2> QED
    BY <2>1, <2>3
<1>2. ASSUME UNCHANGED vars, NEW q \in Run PROVE Local(q)'
  BY <1>2 DEF IInv, vars, judgment, page, Local, Quiet, Unjudged, Guarding, Passes, Fails,
    GuardFails, Inert, Uninvited
<1> QED
  BY <1>1, <1>2 DEF Next, Terminated

LEMMA Initial == Init => IInv
<1> SUFFICES ASSUME Init PROVE IInv
  OBVIOUS
<1>1. TypeOK /\ Asked
  BY DEF Init, TypeOK, Step, Pending, Clean, Infra, Findings, Asked
<1>2. ASSUME NEW r \in Run PROVE Local(r)
  <2>1. pc[r] = "idle" /\ event[r] = NoEvent /\ ran[r] = {} /\ findings[r] = {}
        /\ exit[r] = Pending /\ wrote[r] = {}
    BY DEF Init
  <2> QED
    BY <2>1, Codes DEF Local, Quiet, Unjudged, Guarding, Passes, Fails, GuardFails, Inert,
      Uninvited, Unstarted, Unheard, NoEvent
<1> QED
  BY <1>1, <1>2 DEF IInv

LEMMA Always == Spec => []IInv
  BY Initial, Inductive, PTL DEF Spec

\* No failed step or call, in any interleaving with the other runs, turns into
\* a pass: a run exits 0 with its report posted and no finding the gate fails
\* on, or because there was nothing for it to review.
THEOREM PassesAreReported == Spec => []PassIsReported
<1>1. IInv => PassIsReported
  BY DEF IInv, Local, Passes, PassIsReported
<1> QED
  BY <1>1, Always, PTL

\* A run that exits 2 has posted a summary with findings, and none that says
\* otherwise, and one of its findings is at or above fail_on.
THEOREM RedIsReported == Spec => []FindingsAreReported
<1>1. IInv => FindingsAreReported
  BY DEF IInv, Local, Fails, FindingsAreReported
<1> QED
  BY <1>1, Always, PTL

\* A certain weakening of the review configuration is never passed by a review
\* without a scope, for every fail_on and whatever the models answer.
THEOREM WeakeningsFail == Spec => []GuardedReviewsFail
<1>1. IInv => GuardedReviewsFail
  BY DEF IInv, Local, GuardFails, GuardedReviewsFail
<1> QED
  BY <1>1, Always, PTL

\* The app never answers itself: its comments carry a marker on their first
\* line, and the events they cause come to nothing.
THEOREM AppIsInert == Spec => []OwnCommentsInert
<1>1. ASSUME TypeOK, NEW e \in comments
      PROVE  e.kind = "issue_comment" /\ e.marker = "first line"
  <2>1. PICK what \in {"ack", "summary"} : e \in Echoes[what]
    BY <1>1 DEF TypeOK
  <2>2. e \in IssueCommentEvent
    BY <2>1, ReviewAssumption
  <2>3. e.marker = "first line"
    BY <2>1, ReviewAssumption
  <2> QED
    BY <2>2, <2>3 DEF IssueCommentEvent
<1>2. IInv => OwnCommentsInert
  BY <1>1 DEF IInv, Local, Inert, OwnCommentsInert
<1> QED
  BY <1>2, Always, PTL

\* Bots, and people without write access, get an acknowledgement at most.
THEOREM UninvitedAreIgnored == Spec => []OnlyWritersSummon
<1>1. IInv => OnlyWritersSummon
  BY DEF IInv, Local, Uninvited, OnlyWritersSummon
<1> QED
  BY <1>1, Always, PTL
=============================================================================
