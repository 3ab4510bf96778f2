------------------------------ MODULE MCReview ------------------------------
\* Instances of Review for TLC.
EXTENDS Review, TLC

CONSTANTS r1, r2

PR(action, draft, retarget) ==
    [kind |-> "pull_request", action |-> action, draft |-> draft, retarget |-> retarget]

Comment(level, named) ==
    [kind |-> "issue_comment", action |-> "created", onPR |-> TRUE, bot |-> FALSE,
     mention |-> TRUE, marker |-> "none", level |-> level, scope |-> named]

PullRequests ==
    {PR("opened", FALSE, FALSE), PR("opened", TRUE, FALSE), PR("edited", FALSE, TRUE),
     PR("reopened", FALSE, FALSE), PR("ready_for_review", FALSE, FALSE),
     PR("other", FALSE, FALSE)}

Summonses ==
    {Comment("write", {}), Comment("admin", {Other}), Comment("write", {"unknown"}),
     Comment("read", {}),
     [Comment("write", {}) EXCEPT !.marker = "quoted"],
     [Comment("write", {}) EXCEPT !.bot = TRUE],
     [Comment("write", {}) EXCEPT !.onPR = FALSE]}

AllEvents == PullRequests \cup Summonses \cup UnsupportedEvent

\* The app posts as a bot, or under an account that may write.  A link to the
\* run of a repository named agentic-review mentions the command.
EchoEvents ==
    [what \in {"ack", "summary"} |->
        {[Comment("write", {}) EXCEPT !.marker = "first line",
                                      !.mention = (what = "summary"), !.bot = b]
            : b \in BOOLEAN}]

\* A change that weakens the review, one of documentation only, one of code.
SomeSettings ==
    {[classes |-> {"source", "review-config"}, skipClasses |-> {"docs"}, skipWhen |-> {},
      certain |-> TRUE, failOn |-> Blocker],
     [classes |-> {"source", "review-config"}, skipClasses |-> {"docs"},
      skipWhen |-> {FALSE, TRUE}, certain |-> TRUE, failOn |-> Nit],
     [classes |-> {"docs"}, skipClasses |-> {"docs"}, skipWhen |-> {},
      certain |-> FALSE, failOn |-> Nit],
     [classes |-> {"source"}, skipClasses |-> {"docs"}, skipWhen |-> {FALSE},
      certain |-> FALSE, failOn |-> Warning]}

SomeReviews ==
    {{}, {<<Other, Nit>>}, {<<Guard, Blocker>>}, {<<Other, Error>>, <<Guard, Blocker>>},
     {<<Other, Error>>}}

Symmetric == Permutations({r1, r2})
=============================================================================
