----------------------------- MODULE MCPosting -----------------------------
(***************************************************************************)
(* An instance of Posting: two runs that report overlapping findings in    *)
(* different places, with one retry of a call.                             *)
(***************************************************************************)
EXTENDS Posting, TLC

CONSTANTS r1, r2

F(id, fp, severity, place) ==
    [id |-> id, fp |-> fp, severity |-> severity, place |-> place]

\* The cap on nits cuts the first and the last: the one on lines only, the
\* other on lines and on files apart.
OnLines == {F(1, "p", Nit, "line"), F(2, "q", Nit, "line"), F(3, "s", Blocker, "line")}
OnFiles == {F(1, "q", Nit, "file"), F(2, "s", Blocker, "file"), F(3, "p", Blocker, "file")}
OnBoth  == {F(1, "p", Nit, "line"), F(2, "q", Nit, "file"), F(3, "s", Error, "summary")}

Overlapping == {OnLines, OnFiles, OnBoth}

Caps == [s \in Severity |-> IF s = Error THEN 0 ELSE 1]
=============================================================================
