----------------------------- MODULE Grounding -----------------------------
(***************************************************************************)
(* What the runtime checks by itself of the findings of one persona before *)
(* any verifier sees them (mechanicalValidate in internal/runner): that    *)
(* each quote is in the file, that a line anchor lies in the diff, and     *)
(* that a suggested fix fits the file; then where internal/post places the *)
(* findings that are accepted.  Truncation is modelled in Verify.          *)
(*                                                                         *)
(* A line of text is its indentation and the text that trimming leaves.    *)
(* ContentStore shows that a settled entry answers alike for a whole run,  *)
(* so whether a file can be read at a commit is fixed here.                *)
(***************************************************************************)
EXTENDS Diff

CONSTANTS
    Path,
    Pad,            \* the indentations of lines
    Text,           \* what trimming leaves of lines
    Scenarios       \* sets of inputs: pull requests with the answer of a persona

Blank == ""
Side == {"head", "base"}    \* anchor.ref; an absent one is treated as "head"

Line == [pad : Pad, text : Text]

\* A file of the repository: its lines at either commit, whether the last one
\* ends in a newline, how the pull request edits it, whether it is among the
\* pull request's files and comes with a patch there, and the commits it can
\* be read at.
File == [lines : [Side -> Seq(Line)], newline : BOOLEAN, edit : Seq(Change),
         changed : BOOLEAN, patched : BOOLEAN, readable : SUBSET Side]

\* The edit leads from the lines at the base to those at the head.
Fits(edit, lines) ==
    /\ OldLines(edit) = Len(lines["base"]) /\ NewLines(edit) = Len(lines["head"])
    /\ \A i \in DOMAIN edit : edit[i] = " " =>
          lines["base"][OldBefore(edit, i) + 1] = lines["head"][NewBefore(edit, i) + 1]

\* An author is an agent, config-guard's model pass, or code.  The schema bounds
\* line numbers below by 1 and relates no two of them; 0 stands for an absent
\* one and, in a fix, for no fix at all.
Entry   == [path : Path, start : Nat, end : Nat, source : Seq(Line)]
Anchor  == [kind : {"line", "file", "pr"}, path : Path, start : Nat, end : Nat, ref : Side]
Finding == [author : {"agent", "judgment", "fact"}, anchor : Anchor,
            evidence : Seq(Entry), fix : [start : Nat, end : Nat]]

NoFix == [start |-> 0, end |-> 0]

ASSUME TextAssumption == "" \in Pad /\ Blank \in Text
ASSUME InputAssumption == \A scenario \in Scenarios : \A i \in scenario :
    /\ i.files \in [Path -> File]
    /\ \A p \in Path : LET file == i.files[p] IN
        /\ Fits(file.edit, file.lines)
        /\ file.patched => file.changed
        /\ ~file.changed => Range(file.edit) \subseteq {" "}
    /\ i.isFork \in BOOLEAN
    /\ i.answer \in Seq(Finding) /\ i.answer # <<>>

VARIABLES
    files, isFork, answer,  \* the input
    stage,
    coverage,       \* what the patches cover, for the files that have one
    at,             \* the finding that is being validated
    findings,       \* the findings as validation leaves them
    fate,           \* of each finding: pending, surviving or dropped
    posted          \* the comments that accepted findings become

input == <<files, isFork, answer>>
vars == <<input, stage, coverage, at, findings, fate, posted>>

Init ==
    /\ \E scenario \in Scenarios : \E i \in scenario :
        files = i.files /\ isFork = i.isFork /\ answer = i.answer
    /\ stage = "scan"
    /\ coverage = <<>>
    /\ at = 1
    /\ findings = answer
    /\ fate = [i \in DOMAIN answer |-> "pending"]
    /\ posted = <<>>

-----------------------------------------------------------------------------
(* The diff, once for all personas.                                        *)

ScanFiles ==
    /\ stage = "scan"
    /\ coverage' = [p \in {q \in Path : files[q].patched} |->
                        Scan(Patch(files[p].edit, files[p].newline))]
    /\ stage' = "ground"
    /\ UNCHANGED <<input, at, findings, fate, posted>>

-----------------------------------------------------------------------------
(* Evidence.                                                               *)

\* What ContentStore.Get returns, split at the newlines: after a last newline
\* there is one more line, which is empty.
Contents(p, side) ==
    LET lines == files[p].lines[side]
    IN  IF files[p].newline \/ lines = <<>>
        THEN Append(lines, [pad |-> "", text |-> Blank])
        ELSE lines

TrimEachLine(lines) == [i \in DOMAIN lines |-> lines[i].text]

\* Trimmed, and without the blank lines around it.
NormalizeQuote(lines) ==
    LET solid == {i \in DOMAIN lines : lines[i].text # Blank}
    IN  IF solid = {} THEN <<>>
        ELSE SubSeq(TrimEachLine(lines), Min(solid), Max(solid))

NotFound == 0

WindowMatches(text, quote, start) ==
    \A i \in DOMAIN quote : text[start + i - 1] = quote[i]

\* Mutants: the window never reaches the last line; the first occurrence wins
\* over the line that was cited.
LocateQuoteShort(text, quote, cited) ==
    LET starts == {s \in 1 .. Len(text) - Len(quote) : WindowMatches(text, quote, s)}
    IN  IF starts = {} THEN NotFound ELSE IF cited \in starts THEN cited ELSE Min(starts)

LocateQuoteFirst(text, quote, cited) ==
    LET starts == {s \in 1 .. Len(text) - Len(quote) + 1 : WindowMatches(text, quote, s)}
    IN  IF starts = {} THEN NotFound ELSE Min(starts)

\* The cited line if the quote is there, else the first place it is at.
LocateQuote(text, quote, cited) ==
    LET starts == {s \in 1 .. Len(text) - Len(quote) + 1 : WindowMatches(text, quote, s)}
    IN  IF starts = {} THEN NotFound ELSE IF cited \in starts THEN cited ELSE Min(starts)

GroundEntry(e, side) ==
    LET quote == NormalizeQuote(e.source)
    IN  IF side \notin files[e.path].readable \/ quote = <<>> THEN NotFound
        ELSE LocateQuote(TrimEachLine(Contents(e.path, side)), quote, e.start)

Other(side) == CHOOSE s \in Side : s # side

\* Mutant: any quote may come from either commit.
SidesBoth(f) == <<f.anchor.ref, Other(f.anchor.ref)>>

\* The commits a quote may come from, in the order they are tried: the model
\* pass of config-guard is shown both.
Sides(f) ==
    IF f.author = "judgment" THEN <<f.anchor.ref, Other(f.anchor.ref)>> ELSE <<f.anchor.ref>>

\* Where an entry is, at the first commit it is found at.
Place(f, e) ==
    LET hits == {n \in DOMAIN Sides(f) : GroundEntry(e, Sides(f)[n]) # NotFound}
    IN  IF hits = {} THEN NotFound ELSE GroundEntry(e, Sides(f)[Min(hits)])

Corrected(e, start) ==
    [e EXCEPT !.start = start, !.end = start + Len(NormalizeQuote(e.source)) - 1]

NeedsEvidence(f) == f.author # "fact"
Grounded(f) == \A i \in DOMAIN f.evidence : Place(f, f.evidence[i]) # NotFound

Proceed ==
    /\ at' = at + 1
    /\ stage' = IF at < Len(answer) THEN "ground" ELSE "post"

GroundEvidence ==
    LET f == findings[at] IN
    /\ stage = "ground"
    /\ IF NeedsEvidence(f) /\ ~Grounded(f)
       THEN fate' = [fate EXCEPT ![at] = "dropped"] /\ Proceed /\ UNCHANGED findings
       ELSE /\ findings' = IF NeedsEvidence(f)
                           THEN [findings EXCEPT ![at].evidence =
                                    [i \in DOMAIN @ |-> Corrected(@[i], Place(f, @[i]))]]
                           ELSE findings
            /\ stage' = "anchor"
            /\ UNCHANGED <<at, fate>>
    /\ UNCHANGED <<input, coverage, posted>>

-----------------------------------------------------------------------------
(* The anchor and the fix.                                                 *)

Lines(p, side) == IF side = "base" THEN coverage[p].left ELSE coverage[p].right

Covered(a) == a.path \in DOMAIN coverage /\ a.start .. a.end \subseteq Lines(a.path, a.ref)

Demoted(a) == [a EXCEPT !.kind = IF files[a.path].changed THEN "file" ELSE "pr",
                        !.start = 0, !.end = 0]

ValidateAnchor ==
    /\ stage = "anchor"
    /\ findings' = [findings EXCEPT ![at].anchor =
                        IF @.kind = "line" /\ ~Covered(@) THEN Demoted(@) ELSE @]
    /\ stage' = "fix"
    /\ UNCHANGED <<input, coverage, at, fate, posted>>

Applies(fix, p) ==
    /\ "head" \in files[p].readable
    /\ 1 =< fix.start /\ fix.start =< fix.end /\ fix.end =< Len(Contents(p, "head"))

DryRunSuggestedFix ==
    /\ stage = "fix"
    /\ findings' = [findings EXCEPT ![at].fix =
                        IF Applies(@, findings[at].anchor.path) THEN @ ELSE NoFix]
    /\ fate' = [fate EXCEPT ![at] = "survives"]
    /\ Proceed
    /\ UNCHANGED <<input, coverage, posted>>

-----------------------------------------------------------------------------
(* Placement.                                                              *)

Surface(a) ==
    CASE a.kind = "line" -> "line"
      [] a.kind = "file" /\ files[a.path].changed -> "file"
      [] OTHER -> "summary"

\* Whether the fix is rendered as a block that one click commits.
Committable(f) == f.fix # NoFix /\ ~isFork

\* A comment on lines is about those from its first to its last, and a
\* suggestion in it replaces them.
Comment(f) ==
    [surface    |-> Surface(f.anchor),
     path       |-> f.anchor.path,
     side       |-> f.anchor.ref,
     first      |-> f.anchor.start,
     last       |-> f.anchor.end,
     suggestion |-> Committable(f)]

\* Of the findings that survive, the lenses, the caps and what is already on
\* the pull request leave some.
Post ==
    /\ stage = "post"
    /\ \E accepted \in SUBSET {i \in DOMAIN findings : fate[i] = "survives"} :
        posted' = [i \in accepted |-> Comment(findings[i])]
    /\ stage' = "done"
    /\ UNCHANGED <<input, coverage, at, findings, fate>>

-----------------------------------------------------------------------------
Terminated == stage = "done" /\ UNCHANGED vars

Next ==
    \/ ScanFiles
    \/ GroundEvidence
    \/ ValidateAnchor
    \/ DryRunSuggestedFix
    \/ Post
    \/ Terminated

Spec == Init /\ [][Next]_vars

-----------------------------------------------------------------------------
TypeOK ==
    /\ stage \in {"scan", "ground", "anchor", "fix", "post", "done"}
    /\ at \in 1 .. Len(answer) + 1
    /\ (at > Len(answer)) <=> (stage \in {"post", "done"})
    /\ findings \in Seq(Finding) /\ Len(findings) = Len(answer)
    /\ fate \in [DOMAIN answer -> {"pending", "survives", "dropped"}]
    /\ DOMAIN posted \subseteq {i \in DOMAIN answer : fate[i] = "survives"}

\* What a reader finds in the file at a commit, indentation aside.
TextAt(p, side) == TrimEachLine(Contents(p, side))

IsAt(quote, text, start) ==
    /\ 1 =< start /\ start + Len(quote) - 1 =< Len(text)
    /\ SubSeq(text, start, start + Len(quote) - 1) = quote

Occurs(quote, text) ==
    \E i, j \in 0 .. Len(text) :
        text = SubSeq(text, 1, i) \o quote \o SubSeq(text, j + 1, Len(text))

\* The commits whose files an author is shown: an agent reads one of them, the
\* model pass of config-guard judges a diff.
Shown(f) == IF f.author = "judgment" THEN Side ELSE {f.anchor.ref}

Survives(i) == fate[i] = "survives" /\ NeedsEvidence(answer[i])

\* Whatever line numbers came with it, every quote of a finding that survives
\* is in the file, at the lines the finding now cites, at a commit its author
\* was shown.
QuotesAreReal ==
    \A i \in DOMAIN answer : Survives(i) =>
        \A j \in DOMAIN answer[i].evidence :
            LET e     == findings[i].evidence[j]
                quote == NormalizeQuote(answer[i].evidence[j].source)
            IN  /\ quote # <<>> /\ e.path = answer[i].evidence[j].path
                /\ \E side \in Shown(answer[i]) :
                    /\ side \in files[e.path].readable
                    /\ IsAt(quote, TextAt(e.path, side), e.start)
                /\ e.end = e.start + Len(quote) - 1

\* What section 6.2 of the specification asks of a quote: it is, byte for byte,
\* the text of the file at the stated lines.
ByteMatches(e, side) ==
    /\ side \in files[e.path].readable
    /\ 1 =< e.start /\ e.end = e.start + Len(e.source) - 1
    /\ e.end =< Len(Contents(e.path, side))
    /\ SubSeq(Contents(e.path, side), e.start, e.end) = e.source

\* A finding is dropped only if one of its quotes is blank, or byte-matches the
\* file at the stated lines at no commit its author was shown: a finding that
\* the specification admits is not lost, wherever in the file it quotes, with
\* blank lines around the quote or text that occurs twice.  (The converse of
\* the specification's rule, that a mismatch is dropped, is not what the code
\* does: groundEvidence says why.)
TrueQuotesSurvive ==
    \A i \in DOMAIN answer : fate[i] = "dropped" =>
        \E j \in DOMAIN answer[i].evidence :
            LET e == answer[i].evidence[j] IN
            \/ NormalizeQuote(e.source) = <<>>
            \/ \A side \in Shown(answer[i]) : ~ByteMatches(e, side)

\* The rule of groundEvidence instead: a finding is dropped only if one of its
\* quotes is blank, or is nowhere in the file at any commit its author was
\* shown and that can be read.  (Proved in GroundingProofs; no run checks it.)
OnlyInventedIsDropped ==
    \A i \in DOMAIN answer : fate[i] = "dropped" =>
        \E j \in DOMAIN answer[i].evidence :
            LET e     == answer[i].evidence[j]
                quote == NormalizeQuote(e.source)
            IN  quote = <<>> \/ \A side \in Shown(answer[i]) :
                    side \in files[e.path].readable => ~Occurs(quote, TextAt(e.path, side))

\* A quote whose text begins at the cited line, at the anchor's commit, is not
\* moved to another place with the same text.  (The cited line of a quote that
\* begins with blank lines is that of the first, so such a quote can move.)
CitedStays ==
    \A i \in DOMAIN answer : Survives(i) =>
        \A j \in DOMAIN answer[i].evidence :
            LET e     == answer[i].evidence[j]
                quote == NormalizeQuote(e.source)
                ref   == answer[i].anchor.ref
            IN  /\ ref \in files[e.path].readable
                /\ IsAt(quote, TextAt(e.path, ref), e.start)
                => findings[i].evidence[j].start = e.start

\* A finding on a range of lines is posted on exactly that range if the diff
\* shows all of it on the anchor's side, and is not posted on lines otherwise:
\* GitHub refuses a whole review for one comment outside the diff, and no
\* finding loses its place to an error in the arithmetic of hunks.  The lines
\* must be in order for that: nothing checks that they are.
AnchorsMatchTheDiff ==
    \A i \in DOMAIN posted :
        LET a == answer[i].anchor
            shown == /\ files[a.path].patched
                     /\ a.start .. a.end \subseteq Visible(files[a.path].edit, a.ref)
        IN  a.kind = "line" /\ a.start =< a.end =>
                IF shown
                THEN /\ posted[i].surface = "line" /\ posted[i].side = a.ref
                     /\ posted[i].first = a.start /\ posted[i].last = a.end
                ELSE posted[i].surface # "line"

-----------------------------------------------------------------------------
(* What the documents say and the code does otherwise.                     *)

\* Section 6.2: a suggested fix must apply cleanly to the anchored lines at the
\* head.  On GitHub a suggestion replaces the lines of its comment.
SuggestionsFitTheirLines ==
    \A i \in DOMAIN posted :
        posted[i].surface = "line" /\ posted[i].suggestion =>
            /\ posted[i].side = "head"
            /\ findings[i].fix = [start |-> posted[i].first, end |-> posted[i].last]
=============================================================================
