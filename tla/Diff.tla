-------------------------------- MODULE Diff --------------------------------
(***************************************************************************)
(* The unified diff of one file and the coverage diffscan.Scan reads from  *)
(* it.  An edit tells, line by line, what is kept, taken out and put in.   *)
(* The patch that GitHub gives for it shows the changed lines and Context  *)
(* lines around them, in hunks with a header each.                         *)
(***************************************************************************)
EXTENDS Integers, FiniteSets, SequencesExt

CONSTANT Context    \* lines of context in a hunk

ASSUME ContextAssumption == Context \in Nat \ {0}

Change == {" ", "-", "+"}

-----------------------------------------------------------------------------
(* The edit, and what its diff shows.                                      *)

\* The lines of either side that come before position i of the edit.
OldBefore(edit, i) == Cardinality({j \in 1 .. i - 1 : edit[j] # "+"})
NewBefore(edit, i) == Cardinality({j \in 1 .. i - 1 : edit[j] # "-"})

OldLines(edit) == OldBefore(edit, Len(edit) + 1)
NewLines(edit) == NewBefore(edit, Len(edit) + 1)

InHunk(edit, i) ==
    \E j \in (i - Context) .. (i + Context) : j \in DOMAIN edit /\ edit[j] # " "

\* The lines of either side that a reader of the diff sees, which are those
\* that GitHub accepts a review comment on.
Visible(edit, side) ==
    IF side = "head"
    THEN {NewBefore(edit, i) + 1 : i \in {j \in DOMAIN edit : InHunk(edit, j) /\ edit[j] # "-"}}
    ELSE {OldBefore(edit, i) + 1 : i \in {j \in DOMAIN edit : InHunk(edit, j) /\ edit[j] # "+"}}

-----------------------------------------------------------------------------
(* The patch.                                                              *)

PatchLine(kind) == [kind |-> kind, old |-> 0, new |-> 0]

\* A side without lines starts at 0.
Header(edit, i) ==
    [kind |-> "@@",
     old  |-> IF OldLines(edit) = 0 THEN 0 ELSE OldBefore(edit, i) + 1,
     new  |-> IF NewLines(edit) = 0 THEN 0 ELSE NewBefore(edit, i) + 1]

\* The hunks in order; a last line without a newline is marked after it.
Patch(edit, newline) ==
    FlattenSeq([i \in DOMAIN edit |->
        IF ~InHunk(edit, i) THEN <<>>
        ELSE (IF i = 1 \/ ~InHunk(edit, i - 1) THEN <<Header(edit, i)>> ELSE <<>>)
             \o <<PatchLine(edit[i])>>
             \o (IF i = Len(edit) /\ ~newline THEN <<PatchLine("\\")>> ELSE <<>>)])

-----------------------------------------------------------------------------
(* The scan.                                                               *)

NothingCovered == [seenHunk |-> FALSE, oldLine |-> 0, newLine |-> 0, left |-> {}, right |-> {}]

Entering(cov, header) ==
    [cov EXCEPT !.seenHunk = TRUE, !.oldLine = header.old, !.newLine = header.new]

\* Mutant: a line taken out counts on the new side as well.
ScanLineBothSides(cov, line) ==
    IF line.kind = "@@" THEN Entering(cov, line)
    ELSE IF ~cov.seenHunk THEN cov
    ELSE CASE line.kind = "\\" -> cov
           [] line.kind = "+" -> [cov EXCEPT !.right = @ \cup {cov.newLine}, !.newLine = @ + 1]
           [] line.kind = "-" -> [cov EXCEPT !.left = @ \cup {cov.oldLine}, !.oldLine = @ + 1,
                                             !.newLine = @ + 1]
           [] line.kind = " " -> [cov EXCEPT !.left = @ \cup {cov.oldLine}, !.oldLine = @ + 1,
                                             !.right = @ \cup {cov.newLine}, !.newLine = @ + 1]

ScanLine(cov, line) ==
    IF line.kind = "@@" THEN Entering(cov, line)
    ELSE IF ~cov.seenHunk THEN cov
    ELSE CASE line.kind = "\\" -> cov
           [] line.kind = "+" -> [cov EXCEPT !.right = @ \cup {cov.newLine}, !.newLine = @ + 1]
           [] line.kind = "-" -> [cov EXCEPT !.left = @ \cup {cov.oldLine}, !.oldLine = @ + 1]
           [] line.kind = " " -> [cov EXCEPT !.left = @ \cup {cov.oldLine}, !.oldLine = @ + 1,
                                             !.right = @ \cup {cov.newLine}, !.newLine = @ + 1]

Scan(patch) == FoldLeft(ScanLine, NothingCovered, patch)
=============================================================================
