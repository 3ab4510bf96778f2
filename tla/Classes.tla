------------------------------ MODULE Classes ------------------------------
(***************************************************************************)
(* The class of a changed file (internal/classes), which decides whether   *)
(* tier 0 may skip a review and whether config-guard is called.  A file is *)
(* its evidence: which path sets it belongs to, what its contents show and *)
(* which docs globs match it.                                              *)
(***************************************************************************)
EXTENDS Integers, Sequences

CONSTANT Glob        \* the globs that docs_globs may list

Class == {"review-config", "ci-config", "deps", "generated", "docs", "test", "source"}

\* manifest says what the structural comparison of a dependency manifest with
\* its base shows; "unknown" stands for contents that cannot be read or parsed.
File ==
    [reviewPath : BOOLEAN,      \* .github/agentic-review/**, or the invoking workflow
     ciPath     : BOOLEAN,
     lockfile   : BOOLEAN,
     manifest   : {"none", "version only", "other", "unknown"},
     attributes : Seq(BOOLEAN), \* what the matching .gitattributes rules say, in order
     marker     : BOOLEAN,      \* a generated marker in the first lines that could be read
     buildPath  : BOOLEAN,      \* a default glob of generated files
     docs       : SUBSET Glob,
     testPath   : BOOLEAN]

IsDeps(file) == file.lockfile \/ file.manifest = "version only"

\* gitattributes.Set.Generated: the last matching rule speaks.
Attributed(file) == file.attributes[Len(file.attributes)]

\* The attributes overrule the marker and the globs either way.
IsGenerated(file) ==
    IF file.attributes # <<>> THEN Attributed(file) ELSE file.marker \/ file.buildPath

\* The first detector that claims the file, in this order.
Classify(file, docsGlobs) ==
    IF file.reviewPath THEN "review-config"
    ELSE IF file.ciPath THEN "ci-config"
    ELSE IF IsDeps(file) THEN "deps"
    ELSE IF IsGenerated(file) THEN "generated"
    ELSE IF file.docs \cap docsGlobs # {} THEN "docs"
    ELSE IF file.testPath THEN "test"
    ELSE "source"

ClassesOf(diff, docsGlobs) == {Classify(file, docsGlobs) : file \in diff}
=============================================================================
