---------------------------- MODULE MCGrounding ----------------------------
(***************************************************************************)
(* Instances of Grounding: small edits of one file, next to a file that    *)
(* the pull request leaves alone and one that is not there, and answers    *)
(* that vary in what they quote, where they point or what they suggest.    *)
(***************************************************************************)
EXTENDS Grounding

Paths == {"edited", "other", "missing"}
Pads  == {"", "  "}
Texts == {Blank, "a", "b"}

\* Letters are indented in the file; a quote keeps the indentation or loses it.
L(text) == [pad |-> IF text = Blank THEN "" ELSE "  ", text |-> text]
Verbatim(texts) == [i \in DOMAIN texts |-> L(texts[i])]
Reflowed(texts) == [i \in DOMAIN texts |-> [pad |-> "", text |-> texts[i]]]

Op(kind, text) == [kind |-> kind, line |-> L(text)]

UpTo(S, n) == UNION {[1 .. k -> S] : k \in 0 .. n}

Everywhere == {"head", "base"}

LinesOf(ops, without) ==
    LET side == SelectSeq(ops, LAMBDA op : op.kind # without) IN [i \in DOMAIN side |-> side[i].line]

FileOf(ops, newline, changed, patched, readable) ==
    [lines |-> [s \in Side |-> LinesOf(ops, IF s = "head" THEN "-" ELSE "+")],
     newline |-> newline, edit |-> [i \in DOMAIN ops |-> ops[i].kind],
     changed |-> changed, patched |-> patched, readable |-> readable]

Edited(ops, newline, patched, readable) == FileOf(ops, newline, TRUE, patched, readable)
Untouched(ops, readable) == FileOf(ops, TRUE, FALSE, FALSE, readable)

Repo(edited) ==
    [p \in Paths |->
        CASE p = "edited"  -> edited
          [] p = "other"   -> Untouched(<<Op(" ", "b")>>, Everywhere)
          [] p = "missing" -> Untouched(<<>>, {})]

E(path, start, source) ==
    [path |-> path, start |-> start, end |-> start + Len(source) - 1, source |-> source]
A(kind, path, start, end, ref) ==
    [kind |-> kind, path |-> path, start |-> start, end |-> end, ref |-> ref]
F(author, anchor, evidence, fix) ==
    [author |-> author, anchor |-> anchor, evidence |-> evidence, fix |-> fix]

Input(edited, fork, ans) == [files |-> Repo(edited), isFork |-> fork, answer |-> ans]

\* Every quote of up to three lines against every file of up to three.
Quoting ==
    {Input(Edited(edit, newline, FALSE, Everywhere), FALSE,
           <<F(author, A("file", "edited", 0, 0, ref), <<E("edited", cited, source)>>, NoFix)>>) :
        edit    \in UpTo({Op(k, t) : k \in Change, t \in {Blank, "a"}}, 2)
                   \cup UpTo({Op(" ", t) : t \in {Blank, "a"}}, 3),
        newline \in BOOLEAN,
        author \in {"agent", "judgment"}, ref \in Side, cited \in 1 .. 3,
        source  \in UNION {{Verbatim(t), Reflowed(t)} : t \in {u \in UpTo({Blank, "a"}, 3) : u # <<>>}}}

\* Quotes of several files that can be read, or not, at either commit.
SomeEdit == <<Op(" ", "a"), Op("-", "b"), Op("+", "a"), Op("+", Blank), Op("+", "b"), Op(" ", "a")>>
Entries  == {E(p, cited, source) : p \in Paths, cited \in {1, 5}, source \in {Verbatim(<<"b">>), Reflowed(<<"a", "b">>), Verbatim(<<"b", "a">>)}}
Reading ==
    {Input(Edited(SomeEdit, FALSE, TRUE, readable), FALSE,
           <<F(author, A("line", "edited", 2, 2, ref), <<e1, e2>>, [start |-> 2, end |-> 3])>>) :
        readable \in SUBSET Side, author \in {"agent", "judgment", "fact"}, ref \in Side,
        e1 \in Entries, e2 \in Entries}

\* Every range of lines over every shape of edit of up to five lines.
Anchoring ==
    {Input(Edited([i \in DOMAIN kinds |-> Op(kinds[i], "a")], Len(kinds) < 5, TRUE, Everywhere), FALSE,
           <<F("fact", A("line", "edited", start, end, ref), <<>>, NoFix)>>) :
        kinds \in {k \in UpTo(Change, 5) : \E i \in DOMAIN k : k[i] # " "},
        ref \in Side, start \in {1, 2, 4}, end \in {0, 1, 2, 3, 5}}

\* Anchors and fixes that fit one another or not, and answers of two findings
\* that are validated one after the other.
Pointing ==
    {F(author, A(kind, p, start, end, ref), <<E("edited", 1, Reflowed(source))>>, fix) :
        author \in {"agent", "fact"}, kind \in {"line", "file", "pr"}, p \in {"edited", "other"},
        start \in {1, 2}, end \in {2}, ref \in Side, source \in {<<"a">>, <<"b", "b">>},
        fix \in {NoFix, [start |-> 2, end |-> 2], [start |-> 2, end |-> 1], [start |-> 1, end |-> 9]}}

Suggesting ==
    {Input(Edited(SomeEdit, FALSE, TRUE, Everywhere), fork, <<f>>) : fork \in BOOLEAN, f \in Pointing}
    \cup {Input(Edited(SomeEdit, TRUE, patched, Everywhere), FALSE, <<f, g>>) :
            patched \in BOOLEAN, f \in {h \in Pointing : h.anchor.start = 1 /\ h.fix = NoFix},
            g \in {h \in Pointing : h.anchor.path = "edited" /\ h.anchor.ref = "head" /\ h.fix.end = 2}}

SomeScenarios == {Quoting, Reading, Anchoring, Suggesting}
=============================================================================
