---------------------------- MODULE PostingProofs ----------------------------
(***************************************************************************)
(* What holds on the pull request for any number of overlapping runs, any  *)
(* findings, caps and retries, and any failures and crashes.  First the    *)
(* counting behind the caps, then the histories, then the invariant that   *)
(* says what a run has posted at each of its steps.                        *)
(***************************************************************************)
EXTENDS Posting, SequenceTheorems, FiniteSetTheorems, TLAPS

-----------------------------------------------------------------------------
(* Counting findings by their place in emission order.                     *)

Distinct(S) == \A f, g \in S : f.id = g.id \/ f.fp = g.fp => f = g

Earlier(f, S) == {g \in S : g.id < f.id}

LEMMA RankType ==
    ASSUME NEW S, IsFiniteSet(S), NEW f
    PROVE  IsFiniteSet(Earlier(f, S)) /\ Cardinality(Earlier(f, S)) \in Nat
<1>1. Earlier(f, S) \in SUBSET S
  BY DEF Earlier
<1> QED
  BY <1>1, FS_Subset, FS_CardinalityType

\* Of two findings the later has more before it.
LEMMA RanksAscend ==
    ASSUME NEW S \in SUBSET Finding, IsFiniteSet(S), NEW f \in S, NEW g \in S, f.id < g.id
    PROVE  Cardinality(Earlier(f, S)) < Cardinality(Earlier(g, S))
<1>1. f.id \in Nat /\ g.id \in Nat /\ \A h \in S : h.id \in Nat
  BY DEF Finding
<1>2. Earlier(f, S) \in SUBSET Earlier(g, S)
  BY <1>1 DEF Earlier
<1>3. f \in Earlier(g, S) /\ f \notin Earlier(f, S)
  BY <1>1 DEF Earlier
<1>4. /\ Cardinality(Earlier(f, S)) =< Cardinality(Earlier(g, S))
      /\ Cardinality(Earlier(f, S)) # Cardinality(Earlier(g, S))
  BY <1>2, <1>3, RankType, FS_Subset
<1> QED
  BY <1>4, RankType

\* No more than n findings have fewer than n before them.
LEMMA FewAreFirst ==
    ASSUME NEW S \in SUBSET Finding, IsFiniteSet(S), Distinct(S), NEW n \in Nat,
           NEW T \in SUBSET S, \A f \in T : Cardinality(Earlier(f, S)) < n
    PROVE  Cardinality(T) =< n
<1> DEFINE rank == [f \in T |-> Cardinality(Earlier(f, S))]
<1>1. rank \in [T -> 0 .. n - 1]
  BY RankType
<1>2. \A f, g \in T : rank[f] = rank[g] => f = g
  <2> SUFFICES ASSUME NEW f \in T, NEW g \in T, f # g PROVE rank[f] # rank[g]
    OBVIOUS
  <2>1. f.id # g.id /\ f.id \in Nat /\ g.id \in Nat
    BY DEF Distinct, Finding
  <2>2. f.id < g.id \/ g.id < f.id
    BY <2>1
  <2>3. rank[f] < rank[g] \/ rank[g] < rank[f]
    BY <2>2, RanksAscend
  <2>4. rank[f] \in Nat /\ rank[g] \in Nat
    BY RankType
  <2> QED
    BY <2>3, <2>4
<1>3. rank \in Injection(T, 0 .. n - 1)
  BY <1>1, <1>2 DEF Injection, IsInjective
<1>4. IsFiniteSet(0 .. n - 1) /\ Cardinality(0 .. n - 1) = n
  BY FS_Interval
<1> QED
  BY <1>3, <1>4, FS_Injection

LEMMA LeastNatural ==
    ASSUME NEW T \in SUBSET Nat, T # {}
    PROVE  \E x \in T : \A y \in T : x =< y
<1>1. PICK x \in T : \A y \in T : ~(<<y, x>> \in OpToRel(<, Nat))
  BY NatLessThanWellFounded, WFMin
<1>2. \A y \in T : ~(y < x) /\ x \in Nat /\ y \in Nat
  BY <1>1 DEF OpToRel
<1> QED
  BY <1>2

LEMMA LeastId ==
    ASSUME NEW T \in SUBSET Finding, T # {}
    PROVE  \E f \in T : \A g \in T : f.id =< g.id
<1> DEFINE ids == {f.id : f \in T}
<1>1. ids \in SUBSET Nat /\ ids # {}
  BY DEF Finding
<1>2. PICK x \in ids : \A y \in ids : x =< y
  BY <1>1, LeastNatural
<1> QED
  BY <1>2

\* Of n findings or more, at least n have fewer than n before them.
LEMMA FirstOnesFill ==
    ASSUME NEW S \in SUBSET Finding, IsFiniteSet(S), Distinct(S), NEW n \in Nat,
           Cardinality(S) >= n
    PROVE  Cardinality({f \in S : Cardinality(Earlier(f, S)) < n}) >= n
<1> DEFINE first == {f \in S : Cardinality(Earlier(f, S)) < n}
<1>1. first \in SUBSET S /\ IsFiniteSet(first) /\ Cardinality(first) \in Nat
  BY FS_Subset, FS_CardinalityType
<1> SUFFICES ASSUME Cardinality(first) < n PROVE FALSE
  BY <1>1
<1>2. S \ first # {}
  <2>1. Cardinality(S) \in Nat
    BY FS_CardinalityType
  <2>2. S # first
    BY <1>1, <2>1
  <2> QED
    BY <1>1, <2>2
<1>3. PICK f \in S \ first : \A g \in S \ first : f.id =< g.id
  BY <1>2, LeastId
<1>4. Earlier(f, S) \in SUBSET first
  <2> SUFFICES ASSUME NEW g \in Earlier(f, S), g \notin first PROVE FALSE
    OBVIOUS
  <2>1. g \in S \ first /\ g.id < f.id /\ g.id \in Nat /\ f.id \in Nat
    BY DEF Earlier, Finding
  <2> QED
    BY <1>3, <2>1
<1>5. Cardinality(Earlier(f, S)) =< Cardinality(first)
  BY <1>1, <1>4, FS_Subset
<1>6. Cardinality(Earlier(f, S)) < n
  BY <1>1, <1>5, RankType
<1> QED
  BY <1>3, <1>6
-----------------------------------------------------------------------------
(* Histories.                                                              *)

LEMMA PrefixOf ==
    ASSUME NEW s \in Seq(Run), NEW n \in 0 .. Len(s)
    PROVE  /\ SubSeq(s, 1, n) \in Seq(Run)
           /\ Range(SubSeq(s, 1, n)) \subseteq Range(s)
           /\ IsInjective(s) => IsInjective(SubSeq(s, 1, n))
<1> DEFINE t == SubSeq(s, 1, n)
<1>1. Len(s) \in Nat /\ DOMAIN s = 1 .. Len(s) /\ n \in Int /\ 1 \in Int
  BY LenProperties
<1>2. \A i \in 1 .. n : s[i] \in Run
  BY <1>1, ElementOfSeq
<1>3. /\ t \in Seq(Run) /\ Len(t) = IF 1 =< n THEN n - 1 + 1 ELSE 0
      /\ \A i \in 1 .. n - 1 + 1 : t[i] = s[1 + i - 1]
  BY <1>1, <1>2, SubSeqProperties
<1>4. Len(t) = n /\ DOMAIN t = 1 .. n /\ \A i \in 1 .. n : i \in DOMAIN s /\ t[i] = s[i]
  BY <1>1, <1>3, LenProperties
<1> HIDE DEF t
<1> QED
  BY <1>3, <1>4 DEF Range, IsInjective, t

LEMMA FirstBefore ==
    ASSUME NEW s \in Seq(Run), NEW r \in Run
    PROVE  /\ <<r>> \o s \in Seq(Run)
           /\ Range(<<r>> \o s) \subseteq {r} \cup Range(s)
           /\ IsInjective(s) /\ r \notin Range(s) => IsInjective(<<r>> \o s)
<1> DEFINE t == <<r>> \o s
<1>1. <<r>> \in Seq(Run) /\ Len(<<r>>) = 1 /\ <<r>>[1] = r
  OBVIOUS
<1>2. Len(s) \in Nat /\ DOMAIN s = 1 .. Len(s)
  BY LenProperties
<1>3. /\ t \in Seq(Run) /\ Len(t) = 1 + Len(s)
      /\ \A i \in 1 .. 1 + Len(s) : t[i] = IF i =< 1 THEN <<r>>[i] ELSE s[i - 1]
  BY <1>1, ConcatProperties
<1>4. DOMAIN t = 1 .. 1 + Len(s)
  BY <1>3, LenProperties
<1>5. \A i \in DOMAIN t : (i = 1 /\ t[i] = r) \/ (i - 1 \in DOMAIN s /\ t[i] = s[i - 1])
  BY <1>1, <1>2, <1>3, <1>4
<1> HIDE DEF t
<1>6. Range(t) \subseteq {r} \cup Range(s)
  BY <1>5 DEF Range
<1>7. ASSUME IsInjective(s), r \notin Range(s), NEW i \in DOMAIN t, NEW j \in DOMAIN t, t[i] = t[j]
      PROVE  i = j
  <2>1. \A k \in DOMAIN s : s[k] # r
    BY <1>7 DEF Range
  <2>2. i \in Int /\ j \in Int
    BY <1>4
  <2>3. CASE i = 1
    BY <1>5, <1>7, <2>1, <2>3
  <2>4. CASE i # 1
    <3>1. i - 1 \in DOMAIN s /\ t[i] = s[i - 1]
      BY <1>5, <2>4
    <3>2. j - 1 \in DOMAIN s /\ t[j] = s[j - 1]
      BY <1>5, <1>7, <2>1, <3>1
    <3>3. i - 1 = j - 1
      BY <1>7, <3>1, <3>2 DEF IsInjective
    <3> QED
      BY <2>2, <3>3
  <2> QED
    BY <2>3, <2>4
<1> QED
  BY <1>3, <1>6, <1>7 DEF IsInjective, t

LEMMA HistoryFacts ==
    ASSUME NEW r \in Run, prior[r] \in Seq(Run)
    PROVE  /\ History(r) \in Seq(Run)
           /\ Range(History(r)) \subseteq {r} \cup Range(prior[r])
           /\ IsInjective(prior[r]) /\ r \notin Range(prior[r]) => IsInjective(History(r))
<1> DEFINE entries == IF whole[r] THEN <<r>> \o prior[r] ELSE prior[r]
           n == IF Len(entries) < MaxHistory THEN Len(entries) ELSE MaxHistory
<1>1. /\ entries \in Seq(Run)
      /\ Range(entries) \subseteq {r} \cup Range(prior[r])
      /\ IsInjective(prior[r]) /\ r \notin Range(prior[r]) => IsInjective(entries)
  BY FirstBefore
<1>2. History(r) = SubSeq(entries, 1, n)
  BY DEF History
<1> HIDE DEF entries
<1>3. n \in 0 .. Len(entries)
  BY <1>1, LenProperties, PostingAssumption
<1> HIDE DEF n
<1> QED
  BY <1>1, <1>2, <1>3, PrefixOf

-----------------------------------------------------------------------------
(* The invariant.                                                          *)

Settled(r) == \A f \in ToPost(r, "line") \cup ToPost(r, "file") : created[r][f.fp] > 0

\* Whom a history may list.
Listed(r) == pc[r] \in {"summary", "done", "failed"} /\ Settled(r)

Histories ==
    /\ \A i \in DOMAIN summaries :
        IsInjective(summaries[i]) /\ \A q \in Range(summaries[i]) : Listed(q)
    /\ \A r \in Run :
        IsInjective(prior[r]) /\ r \notin Range(prior[r]) /\ \A q \in Range(prior[r]) : Listed(q)

Reported(r) == IsFiniteSet(findings[r]) /\ Distinct(findings[r])

\* A run adds nothing but what it is to post, once for each attempt.
OnlyToPost(r) ==
    \A p \in Fingerprint : created[r][p] > 0 =>
        /\ created[r][p] =< Retries + 1
        /\ \E f \in ToPost(r, "line") \cup ToPost(r, "file") : f.fp = p

\* What it has added at each step.
AtStep(r) ==
    /\ pc[r] \in {"start", "list"} => \A p \in Fingerprint : created[r][p] = 0
    /\ pc[r] = "review" => \A f \in findings[r] : created[r][f.fp] > 0 =>
            f \in ToPost(r, "line") /\ created[r][f.fp] =< attempt[r]
    /\ pc[r] = "files" =>
        /\ queue[r] \subseteq ToPost(r, "file")
        /\ \A f \in ToPost(r, "line") \cup (ToPost(r, "file") \ queue[r]) : created[r][f.fp] > 0
        /\ \A f \in queue[r] : created[r][f.fp] > 0 =>
            /\ created[r][f.fp] =< attempt[r]
            /\ \A g \in queue[r] : f = g \/ Before(f, g)
    /\ pc[r] \in {"summary", "done"} => Settled(r)

RunInv(r) == Reported(r) /\ seen[r] \subseteq Posted /\ OnlyToPost(r) /\ AtStep(r)

IInv == TypeOK /\ Histories /\ \A r \in Run : RunInv(r)

-----------------------------------------------------------------------------
(* What a step leaves alone.                                               *)

Grows == \A q \in Run : \A p \in Fingerprint : created'[q][p] >= created[q][p]

LEMMA PostedGrows ==
    ASSUME TypeOK, TypeOK', Grows
    PROVE  Posted \subseteq Posted'
<1>1. \A q \in Run : \A p \in Fingerprint :
        created[q][p] \in Nat /\ created'[q][p] \in Nat /\ created'[q][p] >= created[q][p]
  BY DEF TypeOK, Grows
<1>2. \A q \in Run : \A p \in Fingerprint : created[q][p] > 0 => created'[q][p] > 0
  BY <1>1
<1> QED
  BY <1>2 DEF Posted

LEMMA SameToPost ==
    ASSUME NEW q \in Run, findings'[q] = findings[q], seen'[q] = seen[q]
    PROVE  \A place : ToPost(q, place)' = ToPost(q, place)
BY DEF ToPost, Unseen

\* What is to be posted is part of the findings, and in one place.
LEMMA ToPostFacts ==
    ASSUME TypeOK, NEW q \in Run, NEW place
    PROVE  /\ ToPost(q, place) \subseteq findings[q]
           /\ \A f \in ToPost(q, place) :
                f \in Finding /\ f.fp \in Fingerprint /\ f.place = place /\ f.fp \notin seen[q]
BY DEF ToPost, Unseen, TypeOK, Finding

\* A run is not touched by the steps of others.
LEMMA OthersKeep ==
    ASSUME TypeOK, TypeOK', Grows, NEW q \in Run, RunInv(q),
           pc'[q] = pc[q], findings'[q] = findings[q], seen'[q] = seen[q],
           queue'[q] = queue[q], attempt'[q] = attempt[q], created'[q] = created[q]
    PROVE  RunInv(q)'
<1>1. \A place : ToPost(q, place)' = ToPost(q, place)
  BY SameToPost
<1>2. Reported(q)'
  BY DEF RunInv, Reported
<1>3. seen'[q] \subseteq Posted'
  BY PostedGrows DEF RunInv
<1>4. OnlyToPost(q)' /\ AtStep(q)'
  BY <1>1 DEF RunInv, OnlyToPost, AtStep, Settled
<1> QED
  BY <1>2, <1>3, <1>4 DEF RunInv

\* A listed run stays listed.
LEMMA ListedStays ==
    ASSUME TypeOK, TypeOK', Grows, NEW q \in Run, Listed(q),
           findings'[q] = findings[q], seen'[q] = seen[q],
           pc'[q] \in {"summary", "done", "failed"}
    PROVE  Listed(q)'
<1>1. \A place : ToPost(q, place)' = ToPost(q, place)
  BY SameToPost
<1>2. \A f \in ToPost(q, "line") \cup ToPost(q, "file") : f.fp \in Fingerprint
  BY ToPostFacts
<1>3. \A p \in Fingerprint : created[q][p] > 0 => created'[q][p] > 0
  BY DEF TypeOK, Grows
<1> QED
  BY <1>1, <1>2, <1>3 DEF Listed, Settled

\* Histories stay in order when no run is added to any.
LEMMA HistoriesKept ==
    ASSUME Histories, \A q \in Run : Listed(q) => Listed(q)',
           summaries' = summaries, prior' = prior, TypeOK
    PROVE  Histories'
<1>1. \A i \in DOMAIN summaries : summaries[i] \in Seq(Run)
  BY ElementOfSeq, LenProperties DEF TypeOK
<1>2. \A i \in DOMAIN summaries : Range(summaries[i]) \subseteq Run
  BY <1>1, RangeOfSeq
<1>3. \A r \in Run : Range(prior[r]) \subseteq Run
  BY RangeOfSeq DEF TypeOK
<1> QED
  BY <1>2, <1>3 DEF Histories
-----------------------------------------------------------------------------
(* The steps.                                                              *)

LEMMA InitEstablishes == Init => IInv
<1> SUFFICES ASSUME Init PROVE IInv
  OBVIOUS
<1>1. <<>> \in Seq(Run) /\ <<>> \in Seq(Seq(Run)) /\ DOMAIN <<>> = {}
  OBVIOUS
<1>2. \A r \in Run : findings[r] \in Reviews
  BY DEF Init
<1>3. \A r \in Run : Reported(r) /\ findings[r] \subseteq Finding
  BY <1>2, PostingAssumption DEF Reported, Distinct
<1>4. TypeOK
  <2>1. findings \in [Run -> SUBSET Finding]
    BY <1>3, PostingAssumption DEF Init
  <2>2. 0 \in 0 .. Retries
    BY PostingAssumption
  <2> QED
    BY <1>1, <2>1, <2>2 DEF Init, TypeOK, Step
<1>5. Histories
  <2>1. IsInjective(<<>>) /\ Range(<<>>) = {}
    BY <1>1 DEF IsInjective, Range
  <2> QED
    BY <1>1, <2>1 DEF Init, Histories
<1>6. \A r \in Run : OnlyToPost(r) /\ AtStep(r) /\ seen[r] \subseteq Posted
  BY DEF Init, OnlyToPost, AtStep
<1> QED
  BY <1>3, <1>4, <1>5, <1>6 DEF IInv, RunInv

LEMMA BeginKeeps == ASSUME NEW r \in Run, IInv, Begin(r) PROVE IInv'
<1>1. /\ TypeOK /\ Histories /\ pc[r] = "start"
      /\ UNCHANGED <<event, seen, queue, attempt, target, created, summaries>>
  BY DEF IInv, Begin
<1>2. PICK found \in {summaries, <<>>} :
        /\ prior' = [prior EXCEPT ![r] = IF found = <<>> THEN <<>> ELSE Last(found)]
        /\ pc' = [pc EXCEPT ![r] = "skipped"] \/ pc' = [pc EXCEPT ![r] = "list"]
        /\ findings' = findings \/ findings' = [findings EXCEPT ![r] = {}]
        /\ whole' = whole \/ whole' = [whole EXCEPT ![r] = FALSE]
  <2>1. PICK found \in IF event[r] = "summons" THEN {<<>>} ELSE {summaries, <<>>} :
        /\ prior' = [prior EXCEPT ![r] = IF found = <<>> THEN <<>> ELSE Last(found)]
        /\ IF event[r] = "reopened" /\ found # <<>>
           THEN Goto(r, "skipped") /\ UNCHANGED <<whole, findings>>
           ELSE /\ Goto(r, "list")
                /\ \/ UNCHANGED <<whole, findings>>
                   \/ /\ whole' = [whole EXCEPT ![r] = FALSE]
                      /\ findings' = [findings EXCEPT ![r] = {}]
    BY DEF Begin
  <2>2. found \in {summaries, <<>>}
    BY <2>1
  <2> QED
    BY <2>1, <2>2 DEF Goto
<1> DEFINE entries == IF found = <<>> THEN <<>> ELSE Last(found)
<1>3. /\ entries \in Seq(Run)
      /\ entries = <<>> \/ \E i \in DOMAIN summaries : entries = summaries[i]
  <2>1. CASE found = <<>>
    BY <2>1
  <2>2. CASE found # <<>>
    <3>1. summaries \in Seq(Seq(Run)) /\ summaries # <<>> /\ entries = summaries[Len(summaries)]
      BY <1>1, <1>2, <2>2 DEF TypeOK, Last
    <3>2. Len(summaries) \in DOMAIN summaries /\ Len(summaries) \in 1 .. Len(summaries)
      BY <3>1, EmptySeq, LenProperties
    <3> QED
      BY <3>1, <3>2, ElementOfSeq
  <2> QED
    BY <2>1, <2>2
<1> HIDE DEF entries
<1>4. IsInjective(entries) /\ \A q \in Range(entries) : q \in Run /\ Listed(q)
  <2>1. CASE entries = <<>>
    BY <2>1 DEF IsInjective, Range
  <2>2. CASE entries # <<>>
    BY <1>1, <1>3, <2>2, RangeOfSeq DEF Histories
  <2> QED
    BY <2>1, <2>2
<1>5. TypeOK'
  BY <1>1, <1>2, <1>3 DEF TypeOK, Step, entries
<1>6. Grows
  BY <1>1 DEF Grows, TypeOK
<1>7. ~Listed(r)
  BY <1>1 DEF Listed
<1>8. \A q \in Run : Listed(q) => Listed(q)'
  <2> SUFFICES ASSUME NEW q \in Run, Listed(q) PROVE Listed(q)'
    OBVIOUS
  <2>1. q # r /\ pc'[q] = pc[q] /\ findings'[q] = findings[q] /\ seen'[q] = seen[q]
    BY <1>1, <1>2, <1>7 DEF TypeOK
  <2>2. pc'[q] \in {"summary", "done", "failed"}
    BY <2>1 DEF Listed
  <2> QED
    BY <1>1, <1>5, <1>6, <2>1, <2>2, ListedStays
<1>9. Histories'
  <2>1. \A i \in DOMAIN summaries :
            IsInjective(summaries[i]) /\ \A q \in Range(summaries[i]) : Listed(q)'
    <3>1. \A i \in DOMAIN summaries : Range(summaries[i]) \subseteq Run
      <4>1. \A i \in DOMAIN summaries : summaries[i] \in Seq(Run)
        BY <1>1, ElementOfSeq, LenProperties DEF TypeOK
      <4> QED
        BY <4>1, RangeOfSeq
    <3> QED
      BY <1>1, <1>8, <3>1 DEF Histories
  <2>2. ASSUME NEW q \in Run
        PROVE  /\ IsInjective(prior'[q]) /\ q \notin Range(prior'[q])
               /\ \A k \in Range(prior'[q]) : Listed(k)'
    <3>1. CASE q = r
      <4>1. prior'[q] = entries
        BY <1>1, <1>2, <3>1 DEF TypeOK, entries
      <4> QED
        BY <1>4, <1>7, <1>8, <3>1, <4>1
    <3>2. CASE q # r
      <4>1. prior'[q] = prior[q] /\ Range(prior[q]) \subseteq Run
        BY <1>1, <1>2, <3>2, RangeOfSeq DEF TypeOK
      <4> QED
        BY <1>1, <1>8, <4>1 DEF Histories
    <3> QED
      BY <3>1, <3>2
  <2> QED
    BY <1>1, <2>1, <2>2 DEF Histories
<1>10. ASSUME NEW q \in Run PROVE RunInv(q)'
  <2>1. CASE q = r
    <3>1. RunInv(r) /\ \A p \in Fingerprint : created[r][p] = 0
      BY <1>1 DEF IInv, RunInv, AtStep
    <3>2. findings'[r] = findings[r] \/ findings'[r] = {}
      BY <1>1, <1>2 DEF TypeOK
    <3>3. Reported(r)'
      BY <3>1, <3>2, FS_EmptySet DEF RunInv, Reported, Distinct
    <3>4. pc'[r] \in {"skipped", "list"}
      BY <1>1, <1>2 DEF TypeOK
    <3>5. OnlyToPost(r)' /\ AtStep(r)'
      BY <1>1, <3>1, <3>4 DEF OnlyToPost, AtStep
    <3>6. seen'[r] \subseteq Posted'
      BY <1>1, <3>1 DEF RunInv, Posted
    <3> QED
      BY <2>1, <3>3, <3>5, <3>6 DEF RunInv
  <2>2. CASE q # r
    <3>1. /\ pc'[q] = pc[q] /\ findings'[q] = findings[q] /\ seen'[q] = seen[q]
          /\ queue'[q] = queue[q] /\ attempt'[q] = attempt[q] /\ created'[q] = created[q]
      BY <1>1, <1>2, <2>2 DEF TypeOK
    <3> QED
      BY <1>5, <1>6, <3>1, OthersKeep DEF IInv
  <2> QED
    BY <2>1, <2>2
<1> QED
  BY <1>5, <1>9, <1>10 DEF IInv
LEMMA ListKeeps == ASSUME NEW r \in Run, IInv, ListReviewComments(r) PROVE IInv'
<1>1. /\ TypeOK /\ Histories /\ pc[r] = "list" /\ RunInv(r)
      /\ UNCHANGED <<run, prior, whole, queue, attempt, target, created, summaries>>
      /\ \/ seen' = [seen EXCEPT ![r] = Posted] /\ pc' = [pc EXCEPT ![r] = "review"]
         \/ seen' = seen /\ pc' = [pc EXCEPT ![r] = "failed"]
  BY DEF IInv, ListReviewComments, Goto
<1>2. TypeOK'
  BY <1>1 DEF TypeOK, Step, Posted, run
<1>3. Grows
  BY <1>1 DEF Grows, TypeOK
<1>4. \A q \in Run : q # r => pc'[q] = pc[q] /\ seen'[q] = seen[q]
  BY <1>1 DEF TypeOK
<1>5. Histories'
  <2>1. \A q \in Run : Listed(q) => Listed(q)'
    <3> SUFFICES ASSUME NEW q \in Run, Listed(q) PROVE Listed(q)'
      OBVIOUS
    <3>1. q # r /\ pc'[q] \in {"summary", "done", "failed"}
      BY <1>1, <1>4 DEF Listed
    <3> QED
      BY <1>1, <1>2, <1>3, <1>4, <3>1, ListedStays DEF run
  <2> QED
    BY <1>1, <2>1, HistoriesKept
<1>6. ASSUME NEW q \in Run PROVE RunInv(q)'
  <2>1. CASE q = r
    <3>1. \A p \in Fingerprint : created'[r][p] = 0
      BY <1>1 DEF RunInv, AtStep
    <3>2. Reported(r)' /\ seen'[r] \subseteq Posted'
      BY <1>1 DEF RunInv, Reported, run, Posted, TypeOK
    <3>3. pc'[r] \in {"review", "failed"} /\ findings'[r] \subseteq Finding
      BY <1>1 DEF TypeOK, run
    <3>4. OnlyToPost(r)'
      BY <3>1 DEF OnlyToPost
    <3>5. AtStep(r)'
      BY <3>1, <3>3 DEF AtStep, Finding
    <3> QED
      BY <2>1, <3>2, <3>4, <3>5 DEF RunInv
  <2>2. CASE q # r
    BY <1>1, <1>2, <1>3, <1>4, <2>2, OthersKeep DEF IInv, run
  <2> QED
    BY <2>1, <2>2
<1> QED
  BY <1>2, <1>5, <1>6 DEF IInv

\* What Answered does: one more attempt, or the end of the call.
LEMMA AnsweredFacts ==
    ASSUME TypeOK, NEW r \in Run, NEW response \in Response, NEW next \in Step,
           Answered(r, response, next)
    PROVE  /\ attempt' \in [Run -> 0 .. Retries] /\ pc' \in [Run -> Step]
           /\ \A q \in Run : q # r => pc'[q] = pc[q] /\ attempt'[q] = attempt[q]
           /\ \/ response = "retry" /\ pc'[r] = pc[r] /\ attempt'[r] = attempt[r] + 1
              \/ response = "ok" /\ pc'[r] = next
              \/ pc'[r] = "failed"
<1>1. attempt \in [Run -> 0 .. Retries] /\ pc \in [Run -> Step] /\ Retries \in Nat
  BY PostingAssumption DEF TypeOK
<1>2. CASE response = "retry" /\ attempt[r] < Retries
  <2>1. attempt' = [attempt EXCEPT ![r] = @ + 1] /\ pc' = pc
    BY <1>2 DEF Answered
  <2>2. attempt[r] + 1 \in 0 .. Retries
    BY <1>1, <1>2
  <2> QED
    BY <1>1, <1>2, <2>1, <2>2
<1>3. CASE ~(response = "retry" /\ attempt[r] < Retries)
  <2>1. /\ attempt' = [attempt EXCEPT ![r] = 0]
        /\ pc' = [pc EXCEPT ![r] = IF response = "ok" THEN next ELSE "failed"]
    BY <1>3 DEF Answered, Goto
  <2>2. 0 \in 0 .. Retries /\ "failed" \in Step
    BY <1>1 DEF Step
  <2> QED
    BY <1>1, <2>1, <2>2
<1> QED
  BY <1>2, <1>3

LEMMA WithCommentsFacts ==
    ASSUME TypeOK, NEW r \in Run, NEW fps
    PROVE  LET new == WithComments(r, fps)
           IN  /\ new \in [Run -> [Fingerprint -> Nat]]
               /\ \A q \in Run : q # r => new[q] = created[q]
               /\ \A p \in Fingerprint :
                    new[r][p] = IF p \in fps THEN created[r][p] + 1 ELSE created[r][p]
BY DEF WithComments, TypeOK

LEMMA CreateReviewKeeps == ASSUME NEW r \in Run, IInv, CreateReview(r) PROVE IInv'
<1> DEFINE line == ToPost(r, "line")
           file == ToPost(r, "file")
<1>1. /\ TypeOK /\ Histories /\ pc[r] = "review" /\ RunInv(r)
      /\ queue' = [queue EXCEPT ![r] = file]
      /\ UNCHANGED <<run, prior, whole, seen, target, summaries>>
  BY DEF IInv, CreateReview
<1>2. /\ pc' \in [Run -> Step] /\ attempt' \in [Run -> 0 .. Retries]
      /\ \A q \in Run : q # r => pc'[q] = pc[q] /\ attempt'[q] = attempt[q]
      /\ \E applied \in BOOLEAN :
            /\ created' = IF applied THEN WithComments(r, FpsOf(line)) ELSE created
            /\ \/ pc'[r] = "review" /\ attempt'[r] = attempt[r] + 1
               \/ pc'[r] = "files" /\ (line = {} \/ applied)
               \/ pc'[r] = "failed"
  <2>1. CASE line = {}
    <3>1. pc' = [pc EXCEPT ![r] = "files"] /\ attempt' = attempt /\ created' = created
      BY <2>1 DEF CreateReview, Goto
    <3> QED
      BY <1>1, <2>1, <3>1 DEF TypeOK, Step
  <2>2. CASE line # {}
    <3>0. PICK response \in Response : \E applied \in MayApply(response) :
            /\ Answered(r, response, "files")
            /\ created' = IF applied THEN WithComments(r, FpsOf(line)) ELSE created
      BY <2>2 DEF CreateReview
    <3>1. PICK applied \in MayApply(response) :
            /\ Answered(r, response, "files")
            /\ created' = IF applied THEN WithComments(r, FpsOf(line)) ELSE created
      BY <3>0
    <3>2. applied \in BOOLEAN /\ (response = "ok" => applied)
      BY <3>1 DEF MayApply
    <3>3. "files" \in Step
      BY DEF Step
    <3> QED
      BY <1>1, <3>1, <3>2, <3>3, AnsweredFacts
  <2> QED
    BY <2>1, <2>2
<1>3. PICK applied \in BOOLEAN :
        /\ created' = IF applied THEN WithComments(r, FpsOf(line)) ELSE created
        /\ \/ pc'[r] = "review" /\ attempt'[r] = attempt[r] + 1
           \/ pc'[r] = "files" /\ (line = {} \/ applied)
           \/ pc'[r] = "failed"
  BY <1>2
<1>4. /\ created' \in [Run -> [Fingerprint -> Nat]]
      /\ \A q \in Run : q # r => created'[q] = created[q]
      /\ \A p \in Fingerprint :
            created'[r][p] = IF applied /\ p \in FpsOf(line) THEN created[r][p] + 1 ELSE created[r][p]
  BY <1>1, <1>3, WithCommentsFacts DEF TypeOK
<1>5. line \subseteq findings[r] /\ file \subseteq findings[r] /\ findings[r] \subseteq Finding
  BY <1>1, ToPostFacts DEF TypeOK
<1>6. TypeOK'
  <2>1. queue' \in [Run -> SUBSET Finding]
    BY <1>1, <1>5 DEF TypeOK
  <2>2. (pc'[r] = "summary") => FALSE
    BY <1>3
  <2> QED
    BY <1>1, <1>2, <1>4, <2>1, <2>2 DEF TypeOK, run
<1>7. Grows
  <2>1. \A q \in Run : \A p \in Fingerprint : created[q][p] \in Nat
    BY <1>1 DEF TypeOK
  <2> QED
    BY <1>4, <2>1 DEF Grows
<1>8. Histories'
  <2>1. \A q \in Run : Listed(q) => Listed(q)'
    <3> SUFFICES ASSUME NEW q \in Run, Listed(q) PROVE Listed(q)'
      OBVIOUS
    <3>1. q # r
      BY <1>1 DEF Listed
    <3>2. pc'[q] \in {"summary", "done", "failed"}
      BY <1>2, <3>1 DEF Listed
    <3> QED
      BY <1>1, <1>6, <1>7, <3>1, <3>2, ListedStays DEF run
  <2> QED
    BY <1>1, <2>1, HistoriesKept
<1>9. RunInv(r)'
  <2>1. \A place : ToPost(r, place)' = ToPost(r, place)
    BY <1>1, SameToPost DEF run
  <2>2. Reported(r)' /\ seen'[r] \subseteq Posted'
    BY <1>1, <1>6, <1>7, PostedGrows DEF RunInv, Reported, run
  <2>3. \A f \in findings[r] : f.fp \in Fingerprint /\ f.fp \in FpsOf(line) <=> f \in line
    <3> SUFFICES ASSUME NEW f \in findings[r]
                 PROVE  f.fp \in Fingerprint /\ f.fp \in FpsOf(line) <=> f \in line
      OBVIOUS
    <3>1. f.fp \in Fingerprint
      BY <1>5 DEF Finding
    <3>2. ASSUME f.fp \in FpsOf(line) PROVE f \in line
      <4>1. PICK g \in line : g.fp = f.fp
        BY <3>2 DEF FpsOf
      <4>2. g = f
        BY <1>1, <1>5, <4>1 DEF RunInv, Reported, Distinct
      <4> QED
        BY <4>1, <4>2
    <3>3. ASSUME f \in line PROVE f.fp \in FpsOf(line)
      BY <3>3 DEF FpsOf
    <3> QED
      BY <3>1, <3>2, <3>3
  <2>4. \A f \in findings[r] : created[r][f.fp] > 0 => f \in line /\ created[r][f.fp] =< attempt[r]
    BY <1>1 DEF RunInv, AtStep
  <2>5. \A f \in findings[r] :
            /\ f.fp \in Fingerprint /\ created[r][f.fp] \in Nat /\ created'[r][f.fp] \in Nat
            /\ created'[r][f.fp] = IF applied /\ f \in line THEN created[r][f.fp] + 1 ELSE created[r][f.fp]
    <3>1. \A f \in findings[r] : f.fp \in Fingerprint
      BY <1>5 DEF Finding
    <3>2. \A p \in Fingerprint : created[r][p] \in Nat /\ created'[r][p] \in Nat
      BY <1>1, <1>4 DEF TypeOK
    <3> QED
      BY <1>4, <2>3, <3>1, <3>2
  <2>6. attempt[r] \in Nat /\ attempt[r] =< Retries /\ Retries \in Nat
    BY <1>1, PostingAssumption DEF TypeOK
  <2>7. \A f \in findings[r] : created'[r][f.fp] > 0 => f \in line /\ created'[r][f.fp] =< attempt[r] + 1
    BY <2>4, <2>5, <2>6
  <2>8. OnlyToPost(r)'
    <3> SUFFICES ASSUME NEW p \in Fingerprint, created'[r][p] > 0
                 PROVE  /\ created'[r][p] =< Retries + 1
                        /\ \E f \in line \cup file : f.fp = p
      BY <2>1 DEF OnlyToPost
    <3>1. PICK f \in line \cup file : f.fp = p
      <4>1. CASE applied /\ p \in FpsOf(line)
        BY <4>1 DEF FpsOf
      <4>2. CASE ~(applied /\ p \in FpsOf(line))
        <5>1. created[r][p] > 0
          BY <1>4, <4>2
        <5> QED
          BY <1>1, <5>1 DEF RunInv, OnlyToPost
      <4> QED
        BY <4>1, <4>2
    <3>2. f \in findings[r]
      BY <1>5
    <3>3. created'[r][p] =< attempt[r] + 1 /\ created'[r][p] \in Nat
      BY <2>5, <2>7, <3>1, <3>2
    <3> QED
      BY <2>6, <3>1, <3>3
  <2>9. AtStep(r)'
    <3>1. CASE pc'[r] = "review" /\ attempt'[r] = attempt[r] + 1
      BY <1>1, <2>1, <2>7, <3>1 DEF AtStep, run
    <3>2. CASE pc'[r] = "files" /\ (line = {} \/ applied)
      <4>1. queue'[r] = file
        BY <1>1 DEF TypeOK
      <4>2. \A f \in line : created'[r][f.fp] > 0
        BY <1>5, <2>5, <3>2
      <4>3. \A f \in file : f \notin line /\ f \in findings[r]
        BY <1>1, <1>5, ToPostFacts
      <4>4. \A f \in file : ~(created'[r][f.fp] > 0)
        BY <2>7, <4>3
      <4> QED
        BY <2>1, <3>2, <4>1, <4>2, <4>4 DEF AtStep
    <3>3. CASE pc'[r] = "failed"
      BY <3>3 DEF AtStep
    <3> QED
      BY <1>3, <3>1, <3>2, <3>3
  <2> QED
    BY <2>2, <2>8, <2>9 DEF RunInv
<1>10. ASSUME NEW q \in Run, q # r PROVE RunInv(q)'
  <2>1. /\ pc'[q] = pc[q] /\ attempt'[q] = attempt[q] /\ created'[q] = created[q]
        /\ queue'[q] = queue[q]
    BY <1>1, <1>2, <1>4, <1>10 DEF TypeOK
  <2> QED
    BY <1>1, <1>6, <1>7, <2>1, OthersKeep DEF IInv, run
<1> QED
  BY <1>6, <1>8, <1>9, <1>10 DEF IInv
LEMMA CreateFileCommentKeeps == ASSUME NEW r \in Run, IInv, CreateFileComment(r) PROVE IInv'
<1> DEFINE line == ToPost(r, "line")
           file == ToPost(r, "file")
<1>1. /\ TypeOK /\ Histories /\ pc[r] = "files" /\ RunInv(r)
      /\ UNCHANGED <<run, prior, whole, seen, target, summaries>>
  BY DEF IInv, CreateFileComment
<1>2. PICK f \in queue[r] : \E response \in Response : \E applied \in MayApply(response) :
        /\ \A g \in queue[r] : f = g \/ Before(f, g)
        /\ Answered(r, response, "files")
        /\ created' = IF applied THEN WithComments(r, {f.fp}) ELSE created
        /\ queue' = IF response = "ok" THEN [queue EXCEPT ![r] = @ \ {f}] ELSE queue
  BY DEF CreateFileComment
<1>3. PICK response \in Response : \E applied \in MayApply(response) :
        /\ Answered(r, response, "files")
        /\ created' = IF applied THEN WithComments(r, {f.fp}) ELSE created
        /\ queue' = IF response = "ok" THEN [queue EXCEPT ![r] = @ \ {f}] ELSE queue
  BY <1>2
<1>4. PICK applied \in MayApply(response) :
        /\ Answered(r, response, "files")
        /\ created' = IF applied THEN WithComments(r, {f.fp}) ELSE created
        /\ queue' = IF response = "ok" THEN [queue EXCEPT ![r] = @ \ {f}] ELSE queue
  BY <1>3
<1>5. /\ pc' \in [Run -> Step] /\ attempt' \in [Run -> 0 .. Retries]
      /\ \A q \in Run : q # r => pc'[q] = pc[q] /\ attempt'[q] = attempt[q]
      /\ \/ response = "retry" /\ pc'[r] = "files" /\ attempt'[r] = attempt[r] + 1
         \/ response = "ok" /\ pc'[r] = "files"
         \/ pc'[r] = "failed"
  <2>1. "files" \in Step
    BY DEF Step
  <2> QED
    BY <1>1, <1>4, <2>1, AnsweredFacts
<1>6. applied \in BOOLEAN /\ (response = "ok" => applied)
  BY DEF MayApply
<1>7. /\ created' \in [Run -> [Fingerprint -> Nat]]
      /\ \A q \in Run : q # r => created'[q] = created[q]
      /\ \A p \in Fingerprint :
            created'[r][p] = IF applied /\ p = f.fp THEN created[r][p] + 1 ELSE created[r][p]
  <2>1. CASE applied
    <3> DEFINE fps == {f.fp}
    <3>1. created' = WithComments(r, fps) /\ \A p : p \in fps <=> p = f.fp
      BY <1>4, <2>1
    <3> HIDE DEF fps
    <3> QED
      BY <1>1, <2>1, <3>1, WithCommentsFacts
  <2>2. CASE ~applied
    BY <1>1, <1>4, <2>2 DEF TypeOK
  <2> QED
    BY <2>1, <2>2
<1>8. /\ queue[r] \subseteq file /\ line \subseteq findings[r] /\ file \subseteq findings[r]
      /\ findings[r] \subseteq Finding /\ f \in file /\ f.fp \in Fingerprint
  <2>1. queue[r] \subseteq file /\ line \subseteq findings[r] /\ file \subseteq findings[r]
    BY <1>1, ToPostFacts DEF RunInv, AtStep
  <2> QED
    BY <1>1, <2>1, ToPostFacts DEF TypeOK
<1>9. TypeOK'
  <2>1. queue' \in [Run -> SUBSET Finding]
    BY <1>1, <1>4 DEF TypeOK
  <2>2. (pc'[r] = "summary") => FALSE
    BY <1>5
  <2> QED
    BY <1>1, <1>5, <1>7, <2>1, <2>2 DEF TypeOK, run
<1>10. Grows
  <2>1. \A q \in Run : \A p \in Fingerprint : created[q][p] \in Nat
    BY <1>1 DEF TypeOK
  <2> QED
    BY <1>7, <2>1 DEF Grows
<1>11. Histories'
  <2>1. \A q \in Run : Listed(q) => Listed(q)'
    <3> SUFFICES ASSUME NEW q \in Run, Listed(q) PROVE Listed(q)'
      OBVIOUS
    <3>1. q # r
      BY <1>1 DEF Listed
    <3>2. pc'[q] \in {"summary", "done", "failed"}
      BY <1>5, <3>1 DEF Listed
    <3> QED
      BY <1>1, <1>9, <1>10, <3>1, <3>2, ListedStays DEF run
  <2> QED
    BY <1>1, <2>1, HistoriesKept
<1>12. RunInv(r)'
  <2>1. \A place : ToPost(r, place)' = ToPost(r, place)
    BY <1>1, SameToPost DEF run
  <2>2. Reported(r)' /\ seen'[r] \subseteq Posted'
    BY <1>1, <1>9, <1>10, PostedGrows DEF RunInv, Reported, run
  <2>3. attempt[r] \in Nat /\ attempt[r] =< Retries /\ Retries \in Nat
    BY <1>1, PostingAssumption DEF TypeOK
  <2>4. \A p \in Fingerprint : created[r][p] \in Nat
    BY <1>1 DEF TypeOK
  <2>5. created[r][f.fp] =< attempt[r]
    BY <1>1, <1>8, <2>3, <2>4 DEF RunInv, AtStep
  <2>6. created'[r][f.fp] =< attempt[r] + 1 /\ created'[r][f.fp] \in Nat
    BY <1>7, <1>8, <2>3, <2>4, <2>5
  <2>7. OnlyToPost(r)'
    <3> SUFFICES ASSUME NEW p \in Fingerprint, created'[r][p] > 0
                 PROVE  /\ created'[r][p] =< Retries + 1
                        /\ \E g \in line \cup file : g.fp = p
      BY <2>1 DEF OnlyToPost
    <3>1. CASE p = f.fp
      BY <1>8, <2>3, <2>6, <3>1
    <3>2. CASE p # f.fp
      BY <1>1, <1>7, <3>2 DEF RunInv, OnlyToPost
    <3> QED
      BY <3>1, <3>2
  <2>8. \A g \in queue[r] : g # f => created'[r][g.fp] = 0
    <3> SUFFICES ASSUME NEW g \in queue[r], g # f PROVE created'[r][g.fp] = 0
      OBVIOUS
    <3>1. g \in findings[r] /\ f \in findings[r] /\ g \in Finding /\ f \in Finding
      BY <1>8
    <3>2. g.fp # f.fp /\ g.fp \in Fingerprint
      BY <1>1, <3>1 DEF RunInv, Reported, Distinct, Finding
    <3>3. Before(f, g)
      BY <1>2
    <3>4. ~Before(g, f)
      BY <3>1, <3>3 DEF Before, Finding, Severity, Nit, Blocker
    <3>5. ~(created[r][g.fp] > 0)
      BY <1>1, <3>4 DEF RunInv, AtStep
    <3> QED
      BY <1>7, <2>4, <3>2, <3>5
  <2>9. \A g \in line \cup (file \ queue[r]) : created'[r][g.fp] > 0
    <3> SUFFICES ASSUME NEW g \in line \cup (file \ queue[r]) PROVE created'[r][g.fp] > 0
      OBVIOUS
    <3>1. created[r][g.fp] > 0
      BY <1>1 DEF RunInv, AtStep
    <3>2. g.fp \in Fingerprint
      BY <1>8 DEF Finding
    <3> QED
      BY <1>7, <2>4, <3>1, <3>2
  <2>10. AtStep(r)'
    <3>1. CASE response = "retry" /\ pc'[r] = "files" /\ attempt'[r] = attempt[r] + 1
      <4>1. queue' = queue
        BY <1>4, <3>1
      <4>2. \A g \in queue[r] : created'[r][g.fp] > 0 => g = f
        BY <2>8
      <4> QED
        BY <1>2, <1>8, <2>1, <2>6, <2>9, <3>1, <4>1, <4>2 DEF AtStep
    <3>2. CASE response = "ok" /\ pc'[r] = "files"
      <4>1. queue'[r] = queue[r] \ {f}
        BY <1>1, <1>4, <3>2 DEF TypeOK
      <4>2. created'[r][f.fp] > 0
        BY <1>6, <1>7, <1>8, <2>4, <3>2
      <4> QED
        BY <1>8, <2>1, <2>8, <2>9, <3>2, <4>1, <4>2 DEF AtStep
    <3>3. CASE pc'[r] = "failed"
      BY <3>3 DEF AtStep
    <3> QED
      BY <1>5, <3>1, <3>2, <3>3
  <2> QED
    BY <2>2, <2>7, <2>10 DEF RunInv
<1>13. ASSUME NEW q \in Run, q # r PROVE RunInv(q)'
  <2>1. /\ pc'[q] = pc[q] /\ attempt'[q] = attempt[q] /\ created'[q] = created[q]
        /\ queue'[q] = queue[q]
    BY <1>1, <1>4, <1>5, <1>7, <1>13 DEF TypeOK
  <2> QED
    BY <1>1, <1>9, <1>10, <2>1, OthersKeep DEF IInv, run
<1> QED
  BY <1>9, <1>11, <1>12, <1>13 DEF IInv

LEMMA LocateKeeps == ASSUME NEW r \in Run, IInv, LocateSummary(r) PROVE IInv'
<1>1. /\ TypeOK /\ Histories /\ pc[r] = "files" /\ queue[r] = {} /\ RunInv(r)
      /\ UNCHANGED <<run, prior, whole, seen, queue, attempt, created, summaries>>
      /\ \/ /\ target' = [target EXCEPT ![r] = IF summaries = <<>> THEN 0 ELSE 1]
            /\ pc' = [pc EXCEPT ![r] = "summary"]
         \/ target' = target /\ pc' = [pc EXCEPT ![r] = "failed"]
  BY DEF IInv, LocateSummary, Goto
<1>2. pc'[r] \in {"summary", "failed"} /\ \A q \in Run : q # r => pc'[q] = pc[q]
  BY <1>1 DEF TypeOK
<1>3. TypeOK'
  <2>1. summaries \in Seq(Seq(Run))
    BY <1>1 DEF TypeOK
  <2>2. (IF summaries = <<>> THEN 0 ELSE 1) =< Len(summaries)
    BY <2>1, EmptySeq, LenProperties
  <2>3. pc' \in [Run -> Step] /\ target' \in [Run -> Nat]
    <3>1. (IF summaries = <<>> THEN 0 ELSE 1) \in Nat /\ {"summary", "failed"} \subseteq Step
      BY DEF Step
    <3>2. pc \in [Run -> Step] /\ target \in [Run -> Nat]
      BY <1>1 DEF TypeOK
    <3>3. CASE target' = target
      BY <1>1, <3>1, <3>2, <3>3
    <3>4. CASE target' = [target EXCEPT ![r] = IF summaries = <<>> THEN 0 ELSE 1]
      BY <1>1, <3>1, <3>2, <3>4
    <3> QED
      BY <1>1, <3>3, <3>4
  <2>4. \A q \in Run : pc'[q] = "summary" => target'[q] =< Len(summaries)
    BY <1>1, <2>2 DEF TypeOK
  <2> QED
    BY <1>1, <2>3, <2>4 DEF TypeOK, run
<1>4. Grows
  BY <1>1 DEF Grows, TypeOK
<1>5. \A q \in Run : Listed(q) => Listed(q)'
  <2> SUFFICES ASSUME NEW q \in Run, Listed(q) PROVE Listed(q)'
    OBVIOUS
  <2>1. pc'[q] \in {"summary", "done", "failed"}
    BY <1>2 DEF Listed
  <2> QED
    BY <1>1, <1>3, <1>4, <2>1, ListedStays DEF run
<1>6. ASSUME NEW q \in Run PROVE RunInv(q)'
  <2>1. CASE q = r
    <3>1. \A place : ToPost(r, place)' = ToPost(r, place)
      BY <1>1, SameToPost DEF run
    <3>2. Reported(r)' /\ seen'[r] \subseteq Posted'
      BY <1>1 DEF RunInv, Reported, run, Posted
    <3>3. OnlyToPost(r)'
      BY <1>1, <3>1 DEF RunInv, OnlyToPost
    <3>4. Settled(r)'
      BY <1>1, <3>1 DEF RunInv, AtStep, Settled
    <3>5. AtStep(r)'
      BY <1>2, <3>4 DEF AtStep
    <3> QED
      BY <2>1, <3>2, <3>3, <3>5 DEF RunInv
  <2>2. CASE q # r
    BY <1>1, <1>2, <1>3, <1>4, <2>2, OthersKeep DEF IInv, run
  <2> QED
    BY <2>1, <2>2
<1> QED
  BY <1>1, <1>3, <1>5, <1>6, HistoriesKept DEF IInv

\* A step that writes the run's history into a summary comment, or may have.
LEMMA WritingKeeps ==
    ASSUME NEW r \in Run, IInv, pc[r] = "summary",
           UNCHANGED <<run, prior, whole, seen, queue, target, created>>,
           pc' \in [Run -> Step], attempt' \in [Run -> 0 .. Retries],
           pc'[r] \in {"summary", "done", "failed"},
           \A q \in Run : q # r => pc'[q] = pc[q] /\ attempt'[q] = attempt[q],
           summaries' \in Seq(Seq(Run)), Len(summaries') >= Len(summaries),
           \A i \in DOMAIN summaries' :
              summaries'[i] = History(r) \/ (i \in DOMAIN summaries /\ summaries'[i] = summaries[i])
    PROVE  IInv'
<1>1. TypeOK /\ Histories /\ RunInv(r)
  BY DEF IInv
<1>2. TypeOK'
  <2>1. Len(summaries) \in Nat /\ Len(summaries') \in Nat
    BY <1>1, LenProperties DEF TypeOK
  <2>2. \A q \in Run : pc'[q] = "summary" => target'[q] =< Len(summaries')
    <3> SUFFICES ASSUME NEW q \in Run, pc'[q] = "summary" PROVE target'[q] =< Len(summaries')
      OBVIOUS
    <3>1. pc[q] = "summary"
      BY DEF run
    <3>2. target[q] \in Nat /\ target[q] =< Len(summaries) /\ target' = target
      BY <1>1, <3>1 DEF TypeOK
    <3> QED
      BY <2>1, <3>2
  <2> QED
    BY <1>1, <2>2 DEF TypeOK, run
<1>3. Grows
  BY <1>1 DEF Grows, TypeOK
<1>4. \A q \in Run : Listed(q) => Listed(q)'
  <2> SUFFICES ASSUME NEW q \in Run, Listed(q) PROVE Listed(q)'
    OBVIOUS
  <2>1. pc'[q] \in {"summary", "done", "failed"}
    BY DEF Listed
  <2> QED
    BY <1>1, <1>2, <1>3, <2>1, ListedStays DEF run
<1>5. Listed(r)
  BY <1>1 DEF Listed, RunInv, AtStep
<1>6. Histories'
  <2>1. prior[r] \in Seq(Run) /\ \A q \in Run : Range(prior[q]) \subseteq Run
    BY <1>1, RangeOfSeq DEF TypeOK
  <2>2. IsInjective(History(r)) /\ \A q \in Range(History(r)) : q \in Run /\ Listed(q)
    BY <1>1, <1>5, <2>1, HistoryFacts DEF Histories
  <2>3. \A i \in DOMAIN summaries : Range(summaries[i]) \subseteq Run
    <3>1. \A i \in DOMAIN summaries : summaries[i] \in Seq(Run)
      BY <1>1, ElementOfSeq, LenProperties DEF TypeOK
    <3> QED
      BY <3>1, RangeOfSeq
  <2>4. ASSUME NEW i \in DOMAIN summaries'
        PROVE  IsInjective(summaries'[i]) /\ \A q \in Range(summaries'[i]) : Listed(q)'
    <3>1. CASE summaries'[i] = History(r)
      BY <1>4, <2>2, <3>1
    <3>2. CASE i \in DOMAIN summaries /\ summaries'[i] = summaries[i]
      BY <1>1, <1>4, <2>3, <3>2 DEF Histories
    <3> QED
      BY <3>1, <3>2
  <2>5. \A k \in Run :
            IsInjective(prior[k]) /\ k \notin Range(prior[k]) /\ \A q \in Range(prior[k]) : Listed(q)'
    BY <1>1, <1>4, <2>1 DEF Histories
  <2> QED
    BY <2>4, <2>5 DEF Histories
<1>7. ASSUME NEW q \in Run PROVE RunInv(q)'
  <2>1. CASE q = r
    <3>1. \A place : ToPost(r, place)' = ToPost(r, place)
      BY SameToPost DEF run
    <3>2. Reported(r)' /\ seen'[r] \subseteq Posted' /\ OnlyToPost(r)'
      BY <1>1, <3>1 DEF RunInv, Reported, run, Posted, OnlyToPost
    <3>3. AtStep(r)'
      BY <1>4, <1>5 DEF AtStep, Listed
    <3> QED
      BY <2>1, <3>2, <3>3 DEF RunInv
  <2>2. CASE q # r
    BY <1>1, <1>2, <1>3, <2>2, OthersKeep DEF IInv, run
  <2> QED
    BY <2>1, <2>2
<1> QED
  BY <1>2, <1>6, <1>7 DEF IInv
LEMMA EditSummaryKeeps == ASSUME NEW r \in Run, IInv, EditSummary(r) PROVE IInv'
<1>1. /\ TypeOK /\ pc[r] = "summary" /\ target[r] # 0
      /\ UNCHANGED <<run, prior, whole, seen, queue, target, created>>
  BY DEF IInv, EditSummary
<1>2. PICK response \in Response : \E applied \in MayApply(response) :
        /\ Answered(r, response, "done")
        /\ summaries' = IF applied THEN [summaries EXCEPT ![target[r]] = History(r)] ELSE summaries
  BY DEF EditSummary
<1>3. /\ pc' \in [Run -> Step] /\ attempt' \in [Run -> 0 .. Retries]
      /\ pc'[r] \in {"summary", "done", "failed"}
      /\ \A q \in Run : q # r => pc'[q] = pc[q] /\ attempt'[q] = attempt[q]
  <2>1. "done" \in Step
    BY DEF Step
  <2> QED
    BY <1>1, <1>2, <2>1, AnsweredFacts
<1>4. /\ summaries \in Seq(Seq(Run)) /\ History(r) \in Seq(Run)
      /\ target[r] \in 1 .. Len(summaries) /\ Len(summaries) \in Nat
      /\ DOMAIN summaries = 1 .. Len(summaries)
  <2>1. summaries \in Seq(Seq(Run)) /\ prior[r] \in Seq(Run)
    BY <1>1 DEF TypeOK
  <2>2. target[r] \in Nat /\ target[r] =< Len(summaries)
    BY <1>1 DEF TypeOK
  <2> QED
    BY <1>1, <2>1, <2>2, HistoryFacts, LenProperties
<1>5. /\ summaries' \in Seq(Seq(Run)) /\ Len(summaries') = Len(summaries)
      /\ \A i \in 1 .. Len(summaries) : summaries'[i] = History(r) \/ summaries'[i] = summaries[i]
  <2>1. CASE summaries' = summaries
    BY <1>4, <2>1
  <2>2. CASE summaries' = [summaries EXCEPT ![target[r]] = History(r)]
    BY <1>4, <2>2, ExceptSeq
  <2> QED
    BY <1>2, <2>1, <2>2
<1>6. DOMAIN summaries' = 1 .. Len(summaries) /\ Len(summaries') >= Len(summaries)
  BY <1>4, <1>5, LenProperties
<1> QED
  BY <1>1, <1>3, <1>4, <1>5, <1>6, WritingKeeps

LEMMA CreateSummaryKeeps == ASSUME NEW r \in Run, IInv, CreateSummary(r) PROVE IInv'
<1>1. /\ TypeOK /\ pc[r] = "summary"
      /\ UNCHANGED <<run, prior, whole, seen, queue, target, created>>
  BY DEF IInv, CreateSummary
<1>2. PICK response \in Response : \E applied \in MayApply(response) :
        /\ Answered(r, response, "done")
        /\ summaries' = IF applied THEN Append(summaries, History(r)) ELSE summaries
  BY DEF CreateSummary
<1>3. /\ pc' \in [Run -> Step] /\ attempt' \in [Run -> 0 .. Retries]
      /\ pc'[r] \in {"summary", "done", "failed"}
      /\ \A q \in Run : q # r => pc'[q] = pc[q] /\ attempt'[q] = attempt[q]
  <2>1. "done" \in Step
    BY DEF Step
  <2> QED
    BY <1>1, <1>2, <2>1, AnsweredFacts
<1>4. /\ summaries \in Seq(Seq(Run)) /\ History(r) \in Seq(Run) /\ Len(summaries) \in Nat
      /\ DOMAIN summaries = 1 .. Len(summaries)
  <2>1. summaries \in Seq(Seq(Run)) /\ prior[r] \in Seq(Run)
    BY <1>1 DEF TypeOK
  <2> QED
    BY <2>1, HistoryFacts, LenProperties
<1>5. /\ summaries' \in Seq(Seq(Run)) /\ Len(summaries') >= Len(summaries)
      /\ \A i \in 1 .. Len(summaries') : summaries'[i] = History(r) \/
            (i \in 1 .. Len(summaries) /\ summaries'[i] = summaries[i])
  <2>1. CASE summaries' = summaries
    BY <1>4, <2>1
  <2>2. CASE summaries' = Append(summaries, History(r))
    <3>1. /\ summaries' \in Seq(Seq(Run)) /\ Len(summaries') = Len(summaries) + 1
          /\ \A i \in 1 .. Len(summaries) : summaries'[i] = summaries[i]
          /\ summaries'[Len(summaries) + 1] = History(r)
      BY <1>4, <2>2, AppendProperties
    <3> QED
      BY <1>4, <3>1
  <2> QED
    BY <1>2, <2>1, <2>2
<1>6. DOMAIN summaries' = 1 .. Len(summaries')
  BY <1>5, LenProperties
<1> QED
  BY <1>1, <1>3, <1>4, <1>5, <1>6, WritingKeeps

LEMMA CrashKeeps == ASSUME NEW r \in Run, IInv, Crash(r) PROVE IInv'
<1>1. /\ TypeOK /\ Histories /\ RunInv(r) /\ pc' = [pc EXCEPT ![r] = "failed"]
      /\ UNCHANGED <<run, prior, whole, seen, queue, attempt, target, created, summaries>>
  BY DEF IInv, Crash, Goto
<1>2. pc'[r] = "failed" /\ \A q \in Run : q # r => pc'[q] = pc[q]
  BY <1>1 DEF TypeOK
<1>3. TypeOK'
  <2>1. \A q \in Run : pc'[q] = "summary" => target[q] =< Len(summaries)
    BY <1>1, <1>2 DEF TypeOK
  <2> QED
    BY <1>1, <2>1 DEF TypeOK, run, Step
<1>4. Grows
  BY <1>1 DEF Grows, TypeOK
<1>5. \A q \in Run : Listed(q) => Listed(q)'
  <2> SUFFICES ASSUME NEW q \in Run, Listed(q) PROVE Listed(q)'
    OBVIOUS
  <2>1. pc'[q] \in {"summary", "done", "failed"}
    BY <1>2 DEF Listed
  <2> QED
    BY <1>1, <1>3, <1>4, <2>1, ListedStays DEF run
<1>6. ASSUME NEW q \in Run PROVE RunInv(q)'
  <2>1. CASE q = r
    <3>1. \A place : ToPost(r, place)' = ToPost(r, place)
      BY <1>1, SameToPost DEF run
    <3>2. Reported(r)' /\ seen'[r] \subseteq Posted' /\ OnlyToPost(r)'
      BY <1>1, <3>1 DEF RunInv, Reported, run, Posted, OnlyToPost
    <3>3. AtStep(r)'
      BY <1>2 DEF AtStep
    <3> QED
      BY <2>1, <3>2, <3>3 DEF RunInv
  <2>2. CASE q # r
    BY <1>1, <1>2, <1>3, <1>4, <2>2, OthersKeep DEF IInv, run
  <2> QED
    BY <2>1, <2>2
<1> QED
  BY <1>1, <1>3, <1>5, <1>6, HistoriesKept DEF IInv

LEMMA StutterKeeps == IInv /\ UNCHANGED vars => IInv'
<1> SUFFICES ASSUME IInv, UNCHANGED vars PROVE IInv'
  OBVIOUS
<1>1. UNCHANGED <<pc, run, prior, whole, seen, queue, attempt, target, created, summaries>>
  BY DEF vars
<1>2. TypeOK'
  BY <1>1 DEF IInv, TypeOK, run
<1>3. Grows
  BY <1>1 DEF IInv, Grows, TypeOK
<1>4. \A q \in Run : Listed(q) => Listed(q)'
  <2> SUFFICES ASSUME NEW q \in Run, Listed(q) PROVE Listed(q)'
    OBVIOUS
  <2> QED
    BY <1>1, <1>2, <1>3, ListedStays DEF IInv, Listed, run
<1>5. \A q \in Run : RunInv(q)'
  BY <1>1, <1>2, <1>3, OthersKeep DEF IInv, run
<1> QED
  BY <1>1, <1>2, <1>4, <1>5, HistoriesKept DEF IInv

LEMMA InvariantHolds == Spec => []IInv
<1>1. IInv /\ [Next]_vars => IInv'
  <2> SUFFICES ASSUME IInv, [Next]_vars PROVE IInv'
    OBVIOUS
  <2>1. ASSUME NEW r \in Run, Progress(r) PROVE IInv'
    BY <2>1, BeginKeeps, ListKeeps, CreateReviewKeeps, CreateFileCommentKeeps, LocateKeeps,
       EditSummaryKeeps, CreateSummaryKeeps DEF Progress
  <2>2. ASSUME NEW r \in Run, Crash(r) PROVE IInv'
    BY <2>2, CrashKeeps
  <2>3. CASE UNCHANGED vars
    BY <2>3, StutterKeeps
  <2> QED
    BY <2>1, <2>2, <2>3 DEF Next, Terminated
<1> QED
  BY <1>1, InitEstablishes, PTL DEF Spec
-----------------------------------------------------------------------------
(* The theorems.                                                           *)

\* The variables of overlapping runs keep their types, and none edits a
\* summary comment that is not there.
THEOREM TypeCorrect == Spec => []TypeOK
<1>1. IInv => TypeOK
  BY DEF IInv
<1> QED
  BY <1>1, InvariantHolds, PTL

\* A summary that lists a run is on the pull request only with all the comments
\* of that run, whatever fails, is repeated or crashes.
THEOREM SummariesComeLast == Spec => []SummaryComesLast
<1>1. IInv => SummaryComesLast
  BY DEF IInv, Histories, Listed, Settled, SummaryComesLast
<1> QED
  BY <1>1, InvariantHolds, PTL

\* No history lists a run twice, however often its write is repeated.
THEOREM RunsListedOnce == Spec => []EachRunListedOnce
<1>1. IInv => EachRunListedOnce
  BY DEF IInv, Histories, EachRunListedOnce
<1> QED
  BY <1>1, InvariantHolds, PTL

\* A run adds nothing that was there when it looked, and no more copies of a
\* comment than its call had attempts.
THEOREM NothingRepeats == Spec => []NoRepeat
<1>1. IInv => NoRepeat
  <2> SUFFICES ASSUME IInv, NEW r \in Run, NEW p \in Fingerprint, created[r][p] > 0
               PROVE  p \notin seen[r] /\ created[r][p] =< Retries + 1
    BY DEF NoRepeat
  <2>1. PICK f \in ToPost(r, "line") \cup ToPost(r, "file") : f.fp = p
    BY DEF IInv, RunInv, OnlyToPost
  <2>2. f.fp \notin seen[r]
    BY ToPostFacts DEF IInv
  <2> QED
    BY <2>1, <2>2 DEF IInv, RunInv, OnlyToPost
<1> QED
  BY <1>1, InvariantHolds, PTL

\* The unseen findings of one severity in one place.
Alike(r, place, s) == {f \in Unseen(r, place) : f.severity = s}

LEMMA AlikeFacts ==
    ASSUME IInv, NEW r \in Run, NEW place, NEW s
    PROVE  /\ Alike(r, place, s) \in SUBSET Finding
           /\ Alike(r, place, s) \in SUBSET findings[r]
           /\ IsFiniteSet(Alike(r, place, s)) /\ Distinct(Alike(r, place, s))
<1>1. Alike(r, place, s) \in SUBSET findings[r]
  BY DEF Alike, Unseen
<1>2. findings[r] \in SUBSET Finding /\ IsFiniteSet(findings[r]) /\ Distinct(findings[r])
  BY DEF IInv, TypeOK, RunInv, Reported
<1> QED
  BY <1>1, <1>2, FS_Subset DEF Distinct

\* For each severity below blocker a run adds no more comments on lines, and no
\* more on files, than the cap.
THEOREM CapsHold == Spec => []CapHolds
<1>1. IInv => CapHolds
  <2> SUFFICES ASSUME IInv, NEW r \in Run, NEW s \in Severity \ {Blocker},
                      NEW place \in {"line", "file"}, Cap[s] > 0
               PROVE  Cardinality({f \in findings[r] :
                        f.severity = s /\ f.place = place /\ created[r][f.fp] > 0}) =< Cap[s]
    BY DEF CapHolds
  <2> DEFINE added == {f \in findings[r] :
                        f.severity = s /\ f.place = place /\ created[r][f.fp] > 0}
             alike == Alike(r, place, s)
  <2>1. Cap[s] \in Nat
    BY PostingAssumption
  <2>2. ASSUME NEW f \in added PROVE f \in alike /\ Cardinality(Earlier(f, alike)) < Cap[s]
    <3>1. f \in Finding /\ f.fp \in Fingerprint
      BY DEF IInv, TypeOK, Finding
    <3>2. PICK g \in ToPost(r, "line") \cup ToPost(r, "file") : g.fp = f.fp
      BY <3>1 DEF IInv, RunInv, OnlyToPost
    <3>3. g \in findings[r] /\ g.place = place => g \in ToPost(r, place)
      BY <3>2, ToPostFacts DEF IInv
    <3>4. g \in findings[r]
      BY ToPostFacts DEF IInv
    <3>5. g = f
      BY <3>2, <3>4 DEF IInv, RunInv, Reported, Distinct
    <3>6. f \in ToPost(r, place)
      BY <3>3, <3>4, <3>5
    <3>7. f \in Unseen(r, place) /\ WithinCap(f, Unseen(r, place)) /\ f.severity = s
      BY <3>6 DEF ToPost
    <3>8. Earlier(f, alike) = {h \in Unseen(r, place) : h.severity = f.severity /\ h.id < f.id}
      BY <3>7 DEF Earlier, Alike
    <3>9. f.severity # Blocker /\ Cap[f.severity] # 0 /\ Cap[f.severity] = Cap[s]
      BY <2>1, <3>7
    <3>10. Cardinality({h \in Unseen(r, place) : h.severity = f.severity /\ h.id < f.id}) < Cap[s]
      BY <3>7, <3>9 DEF WithinCap
    <3>11. f \in alike
      BY <3>7 DEF Alike
    <3> QED
      BY <3>8, <3>10, <3>11
  <2>3. added \in SUBSET alike
    BY <2>2
  <2> HIDE DEF added, alike
  <2>4. alike \in SUBSET Finding /\ IsFiniteSet(alike) /\ Distinct(alike)
    BY AlikeFacts DEF alike
  <2>5. Cardinality(added) =< Cap[s]
    BY <2>1, <2>2, <2>3, <2>4, FewAreFirst
  <2> QED
    BY <2>5 DEF added
<1> QED
  BY <1>1, InvariantHolds, PTL

\* When a run is done, what it found is on the pull request, up to its caps.
THEOREM CompletedArePublished == Spec => []CompletedIsPublished
<1>1. IInv => CompletedIsPublished
  <2> SUFFICES ASSUME IInv, NEW r \in Run, pc[r] = "done",
                      NEW f \in findings[r], f.place # "summary", f.fp \notin Posted
               PROVE  /\ f.severity # Blocker /\ Cap[f.severity] > 0
                      /\ Cardinality({g \in findings[r] :
                            /\ g.place = f.place /\ g.severity = f.severity /\ g.id < f.id
                            /\ g.fp \in Posted}) >= Cap[f.severity]
    BY DEF CompletedIsPublished
  <2> DEFINE unseen == Unseen(r, f.place)
             before == {g \in unseen : g.severity = f.severity /\ g.id < f.id}
             n == Cap[f.severity]
             filled == {g \in before : Cardinality(Earlier(g, before)) < n}
             there == {g \in findings[r] :
                        /\ g.place = f.place /\ g.severity = f.severity /\ g.id < f.id
                        /\ g.fp \in Posted}
  <2>1. /\ f \in Finding /\ findings[r] \in SUBSET Finding
        /\ IsFiniteSet(findings[r]) /\ Distinct(findings[r]) /\ n \in Nat
    BY PostingAssumption DEF IInv, TypeOK, RunInv, Reported, Finding
  <2>2. f.place \in {"line", "file"} /\ f \in unseen
    BY <2>1 DEF IInv, RunInv, Finding, Unseen
  <2>3. Settled(r) /\ \A g \in ToPost(r, "line") \cup ToPost(r, "file") : g.fp \in Posted
    BY ToPostFacts DEF IInv, RunInv, AtStep, Settled, Posted
  <2>4. ~WithinCap(f, unseen)
    BY <2>2, <2>3 DEF ToPost
  <2>5. f.severity # Blocker /\ n # 0 /\ ~(Cardinality(before) < n)
    BY <2>4 DEF WithinCap
  <2>6. /\ before \in SUBSET Finding /\ before \in SUBSET findings[r]
        /\ IsFiniteSet(before) /\ Distinct(before) /\ Cardinality(before) \in Nat
    <3>1. before \in SUBSET findings[r]
      BY DEF Unseen
    <3> QED
      BY <2>1, <3>1, FS_Subset, FS_CardinalityType DEF Distinct
  <2>7. \A g \in before : Earlier(g, before) = {h \in unseen : h.severity = g.severity /\ h.id < g.id}
    <3> SUFFICES ASSUME NEW g \in before
                 PROVE  Earlier(g, before) = {h \in unseen : h.severity = g.severity /\ h.id < g.id}
      OBVIOUS
    <3>1. \A h \in unseen : h.id \in Nat
      BY <2>1 DEF Unseen, Finding
    <3>2. f.id \in Nat
      BY <2>1 DEF Finding
    <3>3. \A h \in unseen : h.id < g.id => h.id < f.id
      BY <3>1, <3>2
    <3> QED
      BY <3>3 DEF Earlier
  <2>8. filled \in SUBSET there
    <3> SUFFICES ASSUME NEW g \in filled PROVE g \in there
      OBVIOUS
    <3>1. g \in unseen /\ g.severity = f.severity /\ g.id < f.id
      OBVIOUS
    <3>2. WithinCap(g, unseen)
      BY <2>7, <3>1 DEF WithinCap
    <3>3. g \in ToPost(r, f.place)
      BY <3>1, <3>2 DEF ToPost
    <3> QED
      BY <2>2, <2>3, <3>1, <3>3 DEF Unseen
  <2> HIDE DEF before, n, there
  <2>9. Cardinality(filled) >= n
    BY <2>1, <2>5, <2>6, FirstOnesFill
  <2>10. Cardinality(there) >= n
    <3>1. there \in SUBSET findings[r]
      BY DEF there
    <3>2. IsFiniteSet(there) /\ Cardinality(there) \in Nat
      BY <2>1, <3>1, FS_Subset, FS_CardinalityType
    <3>3. Cardinality(filled) =< Cardinality(there) /\ Cardinality(filled) \in Nat
      BY <2>8, <3>2, FS_Subset, FS_CardinalityType
    <3> QED
      BY <2>1, <2>9, <3>2, <3>3
  <2> QED
    BY <2>1, <2>5, <2>10 DEF n, there
<1> QED
  BY <1>1, InvariantHolds, PTL
-----------------------------------------------------------------------------
(* How long a run can be.                                                  *)

Attempts == Retries + 1

\* Attempts of all the calls that are still to come: the summary's, each file
\* comment's and the review's; and one for each step that may make no call.
Left(r) ==
    IF pc[r] = "start" THEN Cardinality(findings[r]) * Attempts + 2 * Attempts + 3
    ELSE IF pc[r] = "list" THEN Cardinality(findings[r]) * Attempts + 2 * Attempts + 2
    ELSE IF pc[r] = "review" THEN Cardinality(findings[r]) * Attempts + 2 * Attempts + 1 - attempt[r]
    ELSE IF pc[r] = "files" THEN Cardinality(queue[r]) * Attempts + Attempts + 1 - attempt[r]
    ELSE IF pc[r] = "summary" THEN Attempts - attempt[r]
    ELSE 0

LEMMA Products ==
    ASSUME NEW a \in Nat, NEW m \in Nat, NEW n \in Nat, m =< n
    PROVE  m * a \in Nat /\ n * a \in Nat /\ m * a =< n * a
OBVIOUS

LEMMA OneProductLess ==
    ASSUME NEW a \in Nat, NEW n \in Nat
    PROVE  n * a \in Nat /\ (n - 1) * a = n * a - a
OBVIOUS

\* What Left counts with.
Counted(r) ==
    /\ Retries \in Nat /\ Attempts = Retries + 1
    /\ attempt[r] \in Nat /\ attempt[r] =< Retries
    /\ Cardinality(findings[r]) \in Nat
    /\ pc[r] = "files" => Cardinality(queue[r]) \in Nat

LEMMA CountedAlways == ASSUME IInv, NEW r \in Run PROVE Counted(r)
<1>1. Retries \in Nat /\ Attempts = Retries + 1
  BY PostingAssumption DEF Attempts
<1>2. attempt[r] \in Nat /\ attempt[r] =< Retries
  BY <1>1 DEF IInv, TypeOK
<1>3. IsFiniteSet(findings[r]) /\ Cardinality(findings[r]) \in Nat
  BY FS_CardinalityType DEF IInv, RunInv, Reported
<1>4. ASSUME pc[r] = "files" PROVE Cardinality(queue[r]) \in Nat
  <2>1. queue[r] \in SUBSET findings[r]
    BY <1>4, ToPostFacts DEF IInv, RunInv, AtStep
  <2> QED
    BY <1>3, <2>1, FS_Subset, FS_CardinalityType
<1> QED
  BY <1>1, <1>2, <1>3, <1>4 DEF Counted

Over(step) == step \in {"done", "skipped", "failed"}

LEMMA LeftIsNatural ==
    ASSUME NEW r \in Run, Counted(r), pc[r] \in Step
    PROVE  Left(r) \in Nat /\ (~Over(pc[r]) => Left(r) > 0)
<1> DEFINE n == Cardinality(findings[r])
           q == Cardinality(queue[r])
<1>1. n * Attempts \in Nat
  BY Products DEF Counted
<1>2. pc[r] = "files" => q * Attempts \in Nat
  BY Products DEF Counted
<1> QED
  BY <1>1, <1>2 DEF Left, Counted, Over, Step

LEMMA EndingLowers ==
    ASSUME NEW r \in Run, IInv, ~Over(pc[r]), Over(pc'[r])
    PROVE  Left(r)' < Left(r)
<1>1. Left(r) > 0
  BY CountedAlways, LeftIsNatural DEF IInv, TypeOK
<1>2. Left(r)' = 0
  BY DEF Over, Left
<1> QED
  BY <1>1, <1>2

\* Another attempt of a call.
LEMMA RepeatingLowers ==
    ASSUME NEW r \in Run, IInv, pc[r] \in {"review", "files", "summary"},
           pc'[r] = pc[r], attempt'[r] = attempt[r] + 1,
           findings'[r] = findings[r], pc[r] = "files" => queue'[r] = queue[r]
    PROVE  Left(r)' < Left(r)
<1> DEFINE n == Cardinality(findings[r])
           q == Cardinality(queue[r])
<1>0. Counted(r)
  BY CountedAlways
<1>1. n * Attempts \in Nat /\ (pc[r] = "files" => q * Attempts \in Nat)
  BY <1>0, Products DEF Counted
<1>2. Attempts \in Nat /\ attempt[r] \in Nat
  BY <1>0 DEF Counted
<1>3. CASE pc[r] = "review"
  <2>1. /\ Left(r) = n * Attempts + 2 * Attempts + 1 - attempt[r]
        /\ Left(r)' = n * Attempts + 2 * Attempts + 1 - (attempt[r] + 1)
    BY <1>3 DEF Left
  <2> QED
    BY <1>1, <1>2, <2>1
<1>4. CASE pc[r] = "files"
  <2>1. /\ Left(r) = q * Attempts + Attempts + 1 - attempt[r]
        /\ Left(r)' = q * Attempts + Attempts + 1 - (attempt[r] + 1)
    BY <1>4 DEF Left
  <2> QED
    BY <1>1, <1>2, <1>4, <2>1
<1>5. CASE pc[r] = "summary"
  <2>1. Left(r) = Attempts - attempt[r] /\ Left(r)' = Attempts - (attempt[r] + 1)
    BY <1>5 DEF Left
  <2> QED
    BY <1>2, <2>1
<1> QED
  BY <1>3, <1>4, <1>5

LEMMA BeginLowers == ASSUME NEW r \in Run, IInv, Begin(r) PROVE Left(r)' < Left(r)
<1> DEFINE n == Cardinality(findings[r])
           m == Cardinality(findings'[r])
<1>0. Counted(r) /\ pc[r] = "start" /\ r \in DOMAIN pc /\ r \in DOMAIN findings
  BY CountedAlways DEF IInv, TypeOK, Begin
<1>1. CASE pc'[r] = "skipped"
  BY <1>0, <1>1, EndingLowers DEF Over
<1>2. CASE pc'[r] = "list"
  <2>1. findings'[r] \in {findings[r], {}}
    BY <1>0, <1>2 DEF Begin, Goto
  <2>2. m \in Nat /\ m =< n /\ n \in Nat /\ Attempts \in Nat
    BY <1>0, <2>1, FS_EmptySet DEF Counted
  <2>3. m * Attempts \in Nat /\ n * Attempts \in Nat /\ m * Attempts =< n * Attempts
    BY <2>2, Products
  <2>4. /\ Left(r) = n * Attempts + 2 * Attempts + 3
        /\ Left(r)' = m * Attempts + 2 * Attempts + 2
    BY <1>0, <1>2 DEF Left
  <2> QED
    BY <2>2, <2>3, <2>4
<1> QED
  BY <1>0, <1>1, <1>2 DEF Begin, Goto

LEMMA ListLowers == ASSUME NEW r \in Run, IInv, ListReviewComments(r) PROVE Left(r)' < Left(r)
<1> DEFINE n == Cardinality(findings[r])
<1>0. Counted(r) /\ pc[r] = "list" /\ r \in DOMAIN pc
  BY CountedAlways DEF IInv, TypeOK, ListReviewComments
<1>1. CASE pc'[r] = "failed"
  BY <1>0, <1>1, EndingLowers DEF Over
<1>2. CASE pc'[r] = "review"
  <2>1. n * Attempts \in Nat /\ Attempts \in Nat /\ attempt[r] \in Nat
    BY <1>0, Products DEF Counted
  <2>2. findings' = findings /\ attempt' = attempt
    BY DEF ListReviewComments, run
  <2>3. /\ Left(r) = n * Attempts + 2 * Attempts + 2
        /\ Left(r)' = n * Attempts + 2 * Attempts + 1 - attempt[r]
    BY <1>0, <1>2, <2>2 DEF Left
  <2> QED
    BY <2>1, <2>3
<1> QED
  BY <1>0, <1>1, <1>2 DEF ListReviewComments, Goto

LEMMA CreateReviewLowers ==
    ASSUME NEW r \in Run, IInv, CreateReview(r)
    PROVE  Left(r)' < Left(r)
<1> DEFINE n == Cardinality(findings[r])
           q == Cardinality(ToPost(r, "file"))
<1>0. /\ Counted(r) /\ pc[r] = "review" /\ r \in DOMAIN pc /\ r \in DOMAIN queue
      /\ findings' = findings /\ queue'[r] = ToPost(r, "file")
  BY CountedAlways DEF IInv, TypeOK, CreateReview, run
<1>1. q \in Nat /\ q =< n
  <2>1. ToPost(r, "file") \in SUBSET findings[r] /\ IsFiniteSet(findings[r])
    BY ToPostFacts DEF IInv, RunInv, Reported
  <2> QED
    BY <2>1, FS_Subset, FS_CardinalityType
<1>2. ASSUME pc'[r] = "files", attempt'[r] \in Nat PROVE Left(r)' < Left(r)
  <2>1. Attempts \in Nat /\ attempt[r] \in Nat /\ attempt[r] < Attempts
    BY <1>0 DEF Counted
  <2>2. q * Attempts \in Nat /\ n * Attempts \in Nat /\ q * Attempts =< n * Attempts
    BY <1>0, <1>1, <2>1, Products DEF Counted
  <2>3. /\ Left(r) = n * Attempts + 2 * Attempts + 1 - attempt[r]
        /\ Left(r)' = q * Attempts + Attempts + 1 - attempt'[r]
    BY <1>0, <1>2 DEF Left
  <2> QED
    BY <1>2, <2>1, <2>2, <2>3
<1>3. CASE ToPost(r, "line") = {}
  <2>1. pc'[r] = "files" /\ attempt'[r] = attempt[r]
    BY <1>0, <1>3 DEF CreateReview, Goto
  <2> QED
    BY <1>0, <1>2, <2>1 DEF Counted
<1>4. CASE ToPost(r, "line") # {}
  <2>1. PICK response \in Response : Answered(r, response, "files")
    BY <1>4 DEF CreateReview
  <2>2. "files" \in Step /\ TypeOK
    BY DEF Step, IInv
  <2>3. CASE pc'[r] = pc[r] /\ attempt'[r] = attempt[r] + 1
    BY <1>0, <2>3, RepeatingLowers
  <2>4. CASE pc'[r] = "files"
    <3>1. attempt'[r] \in Nat
      BY <2>1, <2>2, AnsweredFacts
    <3> QED
      BY <1>2, <2>4, <3>1
  <2>5. CASE pc'[r] = "failed"
    BY <1>0, <2>5, EndingLowers DEF Over
  <2> QED
    BY <2>1, <2>2, <2>3, <2>4, <2>5, AnsweredFacts
<1> QED
  BY <1>3, <1>4

LEMMA CreateFileCommentLowers ==
    ASSUME NEW r \in Run, IInv, CreateFileComment(r)
    PROVE  Left(r)' < Left(r)
<1> DEFINE q == Cardinality(queue[r])
<1>0. /\ Counted(r) /\ pc[r] = "files" /\ TypeOK /\ "files" \in Step /\ findings' = findings
      /\ r \in DOMAIN queue
  BY CountedAlways DEF IInv, TypeOK, CreateFileComment, run, Step
<1>1. PICK f \in queue[r], response \in Response :
        /\ Answered(r, response, "files")
        /\ queue' = IF response = "ok" THEN [queue EXCEPT ![r] = @ \ {f}] ELSE queue
  BY DEF CreateFileComment
<1>2. CASE response = "ok" /\ pc'[r] = "files"
  <2>1. IsFiniteSet(queue[r])
    <3>1. queue[r] \in SUBSET findings[r] /\ IsFiniteSet(findings[r])
      BY <1>0, ToPostFacts DEF IInv, RunInv, AtStep, Reported
    <3> QED
      BY <3>1, FS_Subset
  <2>2. queue'[r] = queue[r] \ {f} /\ Cardinality(queue'[r]) = q - 1
    BY <1>0, <1>1, <1>2, <2>1, FS_RemoveElement
  <2>3. attempt'[r] \in Nat
    BY <1>0, <1>1, AnsweredFacts
  <2>4. q \in Nat /\ Attempts \in Nat /\ attempt[r] \in Nat /\ attempt[r] < Attempts
    BY <1>0 DEF Counted
  <2>5. q * Attempts \in Nat /\ (q - 1) * Attempts = q * Attempts - Attempts
    BY <2>4, OneProductLess
  <2>6. /\ Left(r) = q * Attempts + Attempts + 1 - attempt[r]
        /\ Left(r)' = (q - 1) * Attempts + Attempts + 1 - attempt'[r]
    BY <1>0, <1>2, <2>2 DEF Left
  <2> QED
    BY <2>3, <2>4, <2>5, <2>6
<1>3. CASE response = "retry" /\ pc'[r] = pc[r] /\ attempt'[r] = attempt[r] + 1
  BY <1>0, <1>1, <1>3, RepeatingLowers
<1>4. CASE pc'[r] = "failed"
  BY <1>0, <1>4, EndingLowers DEF Over
<1> QED
  BY <1>0, <1>1, <1>2, <1>3, <1>4, AnsweredFacts

LEMMA LocateLowers == ASSUME NEW r \in Run, IInv, LocateSummary(r) PROVE Left(r)' < Left(r)
<1>0. Counted(r) /\ pc[r] = "files" /\ r \in DOMAIN pc /\ attempt' = attempt /\ queue[r] = {}
  BY CountedAlways DEF IInv, TypeOK, LocateSummary
<1>1. CASE pc'[r] = "failed"
  BY <1>0, <1>1, EndingLowers DEF Over
<1>2. CASE pc'[r] = "summary"
  <2>1. Cardinality(queue[r]) = 0 /\ Attempts \in Nat /\ attempt[r] \in Nat
    BY <1>0, FS_EmptySet DEF Counted
  <2>2. /\ Left(r) = 0 * Attempts + Attempts + 1 - attempt[r]
        /\ Left(r)' = Attempts - attempt[r]
    BY <1>0, <1>2, <2>1 DEF Left
  <2> QED
    BY <2>1, <2>2
<1> QED
  BY <1>0, <1>1, <1>2 DEF LocateSummary, Goto

LEMMA WritingLowers ==
    ASSUME NEW r \in Run, IInv, EditSummary(r) \/ CreateSummary(r)
    PROVE  Left(r)' < Left(r)
<1>0. pc[r] = "summary" /\ TypeOK /\ "done" \in Step /\ findings' = findings
  BY DEF IInv, EditSummary, CreateSummary, run, Step
<1>1. PICK response \in Response : Answered(r, response, "done")
  BY DEF EditSummary, CreateSummary
<1>2. CASE pc'[r] \in {"done", "failed"}
  BY <1>0, <1>2, EndingLowers DEF Over
<1>3. CASE pc'[r] = pc[r] /\ attempt'[r] = attempt[r] + 1
  BY <1>0, <1>3, RepeatingLowers
<1> QED
  BY <1>0, <1>1, <1>2, <1>3, AnsweredFacts

\* A step is a run's own.
LEMMA OthersNotLowered ==
    ASSUME NEW r \in Run, IInv, Progress(r) \/ Crash(r), NEW q \in Run, q # r
    PROVE  Left(q)' = Left(q)
<1>1. TypeOK /\ "files" \in Step /\ "done" \in Step
  BY DEF IInv, Step
<1>2. pc'[q] = pc[q] /\ attempt'[q] = attempt[q]
  <2>1. CASE Begin(r) \/ ListReviewComments(r) \/ LocateSummary(r) \/ Crash(r)
    BY <1>1, <2>1 DEF Begin, ListReviewComments, LocateSummary, Crash, Goto, TypeOK
  <2>2. CASE CreateReview(r)
    <3>1. CASE ToPost(r, "line") = {}
      BY <1>1, <2>2, <3>1 DEF CreateReview, Goto, TypeOK
    <3>2. CASE ToPost(r, "line") # {}
      BY <1>1, <2>2, <3>2, AnsweredFacts DEF CreateReview
    <3> QED
      BY <3>1, <3>2
  <2>3. CASE CreateFileComment(r) \/ EditSummary(r) \/ CreateSummary(r)
    BY <1>1, <2>3, AnsweredFacts DEF CreateFileComment, EditSummary, CreateSummary
  <2> QED
    BY <2>1, <2>2, <2>3 DEF Progress
<1>3. findings'[q] = findings[q]
  BY <1>1 DEF Progress, Begin, ListReviewComments, CreateReview, CreateFileComment, LocateSummary,
              EditSummary, CreateSummary, Crash, run, TypeOK
<1>4. queue'[q] = queue[q]
  BY <1>1 DEF Progress, Begin, ListReviewComments, CreateReview, CreateFileComment, LocateSummary,
              EditSummary, CreateSummary, Crash, TypeOK
<1> QED
  BY <1>2, <1>3, <1>4 DEF Left

\* Each step brings one run closer to its end and sets no other back: a run
\* ends after at most Left(r) steps of its own, as many as its calls have
\* attempts and a few more, however the runs overlap, fail and are repeated.
THEOREM RunsRunOut ==
    Spec => /\ [](\A r \in Run : Left(r) \in Nat /\ (~Over(pc[r]) => Left(r) > 0))
            /\ [][\E r \in Run : /\ Left(r)' < Left(r)
                                 /\ \A q \in Run \ {r} : Left(q)' = Left(q)]_vars
<1>1. IInv => \A r \in Run : Left(r) \in Nat /\ (~Over(pc[r]) => Left(r) > 0)
  BY CountedAlways, LeftIsNatural DEF IInv, TypeOK
<1>2. ASSUME IInv, [Next]_vars
      PROVE  [\E r \in Run : /\ Left(r)' < Left(r)
                             /\ \A q \in Run \ {r} : Left(q)' = Left(q)]_vars
  <2>1. CASE UNCHANGED vars
    BY <2>1
  <2>2. ASSUME NEW r \in Run, Progress(r) \/ Crash(r)
        PROVE  /\ Left(r)' < Left(r)
               /\ \A q \in Run \ {r} : Left(q)' = Left(q)
    <3>1. CASE Crash(r)
      <4>1. ~Over(pc[r]) /\ pc'[r] = "failed"
        BY <1>2, <3>1 DEF Crash, Goto, Over, IInv, TypeOK
      <4> QED
        BY <1>2, <2>2, <4>1, EndingLowers, OthersNotLowered DEF Over
    <3>2. CASE Progress(r)
      <4>1. Left(r)' < Left(r)
        BY <1>2, <3>2, BeginLowers, ListLowers, CreateReviewLowers, CreateFileCommentLowers,
           LocateLowers, WritingLowers DEF Progress
      <4> QED
        BY <1>2, <2>2, <4>1, OthersNotLowered
    <3> QED
      BY <2>2, <3>1, <3>2
  <2> QED
    BY <1>2, <2>1, <2>2 DEF Next, Terminated
<1> QED
  BY <1>1, <1>2, InvariantHolds, PTL DEF Spec

\* Someone is first in every queue: the order file comments are posted in,
\* severities ascending, leaves no two of them waiting for each other.
THEOREM QueuesHaveAFirst ==
    Spec => [](\A r \in Run : pc[r] = "files" /\ queue[r] # {} =>
                \E f \in queue[r] : \A g \in queue[r] : f = g \/ Before(f, g))
<1>1. IInv => \A r \in Run : pc[r] = "files" /\ queue[r] # {} =>
                \E f \in queue[r] : \A g \in queue[r] : f = g \/ Before(f, g)
  <2> SUFFICES ASSUME IInv, NEW r \in Run, pc[r] = "files", queue[r] # {}
               PROVE  \E f \in queue[r] : \A g \in queue[r] : f = g \/ Before(f, g)
    OBVIOUS
  <2>1. queue[r] \in SUBSET Finding /\ Distinct(queue[r])
    BY ToPostFacts DEF IInv, RunInv, AtStep, Reported, Distinct
  <2>2. \A f \in queue[r] : f.severity \in Nat
    BY <2>1 DEF Finding, Severity, Nit, Blocker
  <2> DEFINE severities == {f.severity : f \in queue[r]}
  <2>3. severities \in SUBSET Nat /\ severities # {}
    BY <2>2
  <2>4. PICK low \in severities : \A s \in severities : low =< s
    BY <2>3, LeastNatural
  <2> DEFINE lowest == {f \in queue[r] : f.severity = low}
  <2>5. lowest \in SUBSET Finding /\ lowest # {}
    BY <2>1
  <2>6. PICK f \in lowest : \A g \in lowest : f.id =< g.id
    BY <2>5, LeastId
  <2>7. ASSUME NEW g \in queue[r], f # g PROVE Before(f, g)
    <3>1. f.id # g.id /\ f.id \in Nat /\ g.id \in Nat
      BY <2>1, <2>6, <2>7 DEF Distinct, Finding
    <3>2. f.severity =< g.severity /\ f.severity \in Nat /\ g.severity \in Nat
      BY <2>2, <2>4
    <3>3. CASE f.severity = g.severity
      BY <2>6, <3>1, <3>3 DEF Before
    <3>4. CASE f.severity # g.severity
      BY <3>2, <3>4 DEF Before
    <3> QED
      BY <3>3, <3>4
  <2> QED
    BY <2>7
<1> QED
  BY <1>1, InvariantHolds, PTL
=============================================================================
