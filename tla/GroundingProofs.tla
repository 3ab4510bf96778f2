-------------------------- MODULE GroundingProofs --------------------------
(***************************************************************************)
(* What grounding guarantees about quotes and anchors, for any files and   *)
(* any answers.  For quotes, the lemmas go from the least position of a    *)
(* match, over one entry at one commit, to one entry at the commits its    *)
(* author was shown.  For anchors, they go from one more line of a patch,  *)
(* over one more line of an edit, to the whole patch.  The invariants then *)
(* say how far validation has come with each finding.                      *)
(***************************************************************************)
EXTENDS Grounding, SequenceTheorems, FiniteSetTheorems, WellFoundedInduction, TLAPS

-----------------------------------------------------------------------------
(* Least and greatest elements.                                            *)

LEMMA MinIsLeast ==
    ASSUME NEW T, T \subseteq Nat, T # {}
    PROVE  Min(T) \in T /\ \A y \in T : Min(T) =< y
<1>1. PICK x \in T : \A y \in T : ~(<<y, x>> \in OpToRel(<, Nat))
  BY NatLessThanWellFounded, WFMin
<1>2. \A y \in T : ~(y < x)
  BY <1>1 DEF OpToRel
<1>3. \A y \in T : x \in Nat /\ y \in Nat
  OBVIOUS
<1>4. \A y \in T : x =< y
  BY <1>2, <1>3
<1> QED
  BY <1>4 DEF Min

LEMMA MaxIsGreatest ==
    ASSUME NEW n \in Nat, NEW T, T \subseteq 0 .. n, T # {}
    PROVE  Max(T) \in T /\ \A y \in T : y =< Max(T)
<1> DEFINE Below == {n - x : x \in T}
<1>1. Below \subseteq Nat /\ Below # {}
  <2>1. \A x \in T : n - x \in Nat
    OBVIOUS
  <2> QED
    BY <2>1
<1>2. Min(Below) \in Below /\ \A c \in Below : Min(Below) =< c
  BY <1>1, MinIsLeast
<1>3. PICK x \in T : Min(Below) = n - x
  BY <1>2
<1>4. \A y \in T : n - x =< n - y
  BY <1>2, <1>3
<1>5. \A y \in T : x \in 0 .. n /\ y \in 0 .. n
  OBVIOUS
<1>6. \A y \in T : x >= y
  BY <1>4, <1>5
<1>7. Max(T) \in T /\ \A y \in T : Max(T) >= y
  BY <1>6 DEF Max
<1> QED
  BY <1>5, <1>7

-----------------------------------------------------------------------------
(* Texts and quotes.                                                       *)

LEMMA TrimmedLines ==
    ASSUME NEW lines \in Seq(Line)
    PROVE  /\ TrimEachLine(lines) \in Seq(Text)
           /\ Len(TrimEachLine(lines)) = Len(lines)
           /\ DOMAIN lines = 1 .. Len(lines)
           /\ Len(lines) \in Nat
           /\ \A i \in 1 .. Len(lines) : TrimEachLine(lines)[i] = lines[i].text
<1>1. Len(lines) \in Nat /\ DOMAIN lines = 1 .. Len(lines)
  BY LenProperties
<1>2. \A i \in 1 .. Len(lines) : lines[i].text \in Text
  <2>1. \A i \in 1 .. Len(lines) : lines[i] \in Line
    BY ElementOfSeq
  <2> QED
    BY <2>1 DEF Line
<1>3. TrimEachLine(lines) = [i \in 1 .. Len(lines) |-> lines[i].text]
  BY <1>1 DEF TrimEachLine
<1>4. TrimEachLine(lines) \in Seq(Text) /\ Len(TrimEachLine(lines)) = Len(lines)
  BY <1>1, <1>2, <1>3
<1> QED
  BY <1>1, <1>3, <1>4

\* Trimming leaves a sequence of texts.
LEMMA NormalizedQuote ==
    ASSUME NEW lines \in Seq(Line)
    PROVE  NormalizeQuote(lines) \in Seq(Text)
<1> DEFINE solid == {i \in DOMAIN lines : lines[i].text # Blank}
<1>1. CASE solid = {}
  <2>1. NormalizeQuote(lines) = <<>>
    BY <1>1 DEF NormalizeQuote
  <2> QED
    BY <2>1, EmptySeq
<1>2. CASE solid # {}
  <2>1. solid \subseteq 1 .. Len(lines) /\ Len(lines) \in Nat
    BY TrimmedLines
  <2>2. Min(solid) \in solid /\ Max(solid) \in solid /\ Min(solid) =< Max(solid)
    <3>1. solid \subseteq Nat /\ solid \subseteq 0 .. Len(lines)
      BY <2>1
    <3> QED
      BY <1>2, <2>1, <3>1, MinIsLeast, MaxIsGreatest
  <2>3. Min(solid) \in 1 .. Len(lines) /\ Max(solid) \in 1 .. Len(lines)
    BY <2>1, <2>2
  <2>4. \A i \in Min(solid) .. Max(solid) : TrimEachLine(lines)[i] \in Text
    <3> SUFFICES ASSUME NEW i \in Min(solid) .. Max(solid)
                 PROVE  TrimEachLine(lines)[i] \in Text
      OBVIOUS
    <3>1. i \in 1 .. Len(lines)
      BY <2>1, <2>3
    <3> QED
      BY <3>1, TrimmedLines, ElementOfSeq
  <2>5. NormalizeQuote(lines) = SubSeq(TrimEachLine(lines), Min(solid), Max(solid))
    BY <1>2 DEF NormalizeQuote
  <2> QED
    BY <2>1, <2>2, <2>3, <2>4, <2>5, SubSeqProperties
<1> QED
  BY <1>1, <1>2

LEMMA TextType ==
    ASSUME files \in [Path -> File], NEW p \in Path, NEW side \in Side
    PROVE  Contents(p, side) \in Seq(Line) /\ TextAt(p, side) \in Seq(Text)
<1>1. files[p].lines[side] \in Seq(Line)
  BY DEF File
<1>2. [pad |-> "", text |-> Blank] \in Line
  BY TextAssumption DEF Line
<1>3. Append(files[p].lines[side], [pad |-> "", text |-> Blank]) \in Seq(Line)
  BY <1>1, <1>2, AppendProperties
<1>4. Contents(p, side) \in Seq(Line)
  BY <1>1, <1>3 DEF Contents
<1> QED
  BY <1>4, TrimmedLines DEF TextAt

\* Where a window matches, the quote is, and the other way round.
LEMMA MatchIsAt ==
    ASSUME NEW text \in Seq(Text), NEW quote \in Seq(Text), NEW start \in Nat,
           1 =< start, start + Len(quote) - 1 =< Len(text)
    PROVE  WindowMatches(text, quote, start) <=> IsAt(quote, text, start)
<1> DEFINE last == start + Len(quote) - 1
           window == SubSeq(text, start, last)
<1>0. Len(quote) \in Nat /\ Len(text) \in Nat /\ DOMAIN quote = 1 .. Len(quote)
  BY LenProperties
<1>1. \A i \in start .. last : text[i] \in Text
  <2> SUFFICES ASSUME NEW i \in start .. last PROVE text[i] \in Text
    OBVIOUS
  <2>1. i \in 1 .. Len(text)
    BY <1>0
  <2> QED
    BY <2>1, ElementOfSeq
<1>2. /\ window \in Seq(Text)
      /\ Len(window) = IF start =< last THEN last - start + 1 ELSE 0
      /\ \A i \in 1 .. last - start + 1 : window[i] = text[start + i - 1]
  <2>1. start \in Int /\ last \in Int
    BY <1>0
  <2> HIDE DEF last
  <2> QED
    BY <1>1, <2>1, SubSeqProperties
<1>3. Len(window) = Len(quote) /\ last - start + 1 = Len(quote)
  BY <1>0, <1>2
<1>4. WindowMatches(text, quote, start) <=> window = quote
  <2>1. ASSUME WindowMatches(text, quote, start) PROVE window = quote
    <3>1. \A i \in 1 .. Len(window) : window[i] = quote[i]
      BY <1>0, <1>2, <1>3, <2>1 DEF WindowMatches
    <3> QED
      BY <1>2, <1>3, <3>1, SeqEqual
  <2>2. ASSUME window = quote PROVE WindowMatches(text, quote, start)
    BY <1>0, <1>2, <1>3, <2>2 DEF WindowMatches
  <2> QED
    BY <2>1, <2>2
<1> QED
  BY <1>4 DEF IsAt

\* A quote that occurs in a text begins somewhere in it.
LEMMA OccurrenceIsAt ==
    ASSUME NEW text \in Seq(Text), NEW quote \in Seq(Text), Occurs(quote, text)
    PROVE  \E start \in Nat : IsAt(quote, text, start)
<1>0. Len(quote) \in Nat /\ Len(text) \in Nat /\ DOMAIN quote = 1 .. Len(quote)
  BY LenProperties
<1>1. PICK i \in 0 .. Len(text), j \in 0 .. Len(text) :
        text = SubSeq(text, 1, i) \o quote \o SubSeq(text, j + 1, Len(text))
  BY DEF Occurs
<1> DEFINE head == SubSeq(text, 1, i)
           tail == SubSeq(text, j + 1, Len(text))
<1>2. head \in Seq(Text) /\ Len(head) = i /\ tail \in Seq(Text) /\ Len(tail) \in Nat
  <2>1. \A k \in 1 .. i : text[k] \in Text
    BY <1>0, ElementOfSeq
  <2>2. \A k \in j + 1 .. Len(text) : text[k] \in Text
    BY <1>0, ElementOfSeq
  <2>3. i \in Int /\ j + 1 \in Int /\ Len(text) \in Int /\ 1 \in Int
    BY <1>0
  <2>4. head \in Seq(Text) /\ Len(head) = IF 1 =< i THEN i - 1 + 1 ELSE 0
    BY <2>1, <2>3, SubSeqProperties
  <2>5. tail \in Seq(Text)
    BY <2>2, <2>3, SubSeqProperties
  <2> QED
    BY <2>4, <2>5, LenProperties
<1> HIDE DEF head, tail
<1>3. /\ head \o quote \in Seq(Text)
      /\ Len(head \o quote) = i + Len(quote)
      /\ \A k \in 1 .. Len(quote) : (head \o quote)[i + k] = quote[k]
  <2>1. \A k \in 1 .. Len(quote) : i + k \in 1 .. i + Len(quote) /\ ~(i + k =< i) /\ (i + k) - i = k
    BY <1>0
  <2>2. /\ head \o quote \in Seq(Text)
        /\ Len(head \o quote) = i + Len(quote)
        /\ \A n \in 1 .. i + Len(quote) :
              (head \o quote)[n] = IF n =< i THEN head[n] ELSE quote[n - i]
    BY <1>2, ConcatProperties
  <2> QED
    BY <1>0, <2>1, <2>2
<1>4. /\ Len(text) = i + Len(quote) + Len(tail)
      /\ \A k \in 1 .. Len(quote) : text[i + k] = quote[k]
  <2>1. text = (head \o quote) \o tail
    BY <1>1 DEF head, tail
  <2>2. \A k \in 1 .. Len(quote) :
            i + k \in 1 .. (i + Len(quote)) + Len(tail) /\ i + k =< i + Len(quote)
    BY <1>0, <1>2
  <2> QED
    BY <1>0, <1>2, <1>3, <2>1, <2>2, ConcatProperties
<1>5. WindowMatches(text, quote, i + 1)
  <2>1. \A k \in 1 .. Len(quote) : (i + 1) + k - 1 = i + k
    BY <1>0
  <2> QED
    BY <1>0, <1>4, <2>1 DEF WindowMatches
<1>6. i + 1 \in Nat /\ 1 =< i + 1 /\ (i + 1) + Len(quote) - 1 =< Len(text)
  BY <1>0, <1>2, <1>4
<1> QED
  BY <1>5, <1>6, MatchIsAt
-----------------------------------------------------------------------------
(* One quote in one text.                                                  *)

\* A position that is returned is one, every occurrence is noticed, and a
\* cited position is preferred.
LEMMA Located ==
    ASSUME NEW text \in Seq(Text), NEW quote \in Seq(Text), quote # <<>>, NEW cited \in Nat
    PROVE  /\ LocateQuote(text, quote, cited) \in Nat
           /\ LocateQuote(text, quote, cited) # NotFound =>
                IsAt(quote, text, LocateQuote(text, quote, cited))
           /\ Occurs(quote, text) => LocateQuote(text, quote, cited) # NotFound
           /\ \A s \in Nat : IsAt(quote, text, s) => LocateQuote(text, quote, cited) # NotFound
           /\ IsAt(quote, text, cited) => LocateQuote(text, quote, cited) = cited
<1> DEFINE starts == {s \in 1 .. Len(text) - Len(quote) + 1 : WindowMatches(text, quote, s)}
           start == LocateQuote(text, quote, cited)
<1>0. Len(quote) \in Nat /\ Len(text) \in Nat
  BY LenProperties
<1>1. \A s \in starts : s \in Nat /\ s # 0 /\ IsAt(quote, text, s)
  <2> SUFFICES ASSUME NEW s \in starts PROVE s \in Nat /\ s # 0 /\ IsAt(quote, text, s)
    OBVIOUS
  <2>1. s \in Nat /\ 1 =< s /\ s + Len(quote) - 1 =< Len(text)
    BY <1>0
  <2> QED
    BY <2>1, MatchIsAt
<1>2. \A s \in Nat : IsAt(quote, text, s) => s \in starts
  <2> SUFFICES ASSUME NEW s \in Nat, IsAt(quote, text, s) PROVE s \in starts
    OBVIOUS
  <2>1. 1 =< s /\ s + Len(quote) - 1 =< Len(text)
    BY DEF IsAt
  <2>2. WindowMatches(text, quote, s)
    BY <2>1, MatchIsAt
  <2> QED
    BY <1>0, <2>1, <2>2
<1>3. start = IF starts = {} THEN NotFound ELSE IF cited \in starts THEN cited ELSE Min(starts)
  BY DEF LocateQuote
<1> HIDE DEF starts, start
<1>4. starts # {} => Min(starts) \in starts
  BY <1>1, MinIsLeast
<1>5. start \in Nat /\ (start # NotFound => IsAt(quote, text, start))
  BY <1>1, <1>3, <1>4 DEF NotFound
<1>6. ASSUME NEW s \in Nat, IsAt(quote, text, s) PROVE start # NotFound
  <2>1. starts # {}
    BY <1>2, <1>6
  <2> QED
    BY <1>1, <1>3, <1>4, <2>1 DEF NotFound
<1>7. ASSUME Occurs(quote, text) PROVE start # NotFound
  BY <1>6, <1>7, OccurrenceIsAt
<1>8. ASSUME IsAt(quote, text, cited) PROVE start = cited
  BY <1>2, <1>3, <1>8
<1> QED
  BY <1>5, <1>6, <1>7, <1>8 DEF start

-----------------------------------------------------------------------------
(* One entry, at one commit and at those its author was shown.             *)

Quote(e) == NormalizeQuote(e.source)

LEMMA EntryGrounded ==
    ASSUME files \in [Path -> File], NEW e \in Entry, NEW side \in Side
    PROVE  /\ GroundEntry(e, side) \in Nat
           /\ GroundEntry(e, side) # NotFound =>
                /\ Quote(e) # <<>> /\ side \in files[e.path].readable
                /\ IsAt(Quote(e), TextAt(e.path, side), GroundEntry(e, side))
           /\ Quote(e) # <<>> /\ side \in files[e.path].readable =>
                /\ Occurs(Quote(e), TextAt(e.path, side)) => GroundEntry(e, side) # NotFound
                /\ \A s \in Nat : IsAt(Quote(e), TextAt(e.path, side), s) =>
                      GroundEntry(e, side) # NotFound
                /\ IsAt(Quote(e), TextAt(e.path, side), e.start) => GroundEntry(e, side) = e.start
<1>1. e.path \in Path /\ e.start \in Nat /\ e.source \in Seq(Line)
  BY DEF Entry
<1>2. Quote(e) \in Seq(Text) /\ TextAt(e.path, side) \in Seq(Text)
  BY <1>1, NormalizedQuote, TextType DEF Quote
<1>3. CASE side \notin files[e.path].readable \/ Quote(e) = <<>>
  <2>1. GroundEntry(e, side) = NotFound
    BY <1>3 DEF GroundEntry, Quote
  <2> QED
    BY <1>3, <2>1 DEF NotFound
<1>4. CASE side \in files[e.path].readable /\ Quote(e) # <<>>
  <2>1. GroundEntry(e, side) = LocateQuote(TextAt(e.path, side), Quote(e), e.start)
    BY <1>4 DEF GroundEntry, Quote, TextAt
  <2> DEFINE text == TextAt(e.path, side)
             start == LocateQuote(text, Quote(e), e.start)
  <2>2. /\ start \in Nat
        /\ start # NotFound => IsAt(Quote(e), text, start)
        /\ Occurs(Quote(e), text) => start # NotFound
        /\ \A s \in Nat : IsAt(Quote(e), text, s) => start # NotFound
        /\ IsAt(Quote(e), text, e.start) => start = e.start
    <3> HIDE DEF text
    <3>1. text \in Seq(Text) /\ Quote(e) \in Seq(Text) /\ Quote(e) # <<>> /\ e.start \in Nat
      BY <1>1, <1>2, <1>4 DEF text
    <3> QED
      BY <3>1, Located
  <2> QED
    BY <1>4, <2>1, <2>2
<1> QED
  BY <1>3, <1>4

\* The solid part of lines that byte-match a file is in it, a few lines on.
LEMMA ByteMatchIsAt ==
    ASSUME files \in [Path -> File], NEW e \in Entry, NEW side \in Side,
           ByteMatches(e, side), Quote(e) # <<>>
    PROVE  \E s \in Nat : IsAt(Quote(e), TextAt(e.path, side), s)
<1> DEFINE source == e.source
           content == Contents(e.path, side)
           text == TextAt(e.path, side)
           solid == {i \in DOMAIN source : source[i].text # Blank}
           lo == Min(solid)
           hi == Max(solid)
           s == e.start + lo - 1
<1>1. e.path \in Path /\ e.start \in Nat /\ source \in Seq(Line)
  BY DEF Entry
<1>2. content \in Seq(Line) /\ text \in Seq(Text) /\ text = TrimEachLine(content)
  BY <1>1, TextType DEF TextAt
<1>3. /\ 1 =< e.start /\ e.start + Len(source) - 1 =< Len(content)
      /\ SubSeq(content, e.start, e.start + Len(source) - 1) = source
  BY DEF ByteMatches
<1>4. solid # {} /\ Quote(e) = SubSeq(TrimEachLine(source), lo, hi)
  BY DEF Quote, NormalizeQuote
<1>5. /\ Len(source) \in Nat /\ DOMAIN source = 1 .. Len(source)
      /\ Len(content) \in Nat /\ Len(text) = Len(content)
      /\ \A i \in 1 .. Len(source) : TrimEachLine(source)[i] = source[i].text
      /\ \A i \in 1 .. Len(content) : text[i] = content[i].text
  BY <1>1, <1>2, TrimmedLines
<1>6. lo \in 1 .. Len(source) /\ hi \in 1 .. Len(source) /\ lo =< hi
  <2>1. solid \subseteq Nat /\ solid \subseteq 0 .. Len(source) /\ solid \subseteq 1 .. Len(source)
    BY <1>5
  <2>2. lo \in solid /\ hi \in solid /\ lo =< hi
    BY <1>4, <1>5, <2>1, MinIsLeast, MaxIsGreatest
  <2> QED
    BY <2>1, <2>2
<1> HIDE DEF source, content, text, solid, lo, hi
<1>7. \A k \in 1 .. Len(source) : source[k] = content[e.start + k - 1]
  <2> DEFINE last == e.start + Len(source) - 1
  <2>1. \A i \in e.start .. last : content[i] \in Line
    <3> SUFFICES ASSUME NEW i \in e.start .. last PROVE content[i] \in Line
      OBVIOUS
    <3>1. i \in 1 .. Len(content)
      BY <1>1, <1>3, <1>5
    <3> QED
      BY <1>2, <3>1, ElementOfSeq
  <2>2. e.start \in Int /\ last \in Int /\ last - e.start + 1 = Len(source)
    BY <1>1, <1>5
  <2>3. SubSeq(content, e.start, last) = source
    BY <1>3
  <2> HIDE DEF last
  <2>4. \A k \in 1 .. last - e.start + 1 :
            SubSeq(content, e.start, last)[k] = content[e.start + k - 1]
    BY <2>1, <2>2, SubSeqProperties
  <2> QED
    BY <2>2, <2>3, <2>4
<1>8. /\ Quote(e) \in Seq(Text) /\ Len(Quote(e)) = hi - lo + 1
      /\ DOMAIN Quote(e) = 1 .. hi - lo + 1
      /\ \A k \in 1 .. hi - lo + 1 : Quote(e)[k] = source[lo + k - 1].text
  <2>1. Quote(e) \in Seq(Text)
    BY <1>1, NormalizedQuote DEF Quote, source
  <2>2. TrimEachLine(source) \in Seq(Text) /\ Len(TrimEachLine(source)) = Len(source)
    BY <1>1, TrimmedLines
  <2>3. \A i \in lo .. hi : TrimEachLine(source)[i] \in Text
    <3> SUFFICES ASSUME NEW i \in lo .. hi PROVE TrimEachLine(source)[i] \in Text
      OBVIOUS
    <3>1. i \in 1 .. Len(source)
      BY <1>5, <1>6
    <3> QED
      BY <2>2, <3>1, ElementOfSeq
  <2>4. lo \in Int /\ hi \in Int /\ lo =< hi
    BY <1>5, <1>6
  <2>5. /\ Len(Quote(e)) = hi - lo + 1
        /\ \A k \in 1 .. hi - lo + 1 : Quote(e)[k] = TrimEachLine(source)[lo + k - 1]
    BY <1>4, <2>3, <2>4, SubSeqProperties
  <2>6. \A k \in 1 .. hi - lo + 1 : lo + k - 1 \in 1 .. Len(source)
    BY <1>5, <1>6
  <2> QED
    BY <1>5, <2>1, <2>5, <2>6, LenProperties
<1>9. s \in Nat /\ 1 =< s /\ s + Len(Quote(e)) - 1 =< Len(text)
  <2>1. /\ e.start \in Nat /\ Len(source) \in Nat /\ Len(content) \in Nat
        /\ 1 =< e.start /\ e.start + Len(source) - 1 =< Len(content)
        /\ lo \in 1 .. Len(source) /\ hi \in 1 .. Len(source) /\ lo =< hi
        /\ Len(text) = Len(content) /\ Len(Quote(e)) = hi - lo + 1
    BY <1>1, <1>3, <1>5, <1>6, <1>8
  <2> QED
    BY ONLY <2>1
<1>10. WindowMatches(text, Quote(e), s)
  <2> SUFFICES ASSUME NEW k \in 1 .. hi - lo + 1 PROVE text[s + k - 1] = Quote(e)[k]
    BY <1>8 DEF WindowMatches
  <2>1. /\ lo + k - 1 \in 1 .. Len(source)
        /\ s + k - 1 = e.start + (lo + k - 1) - 1
        /\ s + k - 1 \in 1 .. Len(content)
    <3>1. /\ e.start \in Nat /\ Len(source) \in Nat /\ Len(content) \in Nat
          /\ 1 =< e.start /\ e.start + Len(source) - 1 =< Len(content)
          /\ lo \in 1 .. Len(source) /\ hi \in 1 .. Len(source) /\ k \in 1 .. hi - lo + 1
      BY <1>1, <1>3, <1>5, <1>6
    <3> QED
      BY ONLY <3>1
  <2> QED
    BY <1>5, <1>7, <1>8, <2>1
<1> HIDE DEF s
<1> QED
  BY <1>2, <1>8, <1>9, <1>10, MatchIsAt DEF text

LEMMA SidesShown ==
    ASSUME NEW f \in Finding
    PROVE  /\ DOMAIN Sides(f) \subseteq Nat
           /\ \A n \in DOMAIN Sides(f) : Sides(f)[n] \in Shown(f)
           /\ \A side \in Shown(f) : \E n \in DOMAIN Sides(f) : Sides(f)[n] = side
           /\ 1 \in DOMAIN Sides(f) /\ Sides(f)[1] = f.anchor.ref
           /\ \A n \in DOMAIN Sides(f) : 1 =< n
           /\ Shown(f) \subseteq Side /\ f.anchor.ref \in Shown(f)
<1>1. f.anchor.ref \in Side
  BY DEF Finding, Anchor
<1>2. Other(f.anchor.ref) \in Side /\ Other(f.anchor.ref) # f.anchor.ref
  BY <1>1 DEF Other, Side
<1>3. Side = {f.anchor.ref, Other(f.anchor.ref)}
  BY <1>1, <1>2 DEF Side
<1>4. CASE f.author = "judgment"
  <2>1. Sides(f) = <<f.anchor.ref, Other(f.anchor.ref)>> /\ Shown(f) = Side
    BY <1>4 DEF Sides, Shown
  <2> QED
    BY <1>1, <1>2, <1>3, <2>1
<1>5. CASE f.author # "judgment"
  <2>1. Sides(f) = <<f.anchor.ref>> /\ Shown(f) = {f.anchor.ref}
    BY <1>5 DEF Sides, Shown
  <2> QED
    BY <1>1, <2>1
<1> QED
  BY <1>4, <1>5

LEMMA Placed ==
    ASSUME files \in [Path -> File], NEW f \in Finding, NEW e \in Entry
    PROVE  /\ Place(f, e) \in Nat
           /\ Place(f, e) # NotFound =>
                \E side \in Shown(f) :
                    GroundEntry(e, side) # NotFound /\ Place(f, e) = GroundEntry(e, side)
           /\ Place(f, e) = NotFound =>
                \A side \in Shown(f) : GroundEntry(e, side) = NotFound
           /\ GroundEntry(e, f.anchor.ref) # NotFound =>
                Place(f, e) = GroundEntry(e, f.anchor.ref)
<1> DEFINE hits == {n \in DOMAIN Sides(f) : GroundEntry(e, Sides(f)[n]) # NotFound}
<1>1. CASE hits = {}
  <2>1. Place(f, e) = NotFound
    BY <1>1 DEF Place
  <2>2. \A side \in Shown(f) : GroundEntry(e, side) = NotFound
    BY <1>1, SidesShown
  <2> QED
    BY <2>1, <2>2, SidesShown DEF NotFound
<1>2. CASE hits # {}
  <2>1. Place(f, e) = GroundEntry(e, Sides(f)[Min(hits)])
    BY <1>2 DEF Place
  <2>2. hits \subseteq Nat
    BY SidesShown
  <2>3. Min(hits) \in hits /\ \A n \in hits : Min(hits) =< n
    BY <1>2, <2>2, MinIsLeast
  <2>4. Sides(f)[Min(hits)] \in Shown(f) /\ GroundEntry(e, Sides(f)[Min(hits)]) # NotFound
    BY <2>3, SidesShown
  <2>5. Place(f, e) \in Nat
    BY <2>1, <2>4, SidesShown, EntryGrounded
  <2>6. ASSUME GroundEntry(e, f.anchor.ref) # NotFound
        PROVE  Place(f, e) = GroundEntry(e, f.anchor.ref)
    <3>1. 1 \in hits
      BY <2>6, SidesShown
    <3>2. Min(hits) =< 1 /\ 1 =< Min(hits) /\ Min(hits) \in Nat
      BY <2>2, <2>3, <3>1, SidesShown
    <3>3. Min(hits) = 1
      BY <3>2
    <3> QED
      BY <2>1, <3>3, SidesShown
  <2> QED
    BY <2>1, <2>4, <2>5, <2>6
<1> QED
  BY <1>1, <1>2

-----------------------------------------------------------------------------
(* Scanning a patch, line after line.  The fold of Scan is a function on   *)
(* sets of positions; facts about it are shown for the set whose greatest  *)
(* position is the least that could refute them.                           *)

PatchLines == [kind : Change \cup {"@@", "\\"}, old : Nat, new : Nat]

Scanning(s, D, f) ==
    f = [d \in SUBSET D |->
            IF d = {} THEN NothingCovered ELSE ScanLine(f[d \ {Max(d)}], s[Max(d)])]

Scanned(s, D) == (CHOOSE f : Scanning(s, D, f))[D]

LEMMA ScanIsScanned == \A s : Scan(s) = Scanned(s, DOMAIN s)
BY DEF Scan, FoldLeft, MapThenFoldSet, Scanned, Scanning

Top(d) == IF d = {} THEN 0 ELSE Max(d)

LEMMA TopIsNatural ==
    ASSUME NEW n \in Nat, NEW d \in SUBSET (1 .. n)
    PROVE  /\ Top(d) \in 0 .. n
           /\ d # {} => /\ Max(d) \in d
                        /\ d \ {Max(d)} \in SUBSET (1 .. n)
                        /\ Top(d \ {Max(d)}) < Top(d)
<1>1. CASE d = {}
  BY <1>1 DEF Top
<1>2. CASE d # {}
  <2> DEFINE m == Max(d)
             e == d \ {m}
  <2>1. d \subseteq 0 .. n
    OBVIOUS
  <2>2. m \in d /\ \A y \in d : y =< m
    BY <1>2, <2>1, MaxIsGreatest
  <2>3. e \in SUBSET (1 .. n) /\ m \in 1 .. n
    BY <2>2
  <2>4. e # {} => Max(e) \in e
    <3>1. e \subseteq 0 .. n
      BY <2>3
    <3> QED
      BY <3>1, MaxIsGreatest
  <2>5. Top(e) < m
    <3>1. CASE e = {}
      BY <2>3, <3>1 DEF Top
    <3>2. CASE e # {}
      <4>1. Max(e) \in d /\ Max(e) # m /\ Max(e) \in 1 .. n
        BY <2>3, <2>4, <3>2
      <4>2. Max(e) =< m
        BY <2>2, <4>1
      <4>3. Max(e) < m
        BY <2>3, <4>1, <4>2
      <4> QED
        BY <3>2, <4>3 DEF Top
    <3> QED
      BY <3>1, <3>2
  <2>6. Top(d) = m
    BY <1>2 DEF Top
  <2> QED
    BY <1>2, <2>2, <2>3, <2>5, <2>6
<1> QED
  BY <1>1, <1>2

LEMMA LowestTop ==
    ASSUME NEW n \in Nat, NEW F, F \subseteq SUBSET (1 .. n), F # {}
    PROVE  \E d \in F : \A e \in F : ~(Top(e) < Top(d))
<1> DEFINE tops == {Top(d) : d \in F}
<1>1. tops \subseteq Nat /\ tops # {}
  <2>1. ASSUME NEW d \in F PROVE Top(d) \in Nat
    <3>1. d \in SUBSET (1 .. n)
      OBVIOUS
    <3>2. Top(d) \in 0 .. n
      BY <3>1, TopIsNatural
    <3> QED
      BY <3>2
  <2> QED
    BY <2>1
<1>2. Min(tops) \in tops /\ \A y \in tops : Min(tops) =< y
  BY <1>1, MinIsLeast
<1>3. PICK d \in F : Min(tops) = Top(d)
  BY <1>2
<1>4. \A e \in F : Top(d) =< Top(e) /\ Top(e) \in Nat /\ Top(d) \in Nat
  BY <1>1, <1>2, <1>3
<1> QED
  BY <1>4

LEMMA ScanningIsUnique ==
    ASSUME NEW n \in Nat, NEW s, NEW D \in SUBSET (1 .. n), NEW f, NEW g,
           Scanning(s, D, f), Scanning(s, D, g)
    PROVE  f = g
<1> DEFINE differ == {d \in SUBSET D : f[d] # g[d]}
<1>1. SUFFICES ASSUME differ # {} PROVE FALSE
  BY DEF Scanning
<1>2. PICK d \in differ : \A e \in differ : ~(Top(e) < Top(d))
  BY <1>1, LowestTop
<1>3. d # {}
  BY <1>2 DEF Scanning
<1>4. d \ {Max(d)} \in SUBSET D
  BY <1>2
<1>5. d \ {Max(d)} \notin differ
  BY <1>2, <1>3, TopIsNatural
<1>6. f[d] = g[d]
  BY <1>2, <1>3, <1>4, <1>5 DEF Scanning
<1> QED
  BY <1>2, <1>6

ScanUnfolds(s, D) ==
    Scanned(s, D) =
        IF D = {} THEN NothingCovered ELSE ScanLine(Scanned(s, D \ {Max(D)}), s[Max(D)])

LEMMA ScannedUnfolds ==
    ASSUME NEW n \in Nat, NEW s
    PROVE  \A D \in SUBSET (1 .. n) : ScanUnfolds(s, D)
<1> DEFINE wrong == {D \in SUBSET (1 .. n) : ~ScanUnfolds(s, D)}
<1>1. SUFFICES ASSUME wrong # {} PROVE FALSE
  OBVIOUS
<1>2. PICK D \in wrong : \A e \in wrong : ~(Top(e) < Top(D))
  BY <1>1, LowestTop
<1>3. D \in SUBSET (1 .. n)
  BY <1>2
<1> DEFINE cov == [d \in SUBSET D |->
              IF d = {} THEN NothingCovered ELSE ScanLine(Scanned(s, d \ {Max(d)}), s[Max(d)])]
<1>4. Scanning(s, D, cov)
  <2> SUFFICES ASSUME NEW d \in SUBSET D, d # {}
               PROVE  cov[d \ {Max(d)}] = Scanned(s, d \ {Max(d)})
    BY DEF Scanning
  <2>1. d \in SUBSET (1 .. n) /\ d \ {Max(d)} \in SUBSET D /\ d \ {Max(d)} \in SUBSET (1 .. n)
    BY <1>3
  <2>2. Top(d \ {Max(d)}) < Top(d) /\ Top(d) =< Top(D)
    <3>1. Top(d \ {Max(d)}) < Top(d) /\ Max(d) \in d
      BY <2>1, TopIsNatural
    <3>2. D \subseteq 0 .. n /\ D # {} /\ Max(d) \in D
      <4>1. D \subseteq 0 .. n
        BY <1>3
      <4>2. Max(d) \in D
        BY <3>1, Zenon
      <4> QED
        BY <4>1, <4>2
    <3>3. Max(d) =< Max(D)
      BY <3>2, MaxIsGreatest
    <3> QED
      BY <3>1, <3>2, <3>3 DEF Top
  <2>3. Top(d \ {Max(d)}) < Top(D)
    <3>1. Top(d \ {Max(d)}) \in 0 .. n /\ Top(d) \in 0 .. n /\ Top(D) \in 0 .. n
      BY <1>3, <2>1, TopIsNatural
    <3> QED
      BY <2>2, <3>1
  <2>4. ScanUnfolds(s, d \ {Max(d)})
    BY <1>2, <2>1, <2>3
  <2> QED
    BY <2>1, <2>4 DEF ScanUnfolds
<1> HIDE DEF cov
<1>5. (CHOOSE f : Scanning(s, D, f)) = cov
  BY <1>3, <1>4, ScanningIsUnique
<1>6. Scanned(s, D) = cov[D]
  BY <1>5 DEF Scanned
<1>7. ScanUnfolds(s, D)
  BY <1>6 DEF ScanUnfolds, cov
<1> QED
  BY <1>2, <1>7

\* Only the lines at the positions count.
LEMMA ScannedAgrees ==
    ASSUME NEW n \in Nat, NEW s, NEW t, \A i \in 1 .. n : s[i] = t[i]
    PROVE  Scanned(s, 1 .. n) = Scanned(t, 1 .. n)
<1> DEFINE differ == {D \in SUBSET (1 .. n) : Scanned(s, D) # Scanned(t, D)}
<1>1. SUFFICES ASSUME differ # {} PROVE FALSE
  OBVIOUS
<1>2. PICK D \in differ : \A e \in differ : ~(Top(e) < Top(D))
  BY <1>1, LowestTop
<1>3. ScanUnfolds(s, D) /\ ScanUnfolds(t, D) /\ D \in SUBSET (1 .. n)
  BY <1>2, ScannedUnfolds
<1>4. D # {}
  BY <1>2, <1>3 DEF ScanUnfolds
<1>5. Max(D) \in 1 .. n /\ D \ {Max(D)} \notin differ /\ D \ {Max(D)} \in SUBSET (1 .. n)
  BY <1>2, <1>3, <1>4, TopIsNatural
<1>6. Scanned(s, D) = Scanned(t, D)
  BY <1>3, <1>4, <1>5 DEF ScanUnfolds
<1> QED
  BY <1>2, <1>6

LEMMA ScanNothing == Scan(<<>>) = NothingCovered
<1>1. DOMAIN <<>> = {} /\ {} \in SUBSET (1 .. 0)
  OBVIOUS
<1>2. ScanUnfolds(<<>>, {})
  BY <1>1, ScannedUnfolds
<1> QED
  BY <1>1, <1>2, ScanIsScanned DEF ScanUnfolds

LEMMA ScanOneMore ==
    ASSUME NEW s \in Seq(PatchLines), NEW line \in PatchLines
    PROVE  s \o <<line>> \in Seq(PatchLines) /\ Scan(s \o <<line>>) = ScanLine(Scan(s), line)
<1> DEFINE t == Append(s, line)
           n == Len(s)
<1>1. n \in Nat /\ DOMAIN s = 1 .. n
  BY LenProperties
<1>2. /\ t \in Seq(PatchLines) /\ t = s \o <<line>>
      /\ Len(t) = n + 1 /\ DOMAIN t = 1 .. n + 1
      /\ (\A i \in 1 .. n : t[i] = s[i]) /\ t[n + 1] = line
  BY AppendProperties, AppendIsConcat, LenProperties
<1> HIDE DEF t, n
<1>3. Max(1 .. n + 1) = n + 1 /\ (1 .. n + 1) # {} /\ (1 .. n + 1) \ {n + 1} = 1 .. n
  <2>1. 1 .. n + 1 \subseteq 0 .. n + 1 /\ n + 1 \in 1 .. n + 1 /\ n + 1 \in Nat
    BY <1>1
  <2>2. Max(1 .. n + 1) \in 1 .. n + 1 /\ n + 1 =< Max(1 .. n + 1)
    BY <2>1, MaxIsGreatest
  <2> QED
    BY <1>1, <2>1, <2>2
<1>4. ScanUnfolds(t, 1 .. n + 1)
  <2>1. n + 1 \in Nat
    BY <1>1
  <2> QED
    BY <2>1, ScannedUnfolds
<1>5. Scanned(t, 1 .. n + 1) = ScanLine(Scanned(t, 1 .. n), line)
  BY <1>2, <1>3, <1>4 DEF ScanUnfolds
<1>6. Scanned(t, 1 .. n) = Scanned(s, 1 .. n)
  BY <1>1, <1>2, ScannedAgrees
<1> QED
  BY <1>1, <1>2, <1>5, <1>6, ScanIsScanned

-----------------------------------------------------------------------------
(* A patch, piece after piece.                                             *)

Flattening(seqs, n, f) ==
    f = [i \in 1 .. n |-> IF i = 1 THEN seqs[i] ELSE f[i - 1] \o seqs[i]]

LEMMA FlatteningExists ==
    ASSUME NEW seqs, NEW n \in Nat \ {0}
    PROVE  \E f : Flattening(seqs, n, f)
<1> DEFINE wrong == {k \in Nat \ {0} : ~\E f : Flattening(seqs, k, f)}
<1>1. SUFFICES ASSUME wrong # {} PROVE FALSE
  OBVIOUS
<1>2. PICK m \in wrong : \A k \in wrong : m =< k
  <2>1. wrong \subseteq Nat
    OBVIOUS
  <2> HIDE DEF wrong
  <2> QED
    BY <1>1, <2>1, MinIsLeast
<1>3. m \in Nat \ {0}
  OBVIOUS
<1>4. CASE m = 1
  <2> DEFINE g == [i \in 1 .. 1 |-> seqs[i]]
  <2>1. Flattening(seqs, 1, g)
    BY DEF Flattening
  <2> QED
    BY <1>2, <1>4, <2>1
<1>5. CASE m # 1
  <2>1. m - 1 \in Nat \ {0} /\ m - 1 \notin wrong
    BY <1>2, <1>3, <1>5
  <2>2. PICK f : Flattening(seqs, m - 1, f)
    BY <2>1
  <2> DEFINE g == [i \in 1 .. m |-> IF i = m THEN f[m - 1] \o seqs[m] ELSE f[i]]
  <2>3. Flattening(seqs, m, g)
    <3>1. ASSUME NEW i \in 1 .. m
          PROVE  g[i] = IF i = 1 THEN seqs[i] ELSE g[i - 1] \o seqs[i]
      <4>1. CASE i = m
        <5>1. m - 1 \in 1 .. m /\ m \in 1 .. m /\ m - 1 # m
          BY <1>3, <1>5
        <5>2. g[m] = f[m - 1] \o seqs[m] /\ g[m - 1] = f[m - 1]
          BY <5>1
        <5> QED
          BY <1>5, <4>1, <5>2
      <4>2. CASE i # m
        <5>1. i \in 1 .. m - 1 /\ (i # 1 => i - 1 \in 1 .. m - 1 /\ i - 1 # m)
          BY <1>3, <4>2
        <5>2. f[i] = IF i = 1 THEN seqs[i] ELSE f[i - 1] \o seqs[i]
          BY <2>2, <5>1 DEF Flattening
        <5>3. g[i] = f[i] /\ (i # 1 => g[i - 1] = f[i - 1])
          BY <1>3, <4>2, <5>1
        <5> QED
          BY <5>2, <5>3
      <4> QED
        BY <4>1, <4>2
    <3> QED
      BY <3>1 DEF Flattening
  <2> QED
    BY <2>3
<1> QED
  BY <1>4, <1>5

\* What flattening leaves, one more piece at a time.
LEMMA Flattened ==
    ASSUME NEW S, NEW seqs \in Seq(Seq(S)), seqs # <<>>
    PROVE  \E f \in [1 .. Len(seqs) -> Seq(S)] :
              /\ FlattenSeq(seqs) = f[Len(seqs)]
              /\ f[1] = seqs[1]
              /\ \A i \in 2 .. Len(seqs) : f[i] = f[i - 1] \o seqs[i]
<1> DEFINE n == Len(seqs)
<1>1. n \in Nat \ {0}
  BY EmptySeq
<1>2. FlattenSeq(seqs) = (CHOOSE f : Flattening(seqs, n, f))[n]
  BY <1>1 DEF FlattenSeq, Flattening
<1>3. PICK f : Flattening(seqs, n, f) /\ FlattenSeq(seqs) = f[n]
  BY <1>1, <1>2, FlatteningExists
<1> HIDE DEF n
<1>4. \A i \in 1 .. n : f[i] = IF i = 1 THEN seqs[i] ELSE f[i - 1] \o seqs[i]
  BY <1>3 DEF Flattening
<1> DEFINE wrong == {i \in 1 .. n : f[i] \notin Seq(S)}
<1>5. wrong = {}
  <2>1. SUFFICES ASSUME wrong # {} PROVE FALSE
    OBVIOUS
  <2>2. PICK m \in wrong : \A k \in wrong : m =< k
    <3>1. wrong \subseteq Nat
      OBVIOUS
    <3> HIDE DEF wrong
    <3> QED
      BY <2>1, <3>1, MinIsLeast
  <2>3. m \in 1 .. n /\ seqs[m] \in Seq(S)
    BY ElementOfSeq DEF n
  <2>4. CASE m = 1
    BY <1>4, <2>3, <2>4
  <2>5. CASE m # 1
    <3>1. m - 1 \in 1 .. n /\ m - 1 \notin wrong
      BY <1>1, <2>2, <2>3, <2>5
    <3>2. f[m - 1] \o seqs[m] \in Seq(S)
      BY <2>3, <3>1, ConcatProperties
    <3> QED
      BY <1>4, <2>3, <2>5, <3>2
  <2> QED
    BY <2>4, <2>5
<1>6. f \in [1 .. n -> Seq(S)]
  BY <1>3, <1>5 DEF Flattening
<1>7. 1 \in 1 .. n /\ f[1] = seqs[1]
  BY <1>1, <1>4
<1>8. ASSUME NEW i \in 2 .. n PROVE f[i] = f[i - 1] \o seqs[i]
  <2>1. i \in 1 .. n /\ i # 1
    BY <1>1
  <2> QED
    BY <1>4, <2>1
<1> QED
  BY <1>3, <1>6, <1>7, <1>8 DEF n

-----------------------------------------------------------------------------
(* What one line of the edit adds to the patch, and to the coverage.       *)

Opens(edit, i) == i = 1 \/ ~InHunk(edit, i - 1)
Marked(edit, newline, i) == i = Len(edit) /\ ~newline

Piece(edit, newline, i) ==
    IF ~InHunk(edit, i) THEN <<>>
    ELSE (IF Opens(edit, i) THEN <<Header(edit, i)>> ELSE <<>>)
         \o <<PatchLine(edit[i])>>
         \o (IF Marked(edit, newline, i) THEN <<PatchLine("\\")>> ELSE <<>>)

Entered(edit, i, cov) == IF Opens(edit, i) THEN ScanLine(cov, Header(edit, i)) ELSE cov

Through(edit, newline, i, cov) ==
    LET shown == ScanLine(Entered(edit, i, cov), PatchLine(edit[i]))
    IN  IF ~InHunk(edit, i) THEN cov
        ELSE IF Marked(edit, newline, i) THEN ScanLine(shown, PatchLine("\\")) ELSE shown

LEMMA ScanPiece ==
    ASSUME NEW edit, NEW newline, NEW i, edit[i] \in Change,
           Header(edit, i) \in PatchLines, NEW s \in Seq(PatchLines)
    PROVE  /\ Piece(edit, newline, i) \in Seq(PatchLines)
           /\ Scan(s \o Piece(edit, newline, i)) = Through(edit, newline, i, Scan(s))
<1>1. CASE ~InHunk(edit, i)
  <2>1. Piece(edit, newline, i) = <<>> /\ <<>> \in Seq(PatchLines)
    BY <1>1, EmptySeq DEF Piece
  <2>2. s \o <<>> = s
    BY ConcatEmptySeq
  <2> QED
    BY <1>1, <2>1, <2>2 DEF Through
<1>2. CASE InHunk(edit, i)
  <2> DEFINE first == IF Opens(edit, i) THEN <<Header(edit, i)>> ELSE <<>>
             line  == PatchLine(edit[i])
             mark  == PatchLine("\\")
             last  == IF Marked(edit, newline, i) THEN <<mark>> ELSE <<>>
             cov   == Entered(edit, i, Scan(s))
  <2>1. line \in PatchLines /\ mark \in PatchLines
    BY DEF PatchLine, PatchLines
  <2>2. \A l \in PatchLines : <<l>> \in Seq(PatchLines)
    OBVIOUS
  <2>3. first \in Seq(PatchLines) /\ <<line>> \in Seq(PatchLines) /\ last \in Seq(PatchLines)
    BY <2>1, <2>2, EmptySeq
  <2>4. Piece(edit, newline, i) = (first \o <<line>>) \o last
    BY <1>2 DEF Piece
  <2>5. s \o first \in Seq(PatchLines) /\ Scan(s \o first) = cov
    BY <2>3, ScanOneMore, ConcatEmptySeq DEF Entered
  <2> HIDE DEF first, line, last, cov, mark
  <2>6. /\ (s \o first) \o <<line>> \in Seq(PatchLines)
        /\ Scan((s \o first) \o <<line>>) = ScanLine(cov, line)
    BY <2>1, <2>5, ScanOneMore
  <2>7. Scan(((s \o first) \o <<line>>) \o last)
          = IF Marked(edit, newline, i) THEN ScanLine(ScanLine(cov, line), mark)
            ELSE ScanLine(cov, line)
    BY <2>1, <2>6, ScanOneMore, ConcatEmptySeq DEF last
  <2>8. s \o ((first \o <<line>>) \o last) = ((s \o first) \o <<line>>) \o last
    <3>1. first \o <<line>> \in Seq(PatchLines)
      BY <2>3, ConcatProperties
    <3>2. s \o ((first \o <<line>>) \o last) = (s \o (first \o <<line>>)) \o last
      BY <2>3, <3>1, ConcatAssociative
    <3>3. s \o (first \o <<line>>) = (s \o first) \o <<line>>
      BY <2>3, ConcatAssociative
    <3> QED
      BY <3>2, <3>3
  <2>9. (first \o <<line>>) \o last \in Seq(PatchLines)
    BY <2>3, ConcatProperties
  <2> QED
    BY <1>2, <2>4, <2>7, <2>8, <2>9 DEF Through, cov, line, mark
<1> QED
  BY <1>1, <1>2

-----------------------------------------------------------------------------
(* The coverage after the first i lines of an edit.                        *)

LEMMA OneMoreBefore ==
    ASSUME NEW edit \in Seq(Change), NEW i \in 1 .. Len(edit)
    PROVE  /\ OldBefore(edit, i) \in Nat /\ NewBefore(edit, i) \in Nat
           /\ OldBefore(edit, i + 1) = OldBefore(edit, i) + (IF edit[i] # "+" THEN 1 ELSE 0)
           /\ NewBefore(edit, i + 1) = NewBefore(edit, i) + (IF edit[i] # "-" THEN 1 ELSE 0)
           /\ edit[i] # "+" => OldLines(edit) # 0
           /\ edit[i] # "-" => NewLines(edit) # 0
<1> DEFINE Before(kind, k) == {j \in 1 .. k - 1 : edit[j] # kind}
<1>1. Len(edit) \in Nat /\ i \in Nat
  BY LenProperties
<1>2. \A k \in Int : IsFiniteSet(1 .. k)
  BY FS_Interval
<1>3. ASSUME NEW k \in Int, NEW kind
      PROVE  IsFiniteSet(Before(kind, k)) /\ Cardinality(Before(kind, k)) \in Nat
  <2>1. IsFiniteSet(1 .. k - 1) /\ Before(kind, k) \subseteq 1 .. k - 1
    BY <1>2
  <2> QED
    BY <2>1, FS_Subset, FS_CardinalityType
<1>4. ASSUME NEW kind
      PROVE  Cardinality(Before(kind, i + 1))
               = Cardinality(Before(kind, i)) + (IF edit[i] # kind THEN 1 ELSE 0)
  <2>1. Before(kind, i + 1) = IF edit[i] # kind THEN Before(kind, i) \cup {i} ELSE Before(kind, i)
    BY <1>1
  <2>2. i \notin Before(kind, i)
    BY <1>1
  <2> HIDE DEF Before
  <2>3. IsFiniteSet(Before(kind, i)) /\ Cardinality(Before(kind, i)) \in Nat
    BY <1>1, <1>3
  <2>4. Cardinality(Before(kind, i) \cup {i}) = Cardinality(Before(kind, i)) + 1
    BY <2>2, <2>3, FS_AddElement
  <2> QED
    BY <2>1, <2>3, <2>4
<1>5. ASSUME NEW kind, edit[i] # kind PROVE Cardinality(Before(kind, Len(edit) + 1)) # 0
  <2>1. i \in Before(kind, Len(edit) + 1)
    BY <1>1, <1>5
  <2> HIDE DEF Before
  <2>2. IsFiniteSet(Before(kind, Len(edit) + 1))
    <3>1. Len(edit) + 1 \in Int
      BY <1>1
    <3> QED
      BY <1>3, <3>1
  <2> QED
    BY <2>1, <2>2, FS_EmptySet
<1>6. \A kind : Cardinality(Before(kind, i)) \in Nat
  <2> HIDE DEF Before
  <2> QED
    BY <1>1, <1>3
<1> QED
  BY <1>4, <1>5, <1>6 DEF OldBefore, NewBefore, OldLines, NewLines

Coverage == [seenHunk : BOOLEAN, oldLine : Nat, newLine : Nat, left : SUBSET Nat, right : SUBSET Nat]

OldShown(edit, i) ==
    {OldBefore(edit, j) + 1 : j \in {k \in 1 .. i : InHunk(edit, k) /\ edit[k] # "+"}}
NewShown(edit, i) ==
    {NewBefore(edit, j) + 1 : j \in {k \in 1 .. i : InHunk(edit, k) /\ edit[k] # "-"}}

\* The numbers the scan goes on with after line i - 1, for the sides the file has.
GoesOn(edit, i, cov) ==
    /\ cov.seenHunk
    /\ OldLines(edit) # 0 => cov.oldLine = OldBefore(edit, i) + 1
    /\ NewLines(edit) # 0 => cov.newLine = NewBefore(edit, i) + 1

CoversUpTo(edit, i, cov) ==
    /\ cov \in Coverage
    /\ cov.left = OldShown(edit, i) /\ cov.right = NewShown(edit, i)
    /\ i # 0 /\ InHunk(edit, i) => GoesOn(edit, i + 1, cov)

LEMMA HeaderFits ==
    ASSUME NEW edit \in Seq(Change), NEW i \in 1 .. Len(edit)
    PROVE  Header(edit, i) \in PatchLines
BY OneMoreBefore DEF Header, PatchLines

LEMMA EnteredGoesOn ==
    ASSUME NEW edit \in Seq(Change), NEW i \in 1 .. Len(edit), NEW cov,
           CoversUpTo(edit, i - 1, cov)
    PROVE  LET entered == Entered(edit, i, cov)
           IN  /\ entered \in Coverage /\ entered.left = cov.left /\ entered.right = cov.right
               /\ GoesOn(edit, i, entered)
<1>1. cov \in Coverage /\ i - 1 + 1 = i
  BY LenProperties DEF CoversUpTo
<1>2. CASE Opens(edit, i)
  <2>1. Header(edit, i) \in PatchLines /\ Header(edit, i).kind = "@@"
    BY HeaderFits DEF Header
  <2>2. ScanLine(cov, Header(edit, i))
          = [cov EXCEPT !.seenHunk = TRUE, !.oldLine = Header(edit, i).old, !.newLine = Header(edit, i).new]
    BY <2>1 DEF ScanLine, Entering
  <2> QED
    BY <1>1, <1>2, <2>1, <2>2 DEF Entered, Coverage, PatchLines, GoesOn, Header
<1>3. CASE ~Opens(edit, i)
  <2>1. i - 1 # 0 /\ InHunk(edit, i - 1)
    BY <1>3, LenProperties DEF Opens
  <2> QED
    BY <1>1, <1>3, <2>1 DEF Entered, CoversUpTo
<1> QED
  BY <1>2, <1>3

LEMMA ThroughCovers ==
    ASSUME NEW edit \in Seq(Change), NEW newline, NEW i \in 1 .. Len(edit), NEW cov,
           CoversUpTo(edit, i - 1, cov)
    PROVE  CoversUpTo(edit, i, Through(edit, newline, i, cov))
<1>1. i \in Nat /\ i # 0 /\ Len(edit) \in Nat /\ edit[i] \in Change
  BY LenProperties, ElementOfSeq
<1>2. 1 .. i = (1 .. i - 1) \cup {i}
  BY <1>1
<1>3. /\ OldShown(edit, i) = OldShown(edit, i - 1)
              \cup (IF InHunk(edit, i) /\ edit[i] # "+" THEN {OldBefore(edit, i) + 1} ELSE {})
      /\ NewShown(edit, i) = NewShown(edit, i - 1)
              \cup (IF InHunk(edit, i) /\ edit[i] # "-" THEN {NewBefore(edit, i) + 1} ELSE {})
  BY <1>2 DEF OldShown, NewShown
<1>4. CASE ~InHunk(edit, i)
  BY <1>3, <1>4 DEF CoversUpTo, Through
<1>5. CASE InHunk(edit, i)
  <2> DEFINE entered == Entered(edit, i, cov)
             shown == ScanLine(entered, PatchLine(edit[i]))
  <2>1. /\ entered \in Coverage /\ entered.left = OldShown(edit, i - 1)
        /\ entered.right = NewShown(edit, i - 1) /\ GoesOn(edit, i, entered)
    BY EnteredGoesOn DEF CoversUpTo
  <2> HIDE DEF entered
  <2>0. entered \in Coverage /\ entered.seenHunk
    BY <2>1 DEF GoesOn
  <2>9. /\ entered.newLine + 1 \in Nat /\ entered.right \cup {entered.newLine} \in SUBSET Nat
        /\ entered.oldLine + 1 \in Nat /\ entered.left \cup {entered.oldLine} \in SUBSET Nat
    BY <2>0 DEF Coverage
  <2>2. PatchLine(edit[i]).kind = edit[i] /\ entered.seenHunk
    BY <2>1 DEF PatchLine, GoesOn
  <2>3. /\ OldBefore(edit, i) \in Nat /\ NewBefore(edit, i) \in Nat
        /\ OldBefore(edit, i + 1) = OldBefore(edit, i) + (IF edit[i] # "+" THEN 1 ELSE 0)
        /\ NewBefore(edit, i + 1) = NewBefore(edit, i) + (IF edit[i] # "-" THEN 1 ELSE 0)
        /\ edit[i] # "+" => OldLines(edit) # 0
        /\ edit[i] # "-" => NewLines(edit) # 0
    BY OneMoreBefore
  <2>4. CoversUpTo(edit, i, shown)
    <3>1. CASE edit[i] = "+"
      <4>1. shown = [entered EXCEPT !.right = @ \cup {entered.newLine}, !.newLine = @ + 1]
        BY <2>2, <3>1 DEF ScanLine
      <4> HIDE DEF shown
      <4>2. /\ shown \in Coverage /\ shown.seenHunk
            /\ shown.left = entered.left /\ shown.right = entered.right \cup {entered.newLine}
            /\ shown.oldLine = entered.oldLine /\ shown.newLine = entered.newLine + 1
        BY <2>0, <2>9, <4>1 DEF Coverage
      <4> QED
        BY <1>3, <1>5, <2>1, <2>3, <3>1, <4>2 DEF CoversUpTo, GoesOn
    <3>2. CASE edit[i] = "-"
      <4>1. shown = [entered EXCEPT !.left = @ \cup {entered.oldLine}, !.oldLine = @ + 1]
        BY <2>2, <3>2 DEF ScanLine
      <4> HIDE DEF shown
      <4>2. /\ shown \in Coverage /\ shown.seenHunk
            /\ shown.right = entered.right /\ shown.left = entered.left \cup {entered.oldLine}
            /\ shown.newLine = entered.newLine /\ shown.oldLine = entered.oldLine + 1
        BY <2>0, <2>9, <4>1 DEF Coverage
      <4> QED
        BY <1>3, <1>5, <2>1, <2>3, <3>2, <4>2 DEF CoversUpTo, GoesOn
    <3>3. CASE edit[i] = " "
      <4>1. shown = [entered EXCEPT !.left = @ \cup {entered.oldLine}, !.oldLine = @ + 1,
                                    !.right = @ \cup {entered.newLine}, !.newLine = @ + 1]
        BY <2>2, <3>3 DEF ScanLine
      <4> HIDE DEF shown
      <4>2. /\ shown \in Coverage /\ shown.seenHunk
            /\ shown.left = entered.left \cup {entered.oldLine}
            /\ shown.right = entered.right \cup {entered.newLine}
            /\ shown.oldLine = entered.oldLine + 1 /\ shown.newLine = entered.newLine + 1
        BY <2>0, <2>9, <4>1 DEF Coverage
      <4> QED
        BY <1>3, <1>5, <2>1, <2>3, <3>3, <4>2 DEF CoversUpTo, GoesOn
    <3> QED
      BY <1>1, <3>1, <3>2, <3>3 DEF Change
  <2>5. ScanLine(shown, PatchLine("\\")) = shown
    BY DEF ScanLine, PatchLine
  <2>6. Through(edit, newline, i, cov) = shown
    BY <1>5, <2>5 DEF Through, entered
  <2> QED
    BY <2>4, <2>6
<1> QED
  BY <1>4, <1>5

\* The scan of a patch covers exactly the lines the diff shows.
LEMMA PatchCovers ==
    ASSUME NEW edit \in Seq(Change), NEW newline
    PROVE  /\ Scan(Patch(edit, newline)).left = Visible(edit, "base")
           /\ Scan(Patch(edit, newline)).right = Visible(edit, "head")
<1> DEFINE n == Len(edit)
           pieces == [i \in DOMAIN edit |-> Piece(edit, newline, i)]
<1>1. n \in Nat /\ DOMAIN edit = 1 .. n /\ \A i \in 1 .. n : edit[i] \in Change
  BY LenProperties, ElementOfSeq
<1>2. Patch(edit, newline) = FlattenSeq(pieces)
  BY DEF Patch, Piece, Opens, Marked
<1>3. ASSUME NEW i \in 1 .. n, NEW s \in Seq(PatchLines)
      PROVE  /\ Piece(edit, newline, i) \in Seq(PatchLines)
             /\ Scan(s \o Piece(edit, newline, i)) = Through(edit, newline, i, Scan(s))
  BY <1>1, HeaderFits, ScanPiece
<1>4. \A i \in 1 .. n : Piece(edit, newline, i) \in Seq(PatchLines)
  BY <1>3, EmptySeq
<1>5. pieces \in Seq(Seq(PatchLines)) /\ Len(pieces) = n
  BY <1>1, <1>4
<1>6. CoversUpTo(edit, n, Scan(Patch(edit, newline)))
  <2>0. CoversUpTo(edit, 0, NothingCovered)
    BY DEF CoversUpTo, NothingCovered, Coverage, OldShown, NewShown
  <2>1. CASE n = 0
    <3>1. pieces = <<>>
      BY <1>5, <2>1, EmptySeq
    <3>2. FlattenSeq(<<>>) = <<>>
      BY DEF FlattenSeq
    <3> QED
      BY <1>2, <2>0, <2>1, <3>1, <3>2, ScanNothing
  <2>2. CASE n # 0
    <3>1. pieces # <<>>
      BY <1>5, <2>2
    <3> HIDE DEF pieces
    <3>2. PICK f \in [1 .. n -> Seq(PatchLines)] :
             /\ FlattenSeq(pieces) = f[n] /\ f[1] = pieces[1]
             /\ \A i \in 2 .. n : f[i] = f[i - 1] \o pieces[i]
      <4> HIDE DEF n
      <4>1. \E f \in [1 .. Len(pieces) -> Seq(PatchLines)] :
               /\ FlattenSeq(pieces) = f[Len(pieces)] /\ f[1] = pieces[1]
               /\ \A i \in 2 .. Len(pieces) : f[i] = f[i - 1] \o pieces[i]
        BY <1>5, <3>1, Flattened
      <4> QED
        BY <1>5, <4>1
    <3> DEFINE wrong == {i \in 1 .. n : ~CoversUpTo(edit, i, Scan(f[i]))}
    <3>3. wrong = {}
      <4>1. SUFFICES ASSUME wrong # {} PROVE FALSE
        OBVIOUS
      <4>2. PICK m \in wrong : \A k \in wrong : m =< k
        <5>1. wrong \subseteq Nat
          OBVIOUS
        <5> HIDE DEF wrong
        <5> QED
          BY <4>1, <5>1, MinIsLeast
      <4>3. m \in 1 .. n /\ pieces[m] = Piece(edit, newline, m)
        BY <1>1 DEF pieces
      <4>4. PICK s \in Seq(PatchLines) :
               f[m] = s \o pieces[m] /\ CoversUpTo(edit, m - 1, Scan(s))
        <5>1. CASE m = 1
          <6>1. <<>> \in Seq(PatchLines) /\ <<>> \o pieces[1] = pieces[1]
            BY <1>4, <4>3, <5>1, EmptySeq, ConcatEmptySeq
          <6>2. f[m] = <<>> \o pieces[m] /\ m - 1 = 0
            BY <3>2, <5>1, <6>1
          <6>3. CoversUpTo(edit, m - 1, Scan(<<>>))
            BY <2>0, <6>2, ScanNothing
          <6> QED
            BY <6>1, <6>2, <6>3
        <5>2. CASE m # 1
          <6>1. m - 1 \in 1 .. n /\ m - 1 \notin wrong /\ m \in 2 .. n
            BY <1>1, <4>2, <4>3, <5>2
          <6>2. f[m] = f[m - 1] \o pieces[m] /\ f[m - 1] \in Seq(PatchLines)
            BY <3>2, <6>1
          <6> QED
            BY <6>1, <6>2
        <5> QED
          BY <5>1, <5>2
      <4>5. Scan(f[m]) = Through(edit, newline, m, Scan(s))
        BY <1>3, <4>3, <4>4
      <4> QED
        BY <4>2, <4>3, <4>4, <4>5, ThroughCovers
    <3> QED
      BY <1>1, <1>2, <2>2, <3>2, <3>3
  <2> QED
    BY <2>1, <2>2
<1> QED
  BY <1>1, <1>6 DEF CoversUpTo, OldShown, NewShown, Visible

-----------------------------------------------------------------------------
(* The invariant: how far validation has come.                             *)

InputOK == files \in [Path -> File] /\ answer \in Seq(Finding) /\ answer # <<>>

\* The finding's evidence has been looked at.
Examined(i) == i < at \/ (i = at /\ stage \in {"anchor", "fix"})

Checked(i) ==
    IF NeedsEvidence(answer[i]) /\ ~Grounded(answer[i])
    THEN fate[i] = "dropped"
    ELSE /\ fate[i] # "dropped"
         /\ NeedsEvidence(answer[i]) =>
                findings[i].evidence =
                    [j \in DOMAIN answer[i].evidence |->
                        Corrected(answer[i].evidence[j], Place(answer[i], answer[i].evidence[j]))]

Examination ==
    \A i \in DOMAIN answer :
        IF Examined(i) THEN Checked(i) ELSE findings[i] = answer[i] /\ fate[i] = "pending"

\* No finding is past its evidence and already decided.
InProgress == stage \in {"anchor", "fix"} => fate[at] = "pending"

IInv == InputOK /\ TypeOK /\ InProgress /\ Examination

LEMMA Lengths ==
    ASSUME InputOK, TypeOK
    PROVE  /\ Len(answer) \in Nat \ {0}
           /\ DOMAIN answer = 1 .. Len(answer) /\ DOMAIN findings = 1 .. Len(answer)
           /\ \A i \in DOMAIN answer : answer[i] \in Finding /\ findings[i] \in Finding
           /\ at \in Nat
BY LenProperties, ElementOfSeq, EmptySeq DEF InputOK, TypeOK

LEMMA EntriesOf ==
    ASSUME NEW f \in Finding
    PROVE  /\ f.evidence \in Seq(Entry)
           /\ DOMAIN f.evidence = 1 .. Len(f.evidence)
           /\ \A j \in DOMAIN f.evidence : f.evidence[j] \in Entry
<1>1. f.evidence \in Seq(Entry)
  BY DEF Finding
<1> QED
  BY <1>1, LenProperties, ElementOfSeq

\* A correction gives a quote that was found the lines it is at.
LEMMA CorrectedEntry ==
    ASSUME files \in [Path -> File], NEW f \in Finding, NEW e \in Entry, Place(f, e) # NotFound
    PROVE  /\ Corrected(e, Place(f, e)) \in Entry
           /\ Corrected(e, Place(f, e)).path = e.path
           /\ Corrected(e, Place(f, e)).start = Place(f, e)
           /\ Corrected(e, Place(f, e)).end = Place(f, e) + Len(Quote(e)) - 1
<1>1. Place(f, e) \in Nat /\ Place(f, e) # 0
  BY Placed DEF NotFound
<1>2. PICK side \in Shown(f) : GroundEntry(e, side) # NotFound
  BY Placed
<1>3. Quote(e) # <<>>
  BY <1>2, EntryGrounded, SidesShown
<1>4. Len(Quote(e)) \in Nat
  BY NormalizedQuote, LenProperties DEF Quote, Entry
<1>5. Place(f, e) + Len(Quote(e)) - 1 \in Nat
  BY <1>1, <1>4
<1> QED
  BY <1>1, <1>5 DEF Corrected, Entry, Quote

LEMMA InitEstablishes == Init => IInv
<1> SUFFICES ASSUME Init PROVE IInv
  OBVIOUS
<1>1. InputOK
  BY InputAssumption DEF Init, InputOK
<1>2. Len(answer) \in Nat \ {0} /\ DOMAIN answer = 1 .. Len(answer)
  BY <1>1, EmptySeq, LenProperties DEF InputOK
<1>3. TypeOK
  BY <1>1, <1>2 DEF Init, TypeOK, InputOK
<1>4. \A i \in DOMAIN answer : ~Examined(i) /\ findings[i] = answer[i] /\ fate[i] = "pending"
  BY <1>2 DEF Init, Examined
<1> QED
  BY <1>1, <1>3, <1>4 DEF Init, IInv, InProgress, Examination

\* A step that examines no evidence keeps what examination has found.
LEMMA ExaminationKept ==
    ASSUME IInv, UNCHANGED input,
           \A i \in DOMAIN answer : Examined(i)' <=> Examined(i),
           \A i \in DOMAIN answer : findings'[i].evidence = findings[i].evidence,
           \A i \in DOMAIN answer : (fate'[i] = "dropped") <=> (fate[i] = "dropped"),
           \A i \in DOMAIN answer :
              ~Examined(i) => findings'[i] = findings[i] /\ fate'[i] = fate[i]
    PROVE  Examination'
<1> SUFFICES ASSUME NEW i \in DOMAIN answer
             PROVE  IF Examined(i) THEN Checked(i)'
                    ELSE findings'[i] = answer[i] /\ fate'[i] = "pending"
  BY DEF Examination, input
<1>1. IF Examined(i) THEN Checked(i) ELSE findings[i] = answer[i] /\ fate[i] = "pending"
  BY DEF IInv, Examination
<1>2. answer' = answer /\ files' = files
  BY DEF input
<1>3. /\ Grounded(answer[i])' <=> Grounded(answer[i])
      /\ \A j \in DOMAIN answer[i].evidence :
            Place(answer[i], answer[i].evidence[j])' = Place(answer[i], answer[i].evidence[j])
  BY <1>2 DEF Grounded, Place, GroundEntry, Contents
<1>4. CASE Examined(i)
  BY <1>1, <1>2, <1>3, <1>4 DEF Checked
<1> QED
  BY <1>1, <1>4
-----------------------------------------------------------------------------
(* The steps.                                                              *)

LEMMA ScanKeeps == IInv /\ ScanFiles => IInv'
<1> SUFFICES ASSUME IInv, ScanFiles PROVE IInv'
  OBVIOUS
<1>1. InputOK' /\ TypeOK'
  BY DEF IInv, ScanFiles, input, InputOK, TypeOK
<1>2. Examination'
  <2>1. \A i \in DOMAIN answer : Examined(i)' <=> Examined(i)
    BY DEF ScanFiles, Examined
  <2> QED
    BY <2>1, ExaminationKept DEF ScanFiles
<1> QED
  BY <1>1, <1>2 DEF IInv, InProgress, ScanFiles

\* One finding is examined: it is dropped, or its evidence is corrected.
LEMMA GroundKeeps == IInv /\ GroundEvidence => IInv'
<1> SUFFICES ASSUME IInv, GroundEvidence PROVE IInv'
  OBVIOUS
<1> DEFINE f == findings[at]
<1>1. /\ InputOK /\ TypeOK /\ Examination
      /\ stage = "ground" /\ files' = files /\ answer' = answer /\ posted' = posted
  BY DEF IInv, GroundEvidence, input
<1>2. at \in DOMAIN answer /\ at \in 1 .. Len(answer) /\ Len(answer) \in Nat
  BY <1>1, Lengths DEF TypeOK
<1>3. ~Examined(at) /\ findings[at] = answer[at] /\ fate[at] = "pending"
  BY <1>1, <1>2 DEF Examined, Examination
<1>4. f \in Finding
  BY <1>1, <1>2, Lengths
<1>5. /\ \A i \in DOMAIN answer : Grounded(answer[i])' <=> Grounded(answer[i])
      /\ \A i \in DOMAIN answer : \A j \in DOMAIN answer[i].evidence :
            Place(answer[i], answer[i].evidence[j])' = Place(answer[i], answer[i].evidence[j])
  BY <1>1 DEF Grounded, Place, GroundEntry, Contents
<1>6. CASE NeedsEvidence(f) /\ ~Grounded(f)
  <2>1. /\ fate' = [fate EXCEPT ![at] = "dropped"] /\ findings' = findings /\ at' = at + 1
        /\ stage' = IF at < Len(answer) THEN "ground" ELSE "post"
    BY <1>6 DEF GroundEvidence, Proceed
  <2>2. TypeOK'
    <3>1. DOMAIN posted \subseteq {i \in DOMAIN answer : fate'[i] = "survives"}
      BY <1>1, <1>2, <1>3, <2>1 DEF TypeOK
    <3>2. fate' \in [DOMAIN answer -> {"pending", "survives", "dropped"}]
      BY <1>1, <2>1 DEF TypeOK
    <3>3. /\ at' \in 1 .. Len(answer) + 1
          /\ (at' > Len(answer)) <=> (stage' \in {"post", "done"})
          /\ stage' \in {"scan", "ground", "anchor", "fix", "post", "done"}
      BY <1>2, <2>1
    <3> QED
      BY <1>1, <2>1, <3>1, <3>2, <3>3 DEF TypeOK
  <2>3. \A i \in DOMAIN answer : i # at => (Examined(i)' <=> Examined(i))
    BY <1>1, <1>2, <2>1, Lengths DEF Examined
  <2>4. \A i \in DOMAIN answer : i = at => Examined(i)'
    BY <1>2, <2>1 DEF Examined
  <2>5. Examination'
    <3> SUFFICES ASSUME NEW i \in DOMAIN answer
                 PROVE  IF Examined(i)' THEN Checked(i)'
                        ELSE findings'[i] = answer[i] /\ fate'[i] = "pending"
      BY <1>1 DEF Examination
    <3>1. CASE i = at
      BY <1>1, <1>3, <1>5, <1>6, <2>1, <2>4, <3>1 DEF Checked, TypeOK
    <3>2. CASE i # at
      BY <1>1, <1>5, <2>1, <2>3, <3>2 DEF Checked, Examination, TypeOK
    <3> QED
      BY <3>1, <3>2
  <2> QED
    BY <1>1, <2>1, <2>2, <2>5 DEF IInv, InputOK, InProgress
<1>7. CASE ~(NeedsEvidence(f) /\ ~Grounded(f))
  <2> DEFINE grounded == [j \in DOMAIN f.evidence |-> Corrected(f.evidence[j], Place(f, f.evidence[j]))]
  <2>1. /\ findings' = IF NeedsEvidence(f) THEN [findings EXCEPT ![at].evidence = grounded] ELSE findings
        /\ stage' = "anchor" /\ at' = at /\ fate' = fate
    BY <1>7 DEF GroundEvidence
  <2>2. NeedsEvidence(f) => grounded \in Seq(Entry)
    <3> SUFFICES ASSUME NeedsEvidence(f) PROVE grounded \in Seq(Entry)
      OBVIOUS
    <3>1. \A j \in DOMAIN f.evidence : Place(f, f.evidence[j]) # NotFound
      BY <1>7 DEF Grounded
    <3>2. \A j \in DOMAIN f.evidence : grounded[j] \in Entry
      BY <1>1, <1>4, <3>1, EntriesOf, CorrectedEntry DEF InputOK
    <3>3. DOMAIN f.evidence = 1 .. Len(f.evidence) /\ Len(f.evidence) \in Nat
      BY <1>4, EntriesOf, LenProperties
    <3> HIDE DEF grounded
    <3>4. grounded = [j \in 1 .. Len(f.evidence) |-> grounded[j]]
      BY <3>3 DEF grounded
    <3> QED
      BY <3>2, <3>3, <3>4
  <2> HIDE DEF f
  <2>3. findings' \in Seq(Finding) /\ Len(findings') = Len(findings)
    <3>1. CASE NeedsEvidence(f)
      <4>1. [f EXCEPT !.evidence = grounded] \in Finding
        BY <1>4, <2>2, <3>1 DEF Finding
      <4>2. findings' = [findings EXCEPT ![at] = [f EXCEPT !.evidence = grounded]]
        BY <2>1, <3>1 DEF f
      <4>3. at \in 1 .. Len(findings) /\ findings \in Seq(Finding)
        BY <1>1, <1>2 DEF TypeOK
      <4> QED
        BY <4>1, <4>2, <4>3, ExceptSeq
    <3>2. CASE ~NeedsEvidence(f)
      BY <1>1, <2>1, <3>2 DEF TypeOK
    <3> QED
      BY <3>1, <3>2
  <2>4. TypeOK'
    BY <1>1, <1>2, <2>1, <2>3 DEF TypeOK
  <2>5. \A i \in DOMAIN answer : i # at => (Examined(i)' <=> Examined(i)) /\ findings'[i] = findings[i]
    BY <1>1, <2>1 DEF Examined
  <2>6. \A i \in DOMAIN answer : i = at => Examined(i)'
    BY <2>1 DEF Examined
  <2>7. Examination'
    <3> SUFFICES ASSUME NEW i \in DOMAIN answer
                 PROVE  IF Examined(i)' THEN Checked(i)'
                        ELSE findings'[i] = answer[i] /\ fate'[i] = "pending"
      BY <1>1 DEF Examination
    <3>1. CASE i = at
      <4>1. f = answer[i]
        BY <1>3, <3>1 DEF f
      <4>2. NeedsEvidence(f) => findings'[i].evidence = grounded
        BY <1>1, <1>2, <2>1, <3>1, Lengths
      <4>3. fate'[i] # "dropped"
        BY <1>3, <2>1, <3>1
      <4>4. grounded = [j \in DOMAIN answer[i].evidence |->
                            Corrected(answer[i].evidence[j], Place(answer[i], answer[i].evidence[j])')]
        BY <1>5, <4>1 DEF grounded
      <4>5. Checked(i)'
        BY <1>1, <1>5, <1>7, <4>1, <4>2, <4>3, <4>4 DEF Checked
      <4> QED
        BY <2>6, <3>1, <4>5
    <3>2. CASE i # at
      BY <1>1, <1>5, <2>1, <2>5, <3>2 DEF Checked, Examination
    <3> QED
      BY <3>1, <3>2
  <2> QED
    BY <1>1, <1>3, <2>1, <2>4, <2>7 DEF IInv, InputOK, InProgress
<1> QED
  BY <1>6, <1>7

LEMMA AnchorKeeps == IInv /\ ValidateAnchor => IInv'
<1> SUFFICES ASSUME IInv, ValidateAnchor PROVE IInv'
  OBVIOUS
<1> DEFINE f == findings[at]
           anchor == IF f.anchor.kind = "line" /\ ~Covered(f.anchor) THEN Demoted(f.anchor) ELSE f.anchor
<1>1. /\ InputOK /\ TypeOK /\ stage = "anchor" /\ stage' = "fix"
      /\ UNCHANGED input /\ UNCHANGED <<at, fate, posted>>
      /\ findings' = [findings EXCEPT ![at].anchor = anchor]
  BY DEF IInv, ValidateAnchor
<1>2. at \in DOMAIN answer /\ at \in 1 .. Len(findings) /\ f \in Finding
  BY <1>1, Lengths DEF TypeOK
<1>3. anchor \in Anchor
  BY <1>2 DEF Demoted, Finding, Anchor
<1> HIDE DEF anchor
<1>4. [f EXCEPT !.anchor = anchor] \in Finding
  BY <1>2, <1>3 DEF Finding
<1>5. findings' \in Seq(Finding) /\ Len(findings') = Len(findings)
  <2>1. findings' = [findings EXCEPT ![at] = [f EXCEPT !.anchor = anchor]]
    BY <1>1
  <2>2. findings \in Seq(Finding)
    BY <1>1 DEF TypeOK
  <2> HIDE DEF f
  <2> QED
    BY <1>2, <1>4, <2>1, <2>2, ExceptSeq
<1>6. InputOK' /\ TypeOK'
  BY <1>1, <1>5 DEF InputOK, TypeOK, input
<1>7. Examination'
  <2>1. \A i \in DOMAIN answer : Examined(i)' <=> Examined(i)
    BY <1>1 DEF Examined
  <2>2. \A i \in DOMAIN answer : findings'[i].evidence = findings[i].evidence
    BY <1>1, <1>2, Lengths DEF Finding
  <2>3. \A i \in DOMAIN answer : ~Examined(i) => findings'[i] = findings[i]
    BY <1>1, Lengths DEF Examined
  <2> QED
    BY <1>1, <2>1, <2>2, <2>3, ExaminationKept
<1> QED
  BY <1>1, <1>6, <1>7 DEF IInv, InProgress

LEMMA FixKeeps == IInv /\ DryRunSuggestedFix => IInv'
<1> SUFFICES ASSUME IInv, DryRunSuggestedFix PROVE IInv'
  OBVIOUS
<1> DEFINE f == findings[at]
           fix == IF Applies(f.fix, f.anchor.path) THEN f.fix ELSE NoFix
<1>1. /\ InputOK /\ TypeOK /\ stage = "fix" /\ at' = at + 1
      /\ stage' = IF at < Len(answer) THEN "ground" ELSE "post"
      /\ UNCHANGED input /\ UNCHANGED posted
      /\ findings' = [findings EXCEPT ![at].fix = fix]
      /\ fate' = [fate EXCEPT ![at] = "survives"]
  BY DEF IInv, DryRunSuggestedFix, Proceed
<1>2. /\ at \in DOMAIN answer /\ at \in 1 .. Len(findings) /\ f \in Finding
      /\ at \in 1 .. Len(answer) /\ Len(answer) \in Nat
  BY <1>1, Lengths DEF TypeOK
<1>3. fix \in [start : Nat, end : Nat]
  BY <1>2 DEF NoFix, Finding
<1> HIDE DEF fix
<1>4. [f EXCEPT !.fix = fix] \in Finding
  BY <1>2, <1>3 DEF Finding
<1>5. findings' \in Seq(Finding) /\ Len(findings') = Len(findings)
  <2>1. findings' = [findings EXCEPT ![at] = [f EXCEPT !.fix = fix]]
    BY <1>1
  <2>2. findings \in Seq(Finding)
    BY <1>1 DEF TypeOK
  <2> HIDE DEF f
  <2> QED
    BY <1>2, <1>4, <2>1, <2>2, ExceptSeq
<1>6. Examined(at) /\ fate[at] # "dropped"
  BY <1>1, <1>2 DEF Examined, IInv, InProgress
<1>7. InputOK' /\ TypeOK'
  <2>1. /\ at' \in 1 .. Len(answer) + 1
        /\ (at' > Len(answer)) <=> (stage' \in {"post", "done"})
        /\ stage' \in {"scan", "ground", "anchor", "fix", "post", "done"}
    BY <1>1, <1>2
  <2>2. /\ fate' \in [DOMAIN answer -> {"pending", "survives", "dropped"}]
        /\ DOMAIN posted \subseteq {i \in DOMAIN answer : fate'[i] = "survives"}
    BY <1>1, <1>2 DEF TypeOK
  <2> QED
    BY <1>1, <1>5, <2>1, <2>2 DEF InputOK, TypeOK, input
<1>8. Examination'
  <2>1. \A i \in DOMAIN answer : Examined(i)' <=> Examined(i)
    BY <1>1, <1>2, Lengths DEF Examined
  <2>2. \A i \in DOMAIN answer : findings'[i].evidence = findings[i].evidence
    BY <1>1, <1>2, Lengths DEF Finding
  <2>3. \A i \in DOMAIN answer : ~Examined(i) => findings'[i] = findings[i] /\ fate'[i] = fate[i]
    BY <1>1, <1>2, <1>6, Lengths DEF TypeOK
  <2>4. \A i \in DOMAIN answer : (fate'[i] = "dropped") <=> (fate[i] = "dropped")
    BY <1>1, <1>2, <1>6 DEF TypeOK
  <2> QED
    BY <1>1, <2>1, <2>2, <2>3, <2>4, ExaminationKept
<1> QED
  BY <1>1, <1>7, <1>8 DEF IInv, InProgress

LEMMA PostKeeps == IInv /\ Post => IInv'
<1> SUFFICES ASSUME IInv, Post PROVE IInv'
  OBVIOUS
<1>1. PICK accepted \in SUBSET {i \in DOMAIN findings : fate[i] = "survives"} :
        posted' = [i \in accepted |-> Comment(findings[i])]
  BY DEF Post
<1>2. InputOK' /\ TypeOK'
  <2>1. DOMAIN findings = DOMAIN answer
    BY Lengths DEF IInv
  <2>2. DOMAIN posted' \subseteq {i \in DOMAIN answer : fate[i] = "survives"}
    BY <1>1, <2>1
  <2> QED
    BY <2>2 DEF IInv, Post, input, InputOK, TypeOK
<1>3. \A i \in DOMAIN answer : Examined(i)' <=> Examined(i)
  BY DEF Post, Examined
<1> QED
  BY <1>2, <1>3, ExaminationKept DEF IInv, Post, InProgress
-----------------------------------------------------------------------------
(* The theorems.                                                           *)

LEMMA InvariantHolds == Spec => []IInv
<1>1. IInv /\ [Next]_vars => IInv'
  <2> SUFFICES ASSUME IInv, [Next]_vars PROVE IInv'
    OBVIOUS
  <2>1. CASE ScanFiles
    BY <2>1, ScanKeeps
  <2>2. CASE GroundEvidence
    BY <2>2, GroundKeeps
  <2>3. CASE ValidateAnchor
    BY <2>3, AnchorKeeps
  <2>4. CASE DryRunSuggestedFix
    BY <2>4, FixKeeps
  <2>5. CASE Post
    BY <2>5, PostKeeps
  <2>6. CASE UNCHANGED vars
    <3>1. /\ UNCHANGED input /\ UNCHANGED <<stage, coverage, at, findings, fate, posted>>
      BY <2>6 DEF vars
    <3>2. InputOK' /\ TypeOK' /\ InProgress'
      BY <3>1 DEF IInv, InputOK, TypeOK, InProgress, input
    <3>3. \A i \in DOMAIN answer : Examined(i)' <=> Examined(i)
      BY <3>1 DEF Examined
    <3> QED
      BY <3>1, <3>2, <3>3, ExaminationKept DEF IInv
  <2> QED
    BY <2>1, <2>2, <2>3, <2>4, <2>5, <2>6 DEF Next, Terminated
<1> QED
  BY <1>1, InitEstablishes, PTL DEF Spec

\* Every variable of grounding keeps its type, for any files and answers.
THEOREM TypeCorrect == Spec => []TypeOK
<1>1. IInv => TypeOK
  BY DEF IInv
<1> QED
  BY <1>1, InvariantHolds, PTL

\* What the evidence of a surviving finding has become.
LEMMA SurvivorsGrounded ==
    ASSUME IInv, NEW i \in DOMAIN answer, Survives(i), NEW j \in DOMAIN answer[i].evidence
    PROVE  /\ answer[i] \in Finding /\ answer[i].evidence[j] \in Entry
           /\ Place(answer[i], answer[i].evidence[j]) # NotFound
           /\ findings[i].evidence[j] =
                Corrected(answer[i].evidence[j], Place(answer[i], answer[i].evidence[j]))
<1>1. answer[i] \in Finding /\ answer[i].evidence[j] \in Entry
  BY Lengths, EntriesOf DEF IInv
<1>2. Examined(i) /\ Checked(i)
  BY DEF IInv, Examination, Survives
<1>3. NeedsEvidence(answer[i]) /\ Grounded(answer[i])
  BY <1>2 DEF Checked, Survives
<1> QED
  BY <1>1, <1>2, <1>3 DEF Checked, Grounded

\* Whatever an agent answers, the quotes of its surviving findings are in the
\* files it was shown, at the lines the findings cite.
THEOREM SurvivingQuotesAreReal == Spec => []QuotesAreReal
<1>1. IInv => QuotesAreReal
  <2> SUFFICES ASSUME IInv, NEW i \in DOMAIN answer, Survives(i),
                      NEW j \in DOMAIN answer[i].evidence
               PROVE  LET e     == findings[i].evidence[j]
                          quote == NormalizeQuote(answer[i].evidence[j].source)
                      IN  /\ quote # <<>> /\ e.path = answer[i].evidence[j].path
                          /\ \E side \in Shown(answer[i]) :
                              /\ side \in files[e.path].readable
                              /\ IsAt(quote, TextAt(e.path, side), e.start)
                          /\ e.end = e.start + Len(quote) - 1
    BY DEF QuotesAreReal
  <2> DEFINE f == answer[i]
             e == f.evidence[j]
             place == Place(f, e)
  <2>1. /\ f \in Finding /\ e \in Entry /\ place # NotFound
        /\ findings[i].evidence[j] = Corrected(e, place)
        /\ files \in [Path -> File]
    BY SurvivorsGrounded DEF IInv, InputOK
  <2>2. PICK side \in Shown(f) : GroundEntry(e, side) # NotFound /\ place = GroundEntry(e, side)
    BY <2>1, Placed
  <2>3. side \in Side
    BY <2>1, SidesShown
  <2>4. /\ Quote(e) # <<>> /\ side \in files[e.path].readable
        /\ IsAt(Quote(e), TextAt(e.path, side), place)
    BY <2>1, <2>2, <2>3, EntryGrounded
  <2>5. /\ Corrected(e, place).path = e.path /\ Corrected(e, place).start = place
        /\ Corrected(e, place).end = place + Len(Quote(e)) - 1
    BY <2>1, CorrectedEntry
  <2> QED
    BY <2>1, <2>2, <2>4, <2>5 DEF Quote
<1> QED
  BY <1>1, InvariantHolds, PTL

\* A finding that is dropped has a quote that no commit its author was shown
\* lets it be located at.
LEMMA DroppedUnlocated ==
    ASSUME IInv, NEW i \in DOMAIN answer, fate[i] = "dropped"
    PROVE  \E j \in DOMAIN answer[i].evidence :
                /\ answer[i].evidence[j] \in Entry
                /\ \A side \in Shown(answer[i]) :
                      side \in Side /\ GroundEntry(answer[i].evidence[j], side) = NotFound
<1>1. answer[i] \in Finding /\ files \in [Path -> File]
  BY Lengths DEF IInv, InputOK
<1>2. ~Grounded(answer[i])
  BY DEF IInv, Examination, Checked
<1>3. PICK j \in DOMAIN answer[i].evidence : Place(answer[i], answer[i].evidence[j]) = NotFound
  BY <1>2 DEF Grounded
<1>4. answer[i].evidence[j] \in Entry
  BY <1>1, EntriesOf
<1> QED
  BY <1>1, <1>3, <1>4, Placed, SidesShown

\* A finding whose quotes all byte-match the files at the stated lines, none of
\* them blank, is never dropped.
THEOREM ByteMatchesSurvive == Spec => []TrueQuotesSurvive
<1>1. IInv => TrueQuotesSurvive
  <2> SUFFICES ASSUME IInv, NEW i \in DOMAIN answer, fate[i] = "dropped"
               PROVE  \E j \in DOMAIN answer[i].evidence :
                        LET e == answer[i].evidence[j] IN
                        \/ NormalizeQuote(e.source) = <<>>
                        \/ \A side \in Shown(answer[i]) : ~ByteMatches(e, side)
    BY DEF TrueQuotesSurvive
  <2>1. files \in [Path -> File]
    BY DEF IInv, InputOK
  <2>2. PICK j \in DOMAIN answer[i].evidence :
            /\ answer[i].evidence[j] \in Entry
            /\ \A side \in Shown(answer[i]) :
                  side \in Side /\ GroundEntry(answer[i].evidence[j], side) = NotFound
    BY DroppedUnlocated
  <2> DEFINE e == answer[i].evidence[j]
  <2>3. ASSUME Quote(e) # <<>>, NEW side \in Shown(answer[i]) PROVE ~ByteMatches(e, side)
    <3> SUFFICES ASSUME ByteMatches(e, side) PROVE FALSE
      OBVIOUS
    <3>1. side \in files[e.path].readable
      BY DEF ByteMatches
    <3>2. \E s \in Nat : IsAt(Quote(e), TextAt(e.path, side), s)
      BY <2>1, <2>2, <2>3, ByteMatchIsAt
    <3> QED
      BY <2>1, <2>2, <2>3, <3>1, <3>2, EntryGrounded
  <2> QED
    BY <2>3 DEF Quote
<1> QED
  BY <1>1, InvariantHolds, PTL

\* A finding that is dropped has a quote that is blank or that no file its
\* author was shown contains.
THEOREM DroppedQuotesAreInvented == Spec => []OnlyInventedIsDropped
<1>1. IInv => OnlyInventedIsDropped
  <2> SUFFICES ASSUME IInv, NEW i \in DOMAIN answer, fate[i] = "dropped"
               PROVE  \E j \in DOMAIN answer[i].evidence :
                        LET e     == answer[i].evidence[j]
                            quote == NormalizeQuote(e.source)
                        IN  quote = <<>> \/ \A side \in Shown(answer[i]) :
                                side \in files[e.path].readable =>
                                    ~Occurs(quote, TextAt(e.path, side))
    BY DEF OnlyInventedIsDropped
  <2>1. files \in [Path -> File]
    BY DEF IInv, InputOK
  <2>2. PICK j \in DOMAIN answer[i].evidence :
            /\ answer[i].evidence[j] \in Entry
            /\ \A side \in Shown(answer[i]) :
                  side \in Side /\ GroundEntry(answer[i].evidence[j], side) = NotFound
    BY DroppedUnlocated
  <2> DEFINE e == answer[i].evidence[j]
  <2>3. ASSUME Quote(e) # <<>>, NEW side \in Shown(answer[i]), side \in files[e.path].readable
        PROVE  ~Occurs(Quote(e), TextAt(e.path, side))
    BY <2>1, <2>2, <2>3, EntryGrounded
  <2> QED
    BY <2>3 DEF Quote
<1> QED
  BY <1>1, InvariantHolds, PTL

\* A quote that begins at the cited line, at the anchor's commit, is not moved.
THEOREM CitedQuotesStay == Spec => []CitedStays
<1>1. IInv => CitedStays
  <2> SUFFICES ASSUME IInv, NEW i \in DOMAIN answer, Survives(i),
                      NEW j \in DOMAIN answer[i].evidence,
                      answer[i].anchor.ref \in files[answer[i].evidence[j].path].readable,
                      IsAt(NormalizeQuote(answer[i].evidence[j].source),
                           TextAt(answer[i].evidence[j].path, answer[i].anchor.ref),
                           answer[i].evidence[j].start)
               PROVE  findings[i].evidence[j].start = answer[i].evidence[j].start
    BY DEF CitedStays
  <2> DEFINE f == answer[i]
             e == f.evidence[j]
             ref == f.anchor.ref
  <2>1. /\ f \in Finding /\ e \in Entry /\ Place(f, e) # NotFound
        /\ findings[i].evidence[j] = Corrected(e, Place(f, e))
        /\ files \in [Path -> File]
    BY SurvivorsGrounded DEF IInv, InputOK
  <2>2. Quote(e) # <<>>
    <3>1. PICK side \in Shown(f) : GroundEntry(e, side) # NotFound
      BY <2>1, Placed
    <3> QED
      BY <2>1, <3>1, SidesShown, EntryGrounded
  <2>3. ref \in Side
    BY <2>1, SidesShown
  <2>4. GroundEntry(e, ref) = e.start
    BY <2>1, <2>2, <2>3, EntryGrounded DEF Quote
  <2>5. e.start # NotFound
    BY DEF IsAt, NotFound
  <2>6. Place(f, e) = e.start
    BY <2>1, <2>4, <2>5, Placed
  <2>7. Corrected(e, Place(f, e)).start = Place(f, e)
    BY <2>1, CorrectedEntry
  <2> QED
    BY <2>1, <2>6, <2>7
<1> QED
  BY <1>1, InvariantHolds, PTL

-----------------------------------------------------------------------------
(* Anchors.                                                                *)

\* The diff shows every line of the range.
InTheDiff(a) ==
    files[a.path].patched /\ a.start .. a.end \subseteq Visible(files[a.path].edit, a.ref)

\* The anchor of the finding has been validated.
Anchored(i) == fate[i] = "survives" \/ (i = at /\ stage = "fix")

CoverageOfPatches ==
    stage # "scan" =>
        coverage = [p \in {q \in Path : files[q].patched} |->
                        Scan(Patch(files[p].edit, files[p].newline))]

Anchors ==
    \A i \in DOMAIN answer :
        LET a == answer[i].anchor
        IN  findings[i].anchor = IF Anchored(i) /\ a.kind = "line" /\ ~InTheDiff(a) THEN Demoted(a) ELSE a

Placement ==
    IF stage = "done" THEN \A i \in DOMAIN posted : posted[i] = Comment(findings[i])
    ELSE posted = <<>>

AInv == CoverageOfPatches /\ Anchors /\ Placement

\* What the scans cover is what the diff shows.
LEMMA CoveredIsShown ==
    ASSUME InputOK, CoverageOfPatches, stage # "scan", NEW a \in Anchor
    PROVE  Covered(a) <=> InTheDiff(a)
<1>1. a.path \in Path /\ a.ref \in {"head", "base"} /\ files[a.path] \in File
  BY DEF InputOK, Anchor, Side
<1>2. a.path \in DOMAIN coverage <=> files[a.path].patched
  BY <1>1 DEF CoverageOfPatches
<1>3. CASE files[a.path].patched
  <2>1. coverage[a.path] = Scan(Patch(files[a.path].edit, files[a.path].newline))
    BY <1>1, <1>3 DEF CoverageOfPatches
  <2>2. files[a.path].edit \in Seq(Change)
    BY <1>1 DEF File
  <2>3. Lines(a.path, a.ref) = Visible(files[a.path].edit, a.ref)
    BY <1>1, <2>1, <2>2, PatchCovers DEF Lines
  <2> QED
    BY <1>2, <1>3, <2>3 DEF Covered, InTheDiff
<1>4. CASE ~files[a.path].patched
  BY <1>2, <1>4 DEF Covered, InTheDiff
<1> QED
  BY <1>3, <1>4

LEMMA AnchorsStart == Init => AInv
<1> SUFFICES ASSUME Init PROVE AInv
  OBVIOUS
<1>1. \A i \in DOMAIN answer : fate[i] = "pending" /\ stage = "scan" /\ findings[i] = answer[i]
  BY DEF Init
<1>2. Anchors
  BY <1>1 DEF Anchors, Anchored
<1> QED
  BY <1>2 DEF Init, AInv, CoverageOfPatches, Placement

LEMMA AnchorsFollow == IInv /\ IInv' /\ AInv /\ [Next]_vars => AInv'
<1> SUFFICES ASSUME IInv, IInv', AInv, [Next]_vars PROVE AInv'
  OBVIOUS
<1>0. /\ DOMAIN findings = DOMAIN answer /\ at \in Nat
      /\ \A i \in DOMAIN answer : answer[i] \in Finding /\ findings[i] \in Finding
      /\ fate \in [DOMAIN answer -> {"pending", "survives", "dropped"}]
  BY Lengths DEF IInv, TypeOK
<1>1. CASE ScanFiles
  <2>1. CoverageOfPatches' /\ Placement'
    BY <1>1 DEF ScanFiles, input, CoverageOfPatches, Placement, AInv
  <2>2. \A i \in DOMAIN answer : Anchored(i)' <=> Anchored(i)
    BY <1>1 DEF ScanFiles, Anchored
  <2>3. Anchors'
    BY <1>1, <2>2 DEF ScanFiles, input, Anchors, AInv, InTheDiff, Demoted
  <2> QED
    BY <2>1, <2>3 DEF AInv
<1>2. CASE GroundEvidence
  <2>1. /\ stage = "ground" /\ UNCHANGED <<files, answer, coverage, posted>>
        /\ stage' \in {"ground", "post", "anchor"}
    BY <1>2 DEF GroundEvidence, Proceed, input
  <2>2. CoverageOfPatches' /\ Placement'
    BY <2>1 DEF CoverageOfPatches, Placement, AInv
  <2>3. ASSUME NEW i \in DOMAIN answer
        PROVE  findings'[i].anchor = findings[i].anchor /\ (Anchored(i)' <=> Anchored(i))
    <3>1. CASE NeedsEvidence(findings[at]) /\ ~Grounded(findings[at])
      <4>1. UNCHANGED findings /\ fate' = [fate EXCEPT ![at] = "dropped"]
        BY <1>2, <3>1 DEF GroundEvidence
      <4>2. at \in DOMAIN answer => fate[at] = "pending"
        <5>1. ~Examined(at)
          BY <1>0, <2>1 DEF Examined
        <5> QED
          BY <5>1 DEF IInv, Examination
      <4> QED
        BY <1>0, <2>1, <4>1, <4>2 DEF Anchored
    <3>2. CASE ~(NeedsEvidence(findings[at]) /\ ~Grounded(findings[at]))
      <4> DEFINE grounded == [j \in DOMAIN findings[at].evidence |->
                                Corrected(findings[at].evidence[j],
                                          Place(findings[at], findings[at].evidence[j]))]
      <4>1. /\ stage' = "anchor" /\ UNCHANGED <<at, fate>>
            /\ findings' = findings \/ findings' = [findings EXCEPT ![at].evidence = grounded]
        BY <1>2, <3>2 DEF GroundEvidence
      <4> HIDE DEF grounded
      <4>2. findings'[i].anchor = findings[i].anchor
        <5>1. CASE findings' = findings
          BY <5>1
        <5>2. CASE findings' = [findings EXCEPT ![at].evidence = grounded]
          BY <1>0, <5>2 DEF Finding
        <5> QED
          BY <4>1, <5>1, <5>2
      <4> QED
        BY <2>1, <4>1, <4>2 DEF Anchored
    <3> QED
      BY <3>1, <3>2
  <2>4. Anchors'
    BY <2>1, <2>3 DEF Anchors, AInv, InTheDiff, Demoted
  <2> QED
    BY <2>2, <2>4 DEF AInv
<1>3. CASE ValidateAnchor
  <2> DEFINE b == findings[at].anchor
             anchor == IF b.kind = "line" /\ ~Covered(b) THEN Demoted(b) ELSE b
  <2>1. /\ stage = "anchor" /\ stage' = "fix" /\ UNCHANGED <<files, answer, coverage, at, fate, posted>>
        /\ findings' = [findings EXCEPT ![at].anchor = anchor]
    BY <1>3 DEF ValidateAnchor, input
  <2>2. CoverageOfPatches' /\ Placement'
    BY <2>1 DEF CoverageOfPatches, Placement, AInv
  <2>3. ASSUME NEW i \in DOMAIN answer
        PROVE  LET a == answer[i].anchor
               IN  findings'[i].anchor =
                      IF Anchored(i)' /\ a.kind = "line" /\ ~InTheDiff(a) THEN Demoted(a) ELSE a
    <3>1. CASE i = at
      <4>1. fate[at] = "pending" /\ ~Anchored(i) /\ Anchored(i)'
        BY <2>1, <3>1 DEF IInv, InProgress, Anchored
      <4>2. b = answer[i].anchor /\ b \in Anchor
        BY <1>0, <3>1, <4>1 DEF AInv, Anchors, Finding
      <4>3. Covered(b) <=> InTheDiff(b)
        BY <2>1, <4>2, CoveredIsShown DEF IInv, AInv
      <4> HIDE DEF anchor
      <4>4. findings'[i].anchor = anchor
        BY <1>0, <2>1, <3>1 DEF Finding
      <4> QED
        BY <4>1, <4>2, <4>3, <4>4 DEF anchor
    <3>2. CASE i # at
      <4> HIDE DEF anchor
      <4>1. findings'[i] = findings[i] /\ (Anchored(i)' <=> Anchored(i))
        BY <1>0, <2>1, <3>2 DEF Anchored
      <4> QED
        BY <4>1 DEF AInv, Anchors
    <3> QED
      BY <3>1, <3>2
  <2>4. Anchors'
    BY <2>1, <2>3 DEF Anchors, InTheDiff, Demoted
  <2> QED
    BY <2>2, <2>4 DEF AInv
<1>4. CASE DryRunSuggestedFix
  <2> DEFINE fix == IF Applies(findings[at].fix, findings[at].anchor.path) THEN findings[at].fix ELSE NoFix
  <2>1. /\ stage = "fix" /\ stage' \in {"ground", "post"}
        /\ UNCHANGED <<files, answer, coverage, posted>>
        /\ findings' = [findings EXCEPT ![at].fix = fix]
        /\ fate' = [fate EXCEPT ![at] = "survives"] /\ at' = at + 1
    BY <1>4 DEF DryRunSuggestedFix, Proceed, input
  <2> HIDE DEF fix
  <2>2. CoverageOfPatches' /\ Placement'
    BY <2>1 DEF CoverageOfPatches, Placement, AInv
  <2>3. ASSUME NEW i \in DOMAIN answer
        PROVE  findings'[i].anchor = findings[i].anchor /\ (Anchored(i)' <=> Anchored(i))
    <3>1. findings'[i].anchor = findings[i].anchor
      BY <1>0, <2>1 DEF Finding
    <3>2. Anchored(i)' <=> Anchored(i)
      BY <1>0, <2>1 DEF Anchored
    <3> QED
      BY <3>1, <3>2
  <2>4. Anchors'
    BY <2>1, <2>3 DEF Anchors, AInv, InTheDiff, Demoted
  <2> QED
    BY <2>2, <2>4 DEF AInv
<1>5. CASE Post
  <2>1. /\ stage = "post" /\ stage' = "done"
        /\ UNCHANGED <<files, isFork, answer, coverage, at, findings, fate>>
    BY <1>5 DEF Post, input
  <2>2. PICK accepted \in SUBSET {i \in DOMAIN findings : fate[i] = "survives"} :
          posted' = [i \in accepted |-> Comment(findings[i])]
    BY <1>5 DEF Post
  <2>3. Placement'
    BY <2>1, <2>2 DEF Placement, Comment, Surface, Committable
  <2>4. CoverageOfPatches' /\ Anchors'
    BY <2>1 DEF CoverageOfPatches, Anchors, AInv, InTheDiff, Demoted, Anchored
  <2> QED
    BY <2>3, <2>4 DEF AInv
<1>6. CASE UNCHANGED vars
  BY <1>6 DEF vars, input, AInv, CoverageOfPatches, Anchors, Anchored, InTheDiff, Demoted,
              Placement, Comment, Surface, Committable
<1> QED
  BY <1>1, <1>2, <1>3, <1>4, <1>5, <1>6 DEF Next, Terminated

\* A finding on lines is posted on exactly those lines if the diff shows all of
\* them, and on no lines otherwise, for any edit of any file, with any number
\* of context lines: the scan of a patch covers what its hunks show.
THEOREM AnchorsAreShown == Spec => []AnchorsMatchTheDiff
<1>1. IInv /\ AInv => AnchorsMatchTheDiff
  <2> SUFFICES ASSUME IInv, AInv, NEW i \in DOMAIN posted,
                      answer[i].anchor.kind = "line",
                      answer[i].anchor.start =< answer[i].anchor.end
               PROVE  IF InTheDiff(answer[i].anchor)
                      THEN /\ posted[i].surface = "line" /\ posted[i].side = answer[i].anchor.ref
                           /\ posted[i].first = answer[i].anchor.start
                           /\ posted[i].last = answer[i].anchor.end
                      ELSE posted[i].surface # "line"
    BY DEF AnchorsMatchTheDiff, InTheDiff
  <2> DEFINE a == answer[i].anchor
  <2>1. i \in DOMAIN answer /\ fate[i] = "survives" /\ a \in Anchor
    <3>1. i \in DOMAIN answer /\ fate[i] = "survives"
      BY DEF IInv, TypeOK
    <3> QED
      BY <3>1, Lengths DEF IInv, Finding
  <2>2. stage = "done"
    BY DEF AInv, Placement
  <2>3. posted[i] = Comment(findings[i])
    BY <2>2 DEF AInv, Placement
  <2>4. findings[i].anchor = IF InTheDiff(a) THEN a ELSE Demoted(a)
    BY <2>1 DEF AInv, Anchors, Anchored
  <2>5. CASE InTheDiff(a)
    BY <2>3, <2>4, <2>5 DEF Comment, Surface
  <2>6. CASE ~InTheDiff(a)
    <3>1. Demoted(a).kind \in {"file", "pr"}
      BY <2>1 DEF Demoted, Anchor
    <3>2. posted[i].surface # "line"
      BY <2>3, <2>4, <2>6, <3>1 DEF Comment, Surface
    <3> QED
      BY <2>6, <3>2
  <2> QED
    BY <2>5, <2>6
<1>2. Spec => []AInv
  BY AnchorsStart, AnchorsFollow, InvariantHolds, PTL DEF Spec
<1> QED
  BY <1>1, <1>2, InvariantHolds, PTL

-----------------------------------------------------------------------------
(* Fixes.                                                                  *)

FixApplies(i) == Applies(answer[i].fix, answer[i].anchor.path)

\* The dry run either leaves a fix as it was given or takes it away.
Fixes ==
    \A i \in DOMAIN answer :
        findings[i].fix = IF fate[i] = "survives" /\ ~FixApplies(i) THEN NoFix ELSE answer[i].fix

LEMMA FixesFollow == IInv /\ AInv /\ Fixes /\ [Next]_vars => Fixes'
<1> SUFFICES ASSUME IInv, AInv, Fixes, [Next]_vars PROVE Fixes'
  OBVIOUS
<1>0. /\ DOMAIN findings = DOMAIN answer /\ at \in Nat
      /\ \A i \in DOMAIN answer : answer[i] \in Finding /\ findings[i] \in Finding
      /\ fate \in [DOMAIN answer -> {"pending", "survives", "dropped"}]
  BY Lengths DEF IInv, TypeOK
<1>1. UNCHANGED <<files, answer>>
  BY DEF Next, ScanFiles, GroundEvidence, ValidateAnchor, DryRunSuggestedFix, Post, Terminated, vars, input
<1>2. \A i \in DOMAIN answer : FixApplies(i)' <=> FixApplies(i)
  BY <1>1 DEF FixApplies, Applies, Contents
<1>3. ASSUME \A i \in DOMAIN answer :
                findings'[i].fix = findings[i].fix /\ (fate'[i] = "survives" <=> fate[i] = "survives")
      PROVE  Fixes'
  BY <1>1, <1>2, <1>3 DEF Fixes
<1>4. CASE ScanFiles \/ Post \/ UNCHANGED vars
  BY <1>3, <1>4 DEF ScanFiles, Post, vars
<1>5. CASE GroundEvidence
  <2>1. CASE NeedsEvidence(findings[at]) /\ ~Grounded(findings[at])
    <3>1. stage = "ground" /\ UNCHANGED findings /\ fate' = [fate EXCEPT ![at] = "dropped"]
      BY <1>5, <2>1 DEF GroundEvidence
    <3>2. at \in DOMAIN answer => fate[at] = "pending"
      <4>1. ~Examined(at)
        BY <1>0, <3>1 DEF Examined
      <4> QED
        BY <4>1 DEF IInv, Examination
    <3>3. \A i \in DOMAIN answer : fate'[i] = "survives" <=> fate[i] = "survives"
      BY <1>0, <3>1, <3>2
    <3> QED
      BY <1>3, <3>1, <3>3
  <2>2. CASE ~(NeedsEvidence(findings[at]) /\ ~Grounded(findings[at]))
    <3> DEFINE grounded == [j \in DOMAIN findings[at].evidence |->
                              Corrected(findings[at].evidence[j],
                                        Place(findings[at], findings[at].evidence[j]))]
    <3>1. /\ UNCHANGED fate
          /\ findings' = findings \/ findings' = [findings EXCEPT ![at].evidence = grounded]
      BY <1>5, <2>2 DEF GroundEvidence
    <3> HIDE DEF grounded
    <3>2. CASE findings' = findings
      BY <1>3, <3>1, <3>2
    <3>3. CASE findings' = [findings EXCEPT ![at].evidence = grounded]
      <4>1. \A i \in DOMAIN answer : findings'[i].fix = findings[i].fix
        BY <1>0, <3>3 DEF Finding
      <4> QED
        BY <1>3, <3>1, <4>1
    <3> QED
      BY <3>1, <3>2, <3>3
  <2> QED
    BY <2>1, <2>2
<1>6. CASE ValidateAnchor
  <2> DEFINE b == findings[at].anchor
             anchor == IF b.kind = "line" /\ ~Covered(b) THEN Demoted(b) ELSE b
  <2>1. UNCHANGED fate /\ findings' = [findings EXCEPT ![at].anchor = anchor]
    BY <1>6 DEF ValidateAnchor
  <2> HIDE DEF anchor
  <2>2. \A i \in DOMAIN answer : findings'[i].fix = findings[i].fix
    BY <1>0, <2>1 DEF Finding
  <2> QED
    BY <1>3, <2>1, <2>2
<1>7. CASE DryRunSuggestedFix
  <2> DEFINE f == findings[at]
             fix == IF Applies(f.fix, f.anchor.path) THEN f.fix ELSE NoFix
  <2>1. /\ stage = "fix" /\ findings' = [findings EXCEPT ![at].fix = fix]
        /\ fate' = [fate EXCEPT ![at] = "survives"]
    BY <1>7 DEF DryRunSuggestedFix
  <2>2. ASSUME NEW i \in DOMAIN answer
        PROVE  findings'[i].fix =
                  IF fate'[i] = "survives" /\ ~FixApplies(i) THEN NoFix ELSE answer[i].fix
    <3>1. CASE i = at
      <4>1. fate[at] = "pending" /\ fate'[at] = "survives"
        BY <1>0, <2>1, <3>1 DEF IInv, InProgress
      <4>2. f.anchor.path = answer[i].anchor.path
        <5>1. f.anchor \in {answer[i].anchor, Demoted(answer[i].anchor)}
          BY <3>1 DEF AInv, Anchors
        <5>2. answer[i].anchor \in Anchor
          BY <1>0 DEF Finding
        <5>3. Demoted(answer[i].anchor).path = answer[i].anchor.path
          BY <5>2 DEF Demoted, Anchor
        <5> QED
          BY <5>1, <5>3
      <4>3. f.fix = answer[i].fix
        BY <3>1, <4>1 DEF Fixes
      <4>4. fix = IF FixApplies(i) THEN answer[i].fix ELSE NoFix
        BY <4>2, <4>3 DEF FixApplies
      <4> HIDE DEF fix
      <4>5. findings'[i].fix = fix
        BY <1>0, <2>1, <3>1 DEF Finding
      <4> QED
        BY <3>1, <4>1, <4>4, <4>5
    <3>2. CASE i # at
      <4> HIDE DEF fix
      <4>1. findings'[i] = findings[i] /\ fate'[i] = fate[i]
        BY <1>0, <2>1, <3>2
      <4> QED
        BY <4>1 DEF Fixes
    <3> QED
      BY <3>1, <3>2
  <2> QED
    BY <1>1, <1>2, <2>2 DEF Fixes
<1> QED
  BY <1>4, <1>5, <1>6, <1>7 DEF Next, Terminated

\* What a suggestion does guarantee, since SuggestionsFitTheirLines does not
\* hold: a comment carries one exactly if the fix its author gave lies within
\* the file at the head, wherever that is in the file, and the pull request
\* does not come from a fork (dryRunSuggestedFix, render.Committable).
THEOREM SuggestionsAreDryRun ==
    Spec => [](\A i \in DOMAIN posted : posted[i].suggestion <=> ~isFork /\ FixApplies(i))
<1>1. IInv /\ AInv /\ Fixes =>
        \A i \in DOMAIN posted : posted[i].suggestion <=> ~isFork /\ FixApplies(i)
  <2> SUFFICES ASSUME IInv, AInv, Fixes, NEW i \in DOMAIN posted
               PROVE  posted[i].suggestion <=> ~isFork /\ FixApplies(i)
    OBVIOUS
  <2>1. i \in DOMAIN answer /\ fate[i] = "survives"
    BY DEF IInv, TypeOK
  <2>2. posted[i] = Comment(findings[i])
    BY DEF AInv, Placement
  <2>3. posted[i].suggestion <=> findings[i].fix # NoFix /\ ~isFork
    <3>1. Comment(findings[i]).suggestion = Committable(findings[i])
      BY DEF Comment
    <3>2. posted[i].suggestion = Committable(findings[i])
      BY <2>2, <3>1, Zenon
    <3>3. Committable(findings[i]) <=> findings[i].fix # NoFix /\ ~isFork
      BY DEF Committable
    <3> QED
      BY <3>2, <3>3, Zenon
  <2>4. findings[i].fix = IF FixApplies(i) THEN answer[i].fix ELSE NoFix
    BY <2>1 DEF Fixes
  <2>5. FixApplies(i) => answer[i].fix # NoFix
    BY DEF FixApplies, Applies, NoFix
  <2> QED
    BY <2>3, <2>4, <2>5
<1>2. Init => Fixes
  BY DEF Init, Fixes
<1>3. Spec => []AInv
  BY AnchorsStart, AnchorsFollow, InvariantHolds, PTL DEF Spec
<1> QED
  BY <1>1, <1>2, <1>3, FixesFollow, InvariantHolds, PTL DEF Spec
=============================================================================
