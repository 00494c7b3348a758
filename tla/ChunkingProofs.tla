---------------------------- MODULE ChunkingProofs ----------------------------
(***************************************************************************)
(* Theorems about Chunking for every document and every configuration of   *)
(* the chunkers.                                                           *)
(*                                                                         *)
(* The scan leaves increasing starts, which cut the document into sections *)
(* that tile it; the merge keeps a tiling of what it has consumed; and     *)
(* the chunks so far and the place of the next window are tied together by *)
(* AtWindow, from which each window advances because its end lies beyond   *)
(* its start by more than the overlap.  On top of this invariant rest      *)
(* where sections start (the fences open at every line read), which are    *)
(* merged (those that wait for one that is not small) and where windows    *)
(* are cut.                                                                *)
(***************************************************************************)
EXTENDS Chunking, WellFoundedInduction, TLAPS

\* The spans of S are not empty, in order and within length.
Ordered(S, length) ==
  \A n \in DOMAIN S :
    /\ S[n].start < S[n].end /\ S[n].end <= length
    /\ \A m \in 1 .. n - 1 : S[m].end <= S[n].start

\* The spans of S are the text from 0 to length, in order and without gaps.
Tiles(S, length) ==
  /\ Ordered(S, length)
  /\ S = <<>> <=> length = 0
  /\ S # <<>> => S[1].start = 0 /\ S[Len(S)].end = length
  /\ \A n \in 1 .. Len(S) - 1 : S[n].end = S[n + 1].start

Increasing(s, length) ==
  /\ s = <<>> <=> length = 0
  /\ s # <<>> => s[1] = 0
  /\ \A n \in DOMAIN s : s[n] < length /\ \A m \in 1 .. n - 1 : s[m] < s[n]

\* Before the scan nothing has happened, and during it only starts are found.
ScanInv ==
  /\ phase \in {"idle", "scan"} => next = 1 /\ pending = NoPending /\ merged = <<>>
  /\ phase \in {"idle", "scan", "merge"} => runeStart = 0
  /\ phase \in {"idle", "scan", "merge", "failed"} => chunks = <<>>
  /\ phase = "scan" =>
       /\ Increasing(starts, document.length)
       /\ \A n \in DOMAIN starts : n > 1 =>
            \A k \in line .. Len(document.lines) : starts[n] < document.lines[k].start

\* How far the merged sections and the pending one reach.
Consumed == IF next <= Len(sections) THEN sections[next].start ELSE document.length

MergeInv ==
  phase = "merge" =>
    /\ pending # NoPending => next <= Len(sections) /\ pending < Consumed
    /\ Tiles(merged, IF pending = NoPending THEN Consumed ELSE pending)

SectionInv ==
  /\ phase \notin {"idle", "failed"} => Valid
  /\ phase \in {"merge", "split", "done"} => Tiles(sections, document.length)
  /\ phase = "merge" => sections # <<>>
  /\ phase = "done" => next > Len(sections)

\* The chunks c are in order, within the limit, and overlap as they should.
InOrder(c) ==
  /\ c # <<>> => c[1].start = 0
  /\ \A n \in DOMAIN c : c[n].start < c[n].end /\ c[n].end - c[n].start <= chunker.max
  /\ \A n \in DOMAIN c : n > 1 =>
       /\ c[n - 1].start < c[n].start /\ c[n - 1].end < c[n].end
       /\ c[n].start = c[n - 1].end -
            IF \E s \in DOMAIN sections : sections[s].end = c[n - 1].end
            THEN 0 ELSE chunker.overlap

LastChunk(c) == c[Len(c)]

\* Where the next window of the sections starts and what the last chunk was.
AtWindow(c, k, from) ==
  \/ c = <<>> /\ k = 1 /\ from = 0
  \/ c # <<>> /\ k > 1 /\ from = 0 /\ LastChunk(c).end = sections[k - 1].end
  \/ /\ c # <<>> /\ k <= Len(sections) /\ from > 0
     /\ LastChunk(c).end = sections[k].start + from + chunker.overlap
     /\ LastChunk(c).end < sections[k].end
     /\ LastChunk(c).start < sections[k].start + from

ChunkInv ==
  phase \in {"split", "done"} =>
    /\ InOrder(chunks) /\ AtWindow(chunks, next, runeStart)
    /\ runeStart > 0 => ~Fits

IInv ==
  /\ TypeOK
  /\ WellFormed(document)
  /\ ScanInv
  /\ SectionInv
  /\ MergeInv
  /\ ChunkInv

-----------------------------------------------------------------------------
(* Lemmas.                                                                 *)

\* A set of integers that is not empty and bounded has a largest element.
LEMMA LargestExists ==
  ASSUME NEW bound \in Int, NEW S \in SUBSET Int, S # {}, \A p \in S : p <= bound
  PROVE  \E p \in S : \A q \in S : q <= p
<1> DEFINE gaps == {bound - p : p \in S}
<1>1. gaps \subseteq Nat /\ gaps # {}
  <2>1. \A p \in S : bound - p \in Nat
    OBVIOUS
  <2>2. PICK p \in S : TRUE
    OBVIOUS
  <2>3. bound - p \in gaps
    BY <2>2
  <2>4. QED
    BY <2>1, <2>3
<1>2. PICK g \in gaps : \A h \in gaps : ~(<<h, g>> \in OpToRel(<, Nat))
  BY <1>1, NatLessThanWellFounded, WFMin
<1>3. \A h \in gaps : ~(h < g)
  BY <1>1, <1>2 DEF OpToRel
<1>4. PICK p \in S : g = bound - p
  BY <1>2
<1>5. \A q \in S : q <= p
  BY <1>3, <1>4
<1>6. QED
  BY <1>5

\* An element of a sequence has the type of the elements.
LEMMA ElementOfSeq ==
  ASSUME NEW S, NEW s \in Seq(S), NEW n \in DOMAIN s
  PROVE  s[n] \in S
OBVIOUS

\* Lines and spans are made of positions.
LEMMA LineFields == \A l \in Line : l.start \in Nat /\ l.end \in Nat
BY DEF Line

LEMMA SpanFields ==
  /\ \A s \in Span : s.start \in Nat /\ s.end \in Nat
  /\ \A m, n \in Nat : [start |-> m, end |-> n] \in Span
BY DEF Span

\* A window that is not stalled when it is full ends beyond the overlap.
LEMMA SnapAdvances ==
  ASSUME TypeOK, Valid, chunker.kind = "markdown", NEW from \in Nat, NEW full \in Nat,
         full > from + chunker.overlap
  PROVE  /\ SnapToSentence(from, full) \in Nat
         /\ SnapToSentence(from, full) > from + chunker.overlap
         /\ SnapToSentence(from, full) <= full
<1> DEFINE ends == SentenceEnds(from, full)
           last == CHOOSE p \in ends : \A q \in ends : q <= p
<1>1. ends \in SUBSET Int /\ \A p \in ends : p <= full /\ p \in Nat
  BY DEF SentenceEnds, TypeOK, Document, LowestCandidate, Larger, SnapRunes, Chunker
<1>2. CASE ends = {}
  BY <1>2, <1>1 DEF SnapToSentence, TypeOK, Chunker
<1>3. CASE ends # {}
  <2>1. \E p \in ends : \A q \in ends : q <= p
    <3> HIDE DEF ends
    <3>1. full \in Int
      OBVIOUS
    <3>2. ends \in SUBSET Int /\ ends # {} /\ \A p \in ends : p <= full
      BY <1>1, <1>3
    <3>3. QED
      BY <3>1, <3>2, LargestExists, Zenon
  <2>2. last \in ends
    BY <2>1
  <2>3. last \in Nat /\ last <= full
    BY <1>1, <2>2
  <2>4. SnapToSentence(from, full) = IF last <= from + chunker.overlap THEN full ELSE last
    BY <1>3 DEF SnapToSentence, Stalls
  <2>5. QED
    BY <2>3, <2>4 DEF TypeOK, Chunker
<1>4. QED
  BY <1>2, <1>3

\* A window ends beyond its start by more than the overlap, or with its section.
LEMMA WindowAdvances ==
  ASSUME TypeOK, Valid, NEW from \in Nat, NEW limit \in Nat, from < limit
  PROVE  LET end == WindowEnd(from, limit) IN
         /\ end \in Nat /\ from < end /\ end <= limit
         /\ end - from <= chunker.max
         /\ end = limit \/ end > from + chunker.overlap
<1> DEFINE full == Smaller(from + chunker.max, limit)
<1>1. /\ chunker.max \in Int /\ chunker.overlap \in Int /\ chunker.snap \in Int
      /\ chunker.max >= 1 /\ chunker.overlap >= 0 /\ chunker.overlap < chunker.max
  BY DEF TypeOK, Chunker, Valid, ValidWindow
<1>2. /\ full \in Nat /\ from < full /\ full <= limit /\ full <= from + chunker.max
      /\ full < limit => full = from + chunker.max
  BY <1>1 DEF Smaller
<1>3. CASE SnapRunes > 0 /\ full < limit
  <2>1. chunker.kind = "markdown"
    BY <1>3 DEF SnapRunes
  <2>2. WindowEnd(from, limit) = SnapToSentence(from, full)
    BY <1>3 DEF WindowEnd
  <2>3. full > from + chunker.overlap
    BY <1>1, <1>2, <1>3
  <2>4. QED
    BY <1>1, <1>2, <2>1, <2>2, <2>3, SnapAdvances
<1>4. CASE ~(SnapRunes > 0 /\ full < limit)
  BY <1>1, <1>2, <1>4 DEF WindowEnd
<1>5. QED
  BY <1>3, <1>4

-----------------------------------------------------------------------------
(* The invariant, action by action.                                        *)

LEMMA InitInv == Init => IInv
<1> SUFFICES ASSUME Init PROVE IInv
  OBVIOUS
<1> USE DEF Init
<1>1. document \in Document /\ chunker \in Chunker /\ WellFormed(document)
  BY DocumentAssumption, ChunkerAssumption
<1>2. TypeOK
  BY <1>1 DEF TypeOK, NoFence, NoPending, Document
<1>3. ScanInv /\ SectionInv /\ MergeInv /\ ChunkInv
  BY DEF ScanInv, SectionInv, MergeInv, ChunkInv
<1>4. QED
  BY <1>1, <1>2, <1>3 DEF IInv

\* One span is a tiling of its text.
LEMMA OneTile ==
  ASSUME NEW length \in Nat, length > 0
  PROVE  Tiles(<<[start |-> 0, end |-> length]>>, length)
BY DEF Tiles, Ordered

LEMMA ChunkPreserves == IInv /\ Chunk => IInv'
<1> SUFFICES ASSUME IInv, Chunk PROVE IInv'
  OBVIOUS
<1> USE DEF IInv, Chunk
<1>0. document.length \in Nat
  BY DEF TypeOK, Document
<1>1. TypeOK'
  <2>1. <<[start |-> 0, end |-> document.length]>> \in Seq(Span)
    BY <1>0 DEF Span
  <2>2. sections' \in Seq(Span) /\ starts' \in Seq(Nat)
    <3>1. sections \in Seq(Span) /\ starts \in Seq(Nat)
      BY DEF TypeOK
    <3>2. sections' \in {sections, <<>>, <<[start |-> 0, end |-> document.length]>>}
      OBVIOUS
    <3>3. starts' \in {starts, <<>>, <<0>>}
      OBVIOUS
    <3>4. <<>> \in Seq(Span) /\ <<>> \in Seq(Nat) /\ <<0>> \in Seq(Nat)
      OBVIOUS
    <3>5. sections' \in Seq(Span)
      BY <2>1, <3>1, <3>2, <3>4, Zenon
    <3>6. starts' \in Seq(Nat)
      BY <3>1, <3>3, <3>4, Zenon
    <3>7. QED
      BY <3>5, <3>6
  <2>3. next' \in 1 .. Len(sections') + 1
    BY <2>2 DEF ScanInv
  <2>4. QED
    BY <2>2, <2>3 DEF TypeOK
<1>2. WellFormed(document)'
  BY DEF WellFormed
<1>3. Valid'
  BY DEF Valid, ValidWindow
<1>4. CASE chunker.kind = "fixed"
  <2>1. Tiles(sections', document.length)
    <3>1. CASE document.length = 0
      <4>1. sections' = <<>>
        BY <1>4, <3>1
      <4>2. QED
        BY <3>1, <4>1 DEF Tiles, Ordered
    <3>2. CASE document.length > 0
      <4>1. sections' = <<[start |-> 0, end |-> document.length]>>
        BY <1>0, <1>4, <3>2
      <4>2. QED
        BY <1>0, <3>2, <4>1, OneTile
    <3>3. QED
      BY <1>0, <3>1, <3>2
  <2>2. QED
    BY <1>1, <1>2, <1>3, <1>4, <2>1
       DEF ScanInv, SectionInv, MergeInv, ChunkInv, InOrder, AtWindow, Tiles, Ordered
<1>5. CASE chunker.kind # "fixed"
  <2>1. phase' = "scan" /\ starts' = IF document.length = 0 THEN <<>> ELSE <<0>>
    BY <1>5
  <2>2. Increasing(starts', document.length)
    BY <2>1, <1>0 DEF Increasing
  <2>3. ScanInv'
    BY <2>1, <2>2 DEF ScanInv
  <2>4. QED
    BY <1>1, <1>2, <1>3, <2>1, <2>3 DEF SectionInv, MergeInv, ChunkInv
<1>6. QED
  BY <1>4, <1>5

LEMMA RejectPreserves == IInv /\ Reject => IInv'
BY DEF IInv, Reject, TypeOK, WellFormed, ScanInv, SectionInv, MergeInv, ChunkInv

\* A later start within the document extends increasing starts.
LEMMA AppendIncreasing ==
  ASSUME NEW s \in Seq(Nat), NEW v \in Nat, NEW length \in Nat, v < length,
         Increasing(s, length), s # <<>>, \A n \in DOMAIN s : s[n] < v
  PROVE  Increasing(Append(s, v), length)
<1> DEFINE t == Append(s, v)
<1>1. /\ Len(t) = Len(s) + 1 /\ DOMAIN t = 1 .. Len(s) + 1 /\ DOMAIN s = 1 .. Len(s)
      /\ t[Len(s) + 1] = v /\ \A n \in DOMAIN s : t[n] = s[n]
  OBVIOUS
<1>2. Len(s) \in Nat /\ Len(s) > 0 /\ \A n \in DOMAIN s : s[n] \in Nat
  OBVIOUS
<1>3. t # <<>>
  BY <1>1, <1>2
<1>4. s[1] = 0 /\ \A n \in DOMAIN s : s[n] < length /\ \A m \in 1 .. n - 1 : s[m] < s[n]
  BY DEF Increasing
<1> HIDE DEF t
<1>5. t[1] = 0
  BY <1>1, <1>2, <1>4
<1>6. ASSUME NEW n \in DOMAIN t PROVE t[n] < length /\ \A m \in 1 .. n - 1 : t[m] < t[n]
  <2>1. CASE n \in DOMAIN s
    <3>1. \A m \in 1 .. n - 1 : m \in DOMAIN s
      BY <1>1, <1>2, <2>1
    <3>2. QED
      BY <1>1, <1>4, <2>1, <3>1
  <2>2. CASE n = Len(s) + 1
    <3>1. \A m \in 1 .. n - 1 : m \in DOMAIN s
      BY <1>1, <1>2, <2>2
    <3>2. QED
      BY <1>1, <2>2, <3>1
  <2>3. QED
    BY <1>1, <1>2, <2>1, <2>2
<1>7. QED
  BY <1>3, <1>5, <1>6 DEF Increasing, t

LEMMA ScanLinePreserves == IInv /\ ScanLine => IInv'
<1> SUFFICES ASSUME IInv, ScanLine PROVE IInv'
  OBVIOUS
<1> USE DEF IInv
<1> DEFINE l == document.lines[line]
<1>1. /\ phase = "scan" /\ phase' = "scan" /\ line' = line + 1
      /\ line \in DOMAIN document.lines /\ l \in Line
      /\ document.lines \in Seq(Line) /\ document.length \in Nat
      /\ UNCHANGED <<document, chunker, sections, next, pending, merged, runeStart, chunks>>
  BY DEF ScanLine, TypeOK, Document
<1>2. \/ starts' = starts
      \/ l.start > 0 /\ starts' = Append(starts, l.start)
  BY DEF ScanLine
<1>3. TypeOK'
  <2>1. fence' \in [marker : {"none", "backtick", "tilde"}, width : Nat]
    <3>1. fence' \in {fence, NoFence, [marker |-> l.marker, width |-> l.fence]}
      BY DEF ScanLine
    <3>2. l.marker \in {"none", "backtick", "tilde"} /\ l.fence \in Nat
      BY <1>1 DEF Line
    <3>3. QED
      BY <3>1, <3>2, SMTT(30) DEF TypeOK, NoFence
  <2>2. starts' \in Seq(Nat)
    <3>1. starts \in Seq(Nat) /\ l.start \in Nat
      BY <1>1 DEF TypeOK, Line
    <3>2. QED
      BY <1>2, <3>1
  <2>3. line' \in 1 .. Len(document.lines) + 1
    BY <1>1
  <2>4. QED
    BY <1>1, <2>1, <2>2, <2>3 DEF TypeOK
<1>4. l.start < l.end /\ l.end <= document.length
  BY <1>1 DEF WellFormed
<1>5. \A k \in line + 1 .. Len(document.lines) : l.start < document.lines[k].start
  <2> SUFFICES ASSUME NEW k \in line + 1 .. Len(document.lines)
               PROVE  l.start < document.lines[k].start
    OBVIOUS
  <2>1. k \in DOMAIN document.lines /\ line \in 1 .. k - 1
    BY <1>1
  <2>2. l.end <= document.lines[k].start
    BY <2>1 DEF WellFormed
  <2>3. document.lines[k].start \in Nat /\ l.start \in Nat /\ l.end \in Nat
    <3>1. document.lines[k] \in Line
      BY <1>1, <2>1, ElementOfSeq
    <3>2. QED
      BY <1>1, <3>1, LineFields, Zenon
  <2>4. l.start < l.end
    BY <1>4
  <2> HIDE DEF l
  <2>5. QED
    BY <2>2, <2>3, <2>4
<1>6. Increasing(starts, document.length) /\ starts \in Seq(Nat)
  BY <1>1 DEF ScanInv, TypeOK
<1>7. \A n \in DOMAIN starts : n > 1 =>
        \A k \in line .. Len(document.lines) : starts[n] < document.lines[k].start
  BY <1>1 DEF ScanInv
<1>8. CASE starts' = starts
  BY <1>1, <1>3, <1>6, <1>7, <1>8
     DEF ScanInv, SectionInv, MergeInv, ChunkInv, WellFormed, Valid, ValidWindow
<1>9. CASE l.start > 0 /\ starts' = Append(starts, l.start)
  <2>1. l.start \in Nat /\ document.length > 0 /\ l.start < document.length
    BY <1>1, <1>4, <1>9, SMTT(30) DEF Line
  <2>2. starts # <<>> /\ starts[1] = 0
    BY <1>6, <2>1 DEF Increasing
  <2>3. \A n \in DOMAIN starts : starts[n] < l.start
    <3>1. \A n \in DOMAIN starts : n > 1 => starts[n] < l.start
      BY <1>1, <1>7
    <3>2. QED
      BY <2>1, <2>2, <3>1, <1>9, <1>6
  <2>4. Increasing(starts', document.length)
    <3>1. Increasing(Append(starts, l.start), document.length)
      <4> HIDE DEF l
      <4>1. document.length \in Nat
        BY <1>1
      <4>2. QED
        BY <1>6, <2>1, <2>2, <2>3, <4>1, AppendIncreasing
    <3>2. QED
      BY <1>9, <3>1
  <2>5. \A n \in DOMAIN starts' : n > 1 =>
          \A k \in line' .. Len(document.lines) : starts'[n] < document.lines[k].start
    <3> SUFFICES ASSUME NEW n \in DOMAIN starts', n > 1,
                        NEW k \in line + 1 .. Len(document.lines)
                 PROVE  starts'[n] < document.lines[k].start
      BY <1>1
    <3>1. CASE n \in DOMAIN starts
      BY <3>1, <1>1, <1>6, <1>7, <1>9, <2>1, SMTT(30)
    <3>2. CASE n = Len(starts) + 1
      BY <3>2, <1>5, <1>6, <1>9, <2>1
    <3>3. QED
      BY <3>1, <3>2, <1>6, <1>9, <2>1
  <2>6. QED
    BY <1>1, <1>3, <2>4, <2>5
       DEF ScanInv, SectionInv, MergeInv, ChunkInv, WellFormed, Valid, ValidWindow
<1>10. QED
  BY <1>2, <1>8, <1>9

\* Increasing starts cut the document into sections that tile it.
LEMMA StartsTile ==
  ASSUME NEW s \in Seq(Nat), document.length \in Nat, Increasing(s, document.length)
  PROVE  SectionsFrom(s) \in Seq(Span) /\ Tiles(SectionsFrom(s), document.length)
<1> DEFINE S == SectionsFrom(s)
<1>1. /\ Len(S) = Len(s) /\ DOMAIN S = DOMAIN s /\ S \in Seq(Span)
      /\ \A n \in DOMAIN s : S[n].start = s[n]
      /\ \A n \in DOMAIN s : S[n].end = IF n < Len(s) THEN s[n + 1] ELSE document.length
  <2> DEFINE cut(n) == IF n < Len(s) THEN s[n + 1] ELSE document.length
             span(n) == [start |-> s[n], end |-> cut(n)]
  <2>1. S = [n \in 1 .. Len(s) |-> span(n)] /\ Len(s) \in Nat /\ DOMAIN s = 1 .. Len(s)
    BY DEF SectionsFrom
  <2>2. \A n \in 1 .. Len(s) : s[n] \in Nat /\ cut(n) \in Nat
    OBVIOUS
  <2>3. \A n \in 1 .. Len(s) : span(n).start = s[n] /\ span(n).end = cut(n)
    OBVIOUS
  <2> HIDE DEF cut
  <2>4. \A n \in 1 .. Len(s) : span(n) \in Span
    BY <2>2, SpanFields, Zenon
  <2> HIDE DEF S, span
  <2>5. S \in Seq(Span)
    BY <2>1, <2>4
  <2>6. DOMAIN S = 1 .. Len(s) /\ \A n \in 1 .. Len(s) : S[n] = span(n)
    BY <2>1, Zenon
  <2>7. Len(S) = Len(s)
    BY <2>1
  <2>8. QED
    BY <2>1, <2>3, <2>5, <2>6, <2>7 DEF cut
<1>2. Ordered(S, document.length)
  <2> SUFFICES ASSUME NEW n \in DOMAIN s
               PROVE  /\ S[n].start < S[n].end /\ S[n].end <= document.length
                      /\ \A m \in 1 .. n - 1 : S[m].end <= S[n].start
    BY <1>1 DEF Ordered
  <2>1. S[n].start < S[n].end /\ S[n].end <= document.length
    <3>1. CASE n < Len(s)
      <4>1. n + 1 \in DOMAIN s /\ n \in 1 .. (n + 1) - 1
        BY <3>1
      <4>2. s[n] < s[n + 1] /\ s[n + 1] < document.length
        BY <4>1 DEF Increasing
      <4>3. QED
        BY <1>1, <3>1, <4>1, <4>2
    <3>2. CASE n = Len(s)
      BY <1>1, <3>2 DEF Increasing
    <3>3. QED
      BY <3>1, <3>2
  <2>2. ASSUME NEW m \in 1 .. n - 1 PROVE S[m].end <= S[n].start
    <3>1. m \in DOMAIN s /\ m < Len(s) /\ m + 1 \in DOMAIN s
      OBVIOUS
    <3>2. s[m + 1] <= s[n]
      <4>1. CASE m + 1 = n
        BY <4>1
      <4>2. CASE m + 1 \in 1 .. n - 1
        BY <4>2 DEF Increasing
      <4>3. QED
        BY <4>1, <4>2
    <3>3. QED
      BY <1>1, <3>1, <3>2
  <2>3. QED
    BY <2>1, <2>2
<1>3. S = <<>> <=> document.length = 0
  BY <1>1 DEF Increasing
<1>4. QED
  <2> HIDE DEF S
  <2>1. S # <<>> => S[1].start = 0 /\ S[Len(S)].end = document.length
    BY <1>1, <1>3 DEF Increasing
  <2>2. \A n \in 1 .. Len(S) - 1 : S[n].end = S[n + 1].start
    BY <1>1, SMTT(30)
  <2>3. S \in Seq(Span) /\ Tiles(S, document.length)
    BY <1>1, <1>2, <1>3, <2>1, <2>2 DEF Tiles
  <2>4. QED
    BY <2>3 DEF S

\* What a tiling says of one of its spans.
LEMMA TileFacts ==
  ASSUME NEW S \in Seq(Span), NEW length \in Nat, Tiles(S, length), NEW n \in DOMAIN S
  PROVE  /\ S[n].start \in Nat /\ S[n].end \in Nat
         /\ S[n].start < S[n].end /\ S[n].end <= length
         /\ n = 1 => S[n].start = 0
         /\ n < Len(S) => n + 1 \in DOMAIN S /\ S[n].end = S[n + 1].start
         /\ n = Len(S) => S[n].end = length
         /\ \A m \in 1 .. n - 1 : S[m].end <= S[n].start
<1>1. S[n] \in Span
  BY ElementOfSeq
<1>2. S[n].start \in Nat /\ S[n].end \in Nat
  BY <1>1, SpanFields, Zenon
<1>3. S # <<>> /\ Len(S) \in Nat /\ n \in 1 .. Len(S)
  OBVIOUS
<1>4. /\ S[n].start < S[n].end /\ S[n].end <= length
      /\ \A m \in 1 .. n - 1 : S[m].end <= S[n].start
  BY DEF Tiles, Ordered
<1>5. S[1].start = 0 /\ S[Len(S)].end = length
  BY <1>3 DEF Tiles
<1>6. n < Len(S) => n + 1 \in DOMAIN S /\ S[n].end = S[n + 1].start
  BY <1>3 DEF Tiles
<1>7. QED
  BY <1>2, <1>4, <1>5, <1>6

\* A span that starts where a tiling ends extends it.
LEMMA AppendTiles ==
  ASSUME NEW S \in Seq(Span), NEW at \in Nat, NEW end \in Nat, Tiles(S, at), at < end
  PROVE  LET T == Append(S, [start |-> at, end |-> end]) IN
         T \in Seq(Span) /\ Tiles(T, end)
<1> DEFINE span == [start |-> at, end |-> end]
           T == Append(S, span)
<1>1. span \in Span /\ span.start = at /\ span.end = end
  BY SpanFields
<1> HIDE DEF span
<1>2. /\ T \in Seq(Span) /\ Len(T) = Len(S) + 1 /\ Len(S) \in Nat
      /\ DOMAIN S = 1 .. Len(S) /\ DOMAIN T = 1 .. Len(S) + 1
      /\ \A n \in DOMAIN S : T[n] = S[n]
      /\ T[Len(S) + 1] = span /\ T # <<>>
  BY <1>1
<1> HIDE DEF T
<1>3. \A n \in DOMAIN S :
        /\ S[n].start \in Nat /\ S[n].end \in Nat
        /\ S[n].start < S[n].end /\ S[n].end <= at
        /\ n = 1 => S[n].start = 0
        /\ n < Len(S) => n + 1 \in DOMAIN S /\ S[n].end = S[n + 1].start
        /\ n = Len(S) => S[n].end = at
        /\ \A m \in 1 .. n - 1 : S[m].end <= S[n].start
  BY TileFacts
<1>4. Ordered(T, end)
  <2> SUFFICES ASSUME NEW n \in DOMAIN T
               PROVE  /\ T[n].start < T[n].end /\ T[n].end <= end
                      /\ \A m \in 1 .. n - 1 : T[m].end <= T[n].start
    BY DEF Ordered
  <2>1. CASE n \in DOMAIN S
    <3>1. T[n] = S[n] /\ \A m \in 1 .. n - 1 : T[m] = S[m]
      BY <1>2, <2>1
    <3>2. S[n].end <= end
      BY <1>3, <2>1
    <3>3. S[n].start < S[n].end /\ \A m \in 1 .. n - 1 : S[m].end <= S[n].start
      BY <1>3, <2>1
    <3>4. QED
      BY <3>1, <3>2, <3>3
  <2>2. CASE n = Len(S) + 1
    BY <1>1, <1>2, <1>3, <2>2, SMTT(30)
  <2>3. QED
    BY <1>2, <2>1, <2>2
<1>5. T[1].start = 0
  <2>1. CASE S = <<>>
    BY <1>1, <1>2, <2>1 DEF Tiles
  <2>2. CASE S # <<>>
    BY <1>2, <2>2 DEF Tiles
  <2>3. QED
    BY <2>1, <2>2
<1>6. \A n \in 1 .. Len(T) - 1 : T[n].end = T[n + 1].start
  <2> SUFFICES ASSUME NEW n \in DOMAIN S PROVE T[n].end = T[n + 1].start
    BY <1>2
  <2>1. T[n] = S[n]
    BY <1>2
  <2>2. CASE n < Len(S)
    <3>1. n + 1 \in DOMAIN S /\ S[n].end = S[n + 1].start
      BY <1>3, <2>2
    <3>2. T[n + 1] = S[n + 1]
      BY <1>2, <3>1
    <3>3. QED
      BY <2>1, <3>1, <3>2
  <2>3. CASE n = Len(S)
    BY <1>1, <1>2, <1>3, <2>1, <2>3
  <2>4. QED
    BY <1>2, <2>2, <2>3
<1>7. Tiles(T, end)
  BY <1>1, <1>2, <1>4, <1>5, <1>6 DEF Tiles
<1>8. QED
  BY <1>2, <1>7 DEF T, span

\* A tiling whose last span is made longer is a tiling of the longer text.
LEMMA ExtendTiles ==
  ASSUME NEW S \in Seq(Span), NEW at \in Nat, NEW end \in Nat, Tiles(S, at), at < end,
         S # <<>>
  PROVE  LET T == [S EXCEPT ![Len(S)].end = end] IN
         T \in Seq(Span) /\ Tiles(T, end)
<1> DEFINE T == [S EXCEPT ![Len(S)].end = end]
<1>1. Len(S) \in DOMAIN S /\ Len(S) \in Nat /\ DOMAIN S = 1 .. Len(S)
  OBVIOUS
<1>2. \A n \in DOMAIN S :
        /\ S[n].start \in Nat /\ S[n].end \in Nat
        /\ S[n].start < S[n].end /\ S[n].end <= at
        /\ n = 1 => S[n].start = 0
        /\ n < Len(S) => n + 1 \in DOMAIN S /\ S[n].end = S[n + 1].start
        /\ n = Len(S) => S[n].end = at
        /\ \A m \in 1 .. n - 1 : S[m].end <= S[n].start
  BY TileFacts
<1>3. /\ DOMAIN T = DOMAIN S /\ T # <<>>
      /\ \A n \in 1 .. Len(S) - 1 : T[n] = S[n]
      /\ T[Len(S)] = [S[Len(S)] EXCEPT !.end = end]
  BY <1>1
<1>4. T[Len(S)] \in Span /\ T[Len(S)].start = S[Len(S)].start /\ T[Len(S)].end = end
  <2>1. S[Len(S)] \in Span
    BY <1>1, ElementOfSeq
  <2>2. QED
    BY <1>3, <2>1 DEF Span
<1>5. T \in Seq(Span) /\ Len(T) = Len(S) /\ \A n \in DOMAIN S : T[n].start = S[n].start
  <2>1. \A n \in DOMAIN S : T[n] \in Span
    BY <1>1, <1>3, <1>4, ElementOfSeq
  <2>2. T = [n \in 1 .. Len(S) |-> T[n]]
    BY <1>1
  <2>3. \A n \in DOMAIN S : T[n].start = S[n].start
    <3> SUFFICES ASSUME NEW n \in DOMAIN S PROVE T[n].start = S[n].start
      OBVIOUS
    <3>1. CASE n \in 1 .. Len(S) - 1
      BY <1>3, <3>1
    <3>2. CASE n = Len(S)
      BY <1>4, <3>2
    <3>3. QED
      BY <1>1, <3>1, <3>2
  <2> HIDE DEF T
  <2>4. QED
    BY <1>1, <2>1, <2>2, <2>3
<1> HIDE DEF T
<1>6. Ordered(T, end)
  <2> SUFFICES ASSUME NEW n \in DOMAIN S
               PROVE  /\ T[n].start < T[n].end /\ T[n].end <= end
                      /\ \A m \in 1 .. n - 1 : T[m].end <= T[n].start
    BY <1>3 DEF Ordered
  <2>1. T[n].start = S[n].start
    BY <1>5
  <2>2. \A m \in 1 .. n - 1 : T[m].end = S[m].end
    BY <1>1, <1>3
  <2>3. n < Len(S) => T[n].end = S[n].end
    BY <1>1, <1>3
  <2>4. QED
    BY <1>1, <1>2, <1>4, <2>1, <2>2, <2>3
<1>7. T[1].start = 0
  <2>1. 1 \in DOMAIN S
    BY <1>1
  <2>2. S[1].start = 0
    BY <1>2, <2>1
  <2>3. QED
    BY <1>5, <2>1, <2>2
<1>8. \A n \in 1 .. Len(T) - 1 : T[n].end = T[n + 1].start
  <2> SUFFICES ASSUME NEW n \in 1 .. Len(S) - 1 PROVE T[n].end = T[n + 1].start
    BY <1>5
  <2>1. n \in DOMAIN S /\ n + 1 \in DOMAIN S /\ n < Len(S) /\ T[n] = S[n]
    BY <1>1, <1>3
  <2>2. T[n + 1].start = S[n + 1].start /\ S[n].end = S[n + 1].start
    BY <1>2, <1>5, <2>1
  <2>3. QED
    BY <2>1, <2>2
<1>9. Tiles(T, end)
  <2>1. T[Len(T)].end = end /\ end # 0
    BY <1>4, <1>5
  <2>2. QED
    BY <1>3, <1>6, <1>7, <1>8, <2>1 DEF Tiles
<1>10. QED
  BY <1>5, <1>9 DEF T

LEMMA EndScanPreserves == IInv /\ EndScan => IInv'
<1> SUFFICES ASSUME IInv, EndScan PROVE IInv'
  OBVIOUS
<1> USE DEF IInv
<1>1. /\ phase = "scan" /\ phase' \in {"merge", "split"}
      /\ phase' = "merge" => Len(starts) > 1
      /\ sections' = SectionsFrom(starts)
      /\ UNCHANGED <<document, chunker, line, fence, starts, next, pending, merged,
                     runeStart, chunks>>
  BY DEF EndScan
<1>2. next = 1 /\ pending = NoPending /\ merged = <<>> /\ runeStart = 0 /\ chunks = <<>>
  BY <1>1 DEF ScanInv
<1>3. sections' \in Seq(Span) /\ Tiles(sections', document.length)
  <2>1. starts \in Seq(Nat) /\ document.length \in Nat
    BY DEF TypeOK, Document
  <2>2. Increasing(starts, document.length)
    BY <1>1 DEF ScanInv
  <2>3. QED
    BY <1>1, <2>1, <2>2, StartsTile
<1>4. TypeOK'
  BY <1>1, <1>2, <1>3 DEF TypeOK
<1>5. Len(sections') = Len(starts)
  BY <1>1 DEF SectionsFrom, TypeOK
<1>6. ScanInv' /\ WellFormed(document)'
  BY <1>1, <1>2 DEF ScanInv, WellFormed
<1>7. SectionInv'
  BY <1>1, <1>3, <1>5 DEF SectionInv, Valid, ValidWindow
<1>8. MergeInv'
  <2> SUFFICES ASSUME phase' = "merge"
               PROVE  (pending = NoPending) /\ Tiles(merged', Consumed')
    BY <1>1, <1>2 DEF MergeInv
  <2>1. sections' # <<>> /\ 1 \in DOMAIN sections'
    BY <1>1, <1>3, <1>5
  <2>2. Consumed' = 0
    BY <1>1, <1>2, <1>3, <1>5, <2>1 DEF Consumed, Tiles
  <2>3. QED
    BY <1>1, <1>2, <2>2 DEF Tiles, Ordered
<1>9. ChunkInv'
  BY <1>1, <1>2 DEF ChunkInv, InOrder, AtWindow
<1>10. QED
  BY <1>4, <1>6, <1>7, <1>8, <1>9

\* While it merges, the sections tile the document and the next one is among them.
LEMMA MergeFacts ==
  ASSUME IInv, phase = "merge", next <= Len(sections)
  PROVE  /\ sections[next].start \in Nat /\ sections[next].end \in Nat
         /\ sections[next].start < sections[next].end
         /\ Consumed = sections[next].start
         /\ next < Len(sections) =>
              next + 1 <= Len(sections) /\ sections[next].end = sections[next + 1].start
         /\ next = Len(sections) => sections[next].end = document.length
<1>1. /\ sections \in Seq(Span) /\ document.length \in Nat /\ Tiles(sections, document.length)
      /\ next \in DOMAIN sections
  BY DEF IInv, TypeOK, SectionInv, Document
<1>2. QED
  BY <1>1, TileFacts DEF Consumed

LEMMA HoldSectionPreserves == IInv /\ HoldSection => IInv'
<1> SUFFICES ASSUME IInv, HoldSection PROVE IInv'
  OBVIOUS
<1>1. /\ phase = "merge" /\ phase' = "merge" /\ next < Len(sections) /\ next' = next + 1
      /\ pending' = IF pending = NoPending THEN sections[next].start ELSE pending
      /\ UNCHANGED <<document, chunker, line, fence, starts, sections, merged, runeStart, chunks>>
  BY DEF HoldSection
<1>2. /\ sections[next].start \in Nat /\ sections[next].end \in Nat
      /\ sections[next].start < sections[next].end /\ Consumed = sections[next].start
      /\ sections[next].end = sections[next + 1].start
  BY <1>1, MergeFacts DEF IInv, TypeOK
<1>3. /\ TypeOK
      /\ pending # NoPending => pending < Consumed
      /\ Tiles(merged, IF pending = NoPending THEN Consumed ELSE pending)
  BY <1>1 DEF IInv, MergeInv
<1>4. /\ next \in Nat /\ Len(sections) \in Nat /\ next' \in 1 .. Len(sections) + 1
      /\ next' <= Len(sections)
      /\ pending' \in Nat /\ pending' # NoPending /\ pending \in Nat \cup {NoPending}
  <2>1. /\ next \in 1 .. Len(sections) + 1 /\ sections \in Seq(Span)
        /\ pending \in Nat \cup {NoPending}
    BY <1>3 DEF TypeOK
  <2>2. Len(sections) \in Nat
    BY <2>1
  <2>3. pending' \in Nat
    BY <1>1, <1>2, <2>1
  <2>4. pending' # NoPending
    BY <2>3 DEF NoPending
  <2>5. next \in Nat /\ next' \in 1 .. Len(sections) + 1 /\ next' <= Len(sections)
    BY <1>1, <2>1, <2>2
  <2>6. QED
    BY <2>1, <2>2, <2>3, <2>4, <2>5
<1>5. TypeOK'
  <2>1. next' \in 1 .. Len(sections') + 1 /\ pending' \in Nat \cup {NoPending}
    BY <1>1, <1>4
  <2>2. QED
    BY <1>1, <1>3, <2>1 DEF TypeOK
<1>6. MergeInv'
  <2>1. Consumed' = sections[next].end
    BY <1>1, <1>2, <1>4 DEF Consumed
  <2>2. pending' < Consumed'
    BY <1>1, <1>2, <1>3, <1>4, <2>1
  <2>3. Tiles(merged', pending')
    BY <1>1, <1>2, <1>3
  <2>4. QED
    BY <1>1, <1>4, <2>2, <2>3 DEF MergeInv
<1>7. ScanInv' /\ SectionInv' /\ ChunkInv' /\ WellFormed(document)'
  BY <1>1 DEF IInv, ScanInv, SectionInv, ChunkInv, WellFormed, Valid, ValidWindow
<1>8. QED
  BY <1>5, <1>6, <1>7 DEF IInv

LEMMA MergeSectionPreserves == IInv /\ MergeSection => IInv'
<1> SUFFICES ASSUME IInv, MergeSection PROVE IInv'
  OBVIOUS
<1> DEFINE current == sections[next]
           from == IF pending = NoPending THEN current.start ELSE pending
<1>1. /\ phase = "merge" /\ phase' = "merge" /\ next <= Len(sections) /\ next' = next + 1
      /\ pending' = NoPending
      /\ \/ merged # <<>> /\ merged' = [merged EXCEPT ![Len(merged)].end = current.end]
         \/ merged' = Append(merged, [start |-> from, end |-> current.end])
      /\ UNCHANGED <<document, chunker, line, fence, starts, sections, runeStart, chunks>>
  BY DEF MergeSection, GoesBack
<1>2. /\ current.start \in Nat /\ current.end \in Nat
      /\ current.start < current.end /\ Consumed = current.start
      /\ next < Len(sections) => current.end = sections[next + 1].start
      /\ next = Len(sections) => current.end = document.length
  BY <1>1, MergeFacts
<1>3. /\ TypeOK
      /\ pending # NoPending => pending < Consumed
      /\ Tiles(merged, IF pending = NoPending THEN Consumed ELSE pending)
  BY <1>1 DEF IInv, MergeInv
<1>4. from \in Nat /\ from < current.end /\ Tiles(merged, from) /\ merged \in Seq(Span)
  <2>1. pending \in Nat \cup {NoPending} /\ merged \in Seq(Span)
    BY <1>3 DEF TypeOK
  <2> HIDE DEF current
  <2>2. QED
    BY <1>2, <1>3, <2>1
<1>5. merged' \in Seq(Span) /\ Tiles(merged', current.end)
  <2> HIDE DEF current, from
  <2>1. CASE merged # <<>> /\ merged' = [merged EXCEPT ![Len(merged)].end = current.end]
    BY <1>2, <1>4, <2>1, ExtendTiles, Zenon
  <2>2. CASE merged' = Append(merged, [start |-> from, end |-> current.end])
    BY <1>2, <1>4, <2>2, AppendTiles, Zenon
  <2>3. QED
    BY <1>1, <2>1, <2>2
<1>6. next \in Nat /\ Len(sections) \in Nat /\ next' \in 1 .. Len(sections) + 1
  <2>1. next \in 1 .. Len(sections) + 1 /\ sections \in Seq(Span)
    BY <1>3 DEF TypeOK
  <2>2. QED
    BY <1>1, <2>1
<1>7. TypeOK'
  <2>1. next' \in 1 .. Len(sections') + 1 /\ pending' \in Nat \cup {NoPending}
    BY <1>1, <1>6
  <2>2. QED
    BY <1>1, <1>3, <1>5, <2>1 DEF TypeOK
<1>8. Consumed' = current.end
  BY <1>1, <1>2, <1>6 DEF Consumed
<1>9. MergeInv'
  BY <1>1, <1>5, <1>8 DEF MergeInv
<1>10. ScanInv' /\ SectionInv' /\ ChunkInv' /\ WellFormed(document)'
  BY <1>1 DEF IInv, ScanInv, SectionInv, ChunkInv, WellFormed, Valid, ValidWindow
<1>11. QED
  BY <1>7, <1>9, <1>10 DEF IInv

LEMMA EndMergePreserves == IInv /\ EndMerge => IInv'
<1> SUFFICES ASSUME IInv, EndMerge PROVE IInv'
  OBVIOUS
<1>1. /\ phase = "merge" /\ phase' = "split" /\ next > Len(sections)
      /\ sections' = merged /\ next' = 1
      /\ UNCHANGED <<document, chunker, line, fence, starts, pending, merged, runeStart, chunks>>
  BY DEF EndMerge
<1>2. /\ TypeOK /\ runeStart = 0 /\ chunks = <<>>
  BY <1>1 DEF IInv, ScanInv
<1>3. Len(sections) \in Nat /\ next \in Nat
  BY <1>2 DEF TypeOK
<1>4. Tiles(merged, document.length)
  BY <1>1, <1>3 DEF IInv, MergeInv, Consumed
<1>5. TypeOK'
  BY <1>1, <1>2 DEF TypeOK
<1>6. QED
  BY <1>1, <1>2, <1>4, <1>5 DEF IInv, ScanInv, SectionInv, MergeInv, ChunkInv, InOrder,
     AtWindow, WellFormed, Valid, ValidWindow

-----------------------------------------------------------------------------
(* The chunks.                                                             *)

\* A chunk that starts where AtWindow says and advances keeps the chunks in order,
\* and AtWindow says where the next one starts.
LEMMA ChunkAdvances ==
  ASSUME IInv, phase = "split", next <= Len(sections), NEW end \in Nat,
         sections[next].start + runeStart < end, end <= sections[next].end,
         end - (sections[next].start + runeStart) <= chunker.max,
         end = sections[next].end
           \/ end > sections[next].start + runeStart + chunker.overlap
  PROVE  LET from == sections[next].start + runeStart
             new == Append(chunks, [start |-> from, end |-> end]) IN
         /\ new \in Seq(Span) /\ InOrder(new)
         /\ end = sections[next].end => AtWindow(new, next + 1, 0)
         /\ end # sections[next].end =>
              /\ end - sections[next].start - chunker.overlap \in Nat \ {0}
              /\ AtWindow(new, next, end - sections[next].start - chunker.overlap)
<1> DEFINE section == sections[next]
           from == section.start + runeStart
           chunk == [start |-> from, end |-> end]
           new == Append(chunks, chunk)
           size == Len(chunks)
           prior == chunks[size]
<1>1. /\ sections \in Seq(Span) /\ chunks \in Seq(Span) /\ runeStart \in Nat
      /\ next \in DOMAIN sections /\ document.length \in Nat
      /\ Tiles(sections, document.length)
  BY DEF IInv, TypeOK, SectionInv, Document
<1>2. chunker.overlap \in Nat /\ chunker.max \in Int
  BY DEF IInv, TypeOK, Chunker, SectionInv, Valid, ValidWindow
<1>3. \A n \in DOMAIN sections :
        /\ sections[n].start \in Nat /\ sections[n].end \in Nat
        /\ sections[n].start < sections[n].end
        /\ n = 1 => sections[n].start = 0
        /\ n < Len(sections) => sections[n].end = sections[n + 1].start
        /\ \A m \in 1 .. n - 1 : sections[m].end <= sections[n].start
  BY <1>1, TileFacts
<1>4. /\ from \in Nat /\ chunk \in Span /\ chunk.start = from /\ chunk.end = end
      /\ section.start \in Nat /\ section.end \in Nat
  BY <1>1, <1>3, SpanFields
<1>5. /\ size \in Nat /\ new \in Seq(Span) /\ Len(new) = size + 1
      /\ DOMAIN new = 1 .. size + 1 /\ DOMAIN chunks = 1 .. size
      /\ \A n \in DOMAIN chunks : new[n] = chunks[n]
      /\ new[size + 1] = chunk /\ new # <<>> /\ (chunks = <<>> <=> size = 0)
  <2>1. chunk \in Span /\ chunks \in Seq(Span)
    BY <1>1, <1>4
  <2> HIDE DEF chunk
  <2>2. size \in Nat /\ DOMAIN chunks = 1 .. size /\ (chunks = <<>> <=> size = 0)
    BY <2>1
  <2>3. new \in Seq(Span) /\ Len(new) = size + 1 /\ DOMAIN new = 1 .. size + 1
    BY <2>1
  <2>4. new[size + 1] = chunk /\ \A n \in DOMAIN chunks : new[n] = chunks[n]
    BY <2>1
  <2>5. new # <<>>
    BY <2>2, <2>3
  <2>6. QED
    BY <2>2, <2>3, <2>4, <2>5
<1>6. InOrder(chunks) /\ AtWindow(chunks, next, runeStart)
  BY DEF IInv, ChunkInv
<1>7. chunks = <<>> => from = 0
  BY <1>1, <1>3, <1>6 DEF AtWindow
<1>8. ASSUME chunks # <<>>
      PROVE  /\ prior.start < from /\ prior.end < end
             /\ from = prior.end -
                  IF \E s \in DOMAIN sections : sections[s].end = prior.end
                  THEN 0 ELSE chunker.overlap
  <2>1. prior \in Span /\ prior.start \in Nat /\ prior.end \in Nat /\ prior.start < prior.end
    <3>1. prior \in Span
      BY <1>1, <1>5, <1>8, ElementOfSeq
    <3>2. prior.start < prior.end
      BY <1>5, <1>6, <1>8 DEF InOrder
    <3>3. QED
      BY <3>1, <3>2, SpanFields, Zenon
  <2>2. CASE next > 1 /\ runeStart = 0 /\ prior.end = sections[next - 1].end
    <3>1. next - 1 \in DOMAIN sections /\ next - 1 < Len(sections)
      BY <1>1, <2>2
    <3>2. sections[next - 1].end = sections[(next - 1) + 1].start /\ (next - 1) + 1 = next
      BY <1>1, <1>3, <3>1
    <3>3. prior.end = section.start /\ from = section.start
      BY <1>4, <2>2, <3>2
    <3>4. \E s \in DOMAIN sections : sections[s].end = prior.end
      BY <2>2, <3>1
    <3>5. from < end
      BY DEF section
    <3> HIDE DEF section, prior, from
    <3>6. QED
      BY <1>4, <2>1, <3>3, <3>4, <3>5
  <2>3. CASE /\ runeStart > 0 /\ prior.end = section.start + runeStart + chunker.overlap
             /\ prior.end < section.end /\ prior.start < section.start + runeStart
    <3>1. ASSUME NEW s \in DOMAIN sections PROVE sections[s].end # prior.end
      <4>1. CASE s < next
        <5>1. s \in 1 .. next - 1
          BY <1>1, <4>1
        <5>2. sections[s].end <= section.start
          BY <1>1, <1>3, <5>1
        <5> HIDE DEF section, prior
        <5>3. QED
          BY <1>1, <1>2, <1>3, <1>4, <2>1, <2>3, <5>2, SMTT(30)
      <4>2. CASE s = next
        BY <1>4, <2>1, <2>3, <4>2
      <4>3. CASE s > next
        <5>1. next \in 1 .. s - 1
          BY <1>1, <4>3
        <5>2. section.end <= sections[s].start /\ sections[s].start < sections[s].end
          BY <1>3, <5>1
        <5>3. sections[s].start \in Nat /\ sections[s].end \in Nat
          BY <1>3
        <5> HIDE DEF section, prior
        <5>4. QED
          BY <1>4, <2>1, <2>3, <5>2, <5>3
      <4>4. QED
        BY <1>1, <4>1, <4>2, <4>3
    <3> HIDE DEF section, prior
    <3>2. from = prior.end - chunker.overlap
      BY <1>1, <1>2, <1>4, <2>1, <2>3, SMTT(30)
    <3>3. prior.end < end
      BY <1>1, <1>2, <1>4, <2>1, <2>3 DEF section
    <3>4. QED
      BY <2>3, <3>1, <3>2, <3>3
  <2>4. QED
    BY <1>6, <1>8, <2>2, <2>3 DEF AtWindow, LastChunk
<1>9. InOrder(new)
  <2> HIDE DEF new, chunk, from
  <2>1. new[1].start = 0
    BY <1>4, <1>5, <1>6, <1>7 DEF InOrder
  <2>2. ASSUME NEW n \in DOMAIN new
        PROVE  new[n].start < new[n].end /\ new[n].end - new[n].start <= chunker.max
    <3>1. CASE n \in DOMAIN chunks
      BY <1>5, <1>6, <3>1 DEF InOrder
    <3>2. CASE n = size + 1
      BY <1>4, <1>5, <3>2 DEF from
    <3>3. QED
      BY <1>5, <3>1, <3>2
  <2>3. ASSUME NEW n \in DOMAIN new, n > 1
        PROVE  /\ new[n - 1].start < new[n].start /\ new[n - 1].end < new[n].end
               /\ new[n].start = new[n - 1].end -
                    IF \E s \in DOMAIN sections : sections[s].end = new[n - 1].end
                    THEN 0 ELSE chunker.overlap
    <3>1. n - 1 \in DOMAIN chunks /\ new[n - 1] = chunks[n - 1]
      BY <1>5, <2>3
    <3>2. CASE n \in DOMAIN chunks
      BY <1>5, <1>6, <2>3, <3>1, <3>2 DEF InOrder
    <3>3. CASE n = size + 1
      <4>1. new[n] = chunk /\ new[n - 1] = prior /\ chunks # <<>>
        BY <1>5, <3>1, <3>3
      <4>2. QED
        BY <1>4, <1>8, <4>1
    <3>4. QED
      BY <1>5, <3>2, <3>3
  <2>4. QED
    BY <2>1, <2>2, <2>3 DEF InOrder
<1>10. LastChunk(new) = chunk
  BY <1>5 DEF LastChunk
<1>11. end = section.end => AtWindow(new, next + 1, 0)
  <2>1. next \in Nat /\ next >= 1 /\ (next + 1) - 1 = next
    BY <1>1
  <2> HIDE DEF new, chunk
  <2>2. QED
    BY <1>4, <1>5, <1>10, <2>1 DEF AtWindow
<1>12. end # section.end =>
         /\ end - section.start - chunker.overlap \in Nat \ {0}
         /\ AtWindow(new, next, end - section.start - chunker.overlap)
  <2> HIDE DEF new, chunk, section
  <2> SUFFICES ASSUME end # section.end
               PROVE  /\ end - section.start - chunker.overlap \in Nat \ {0}
                      /\ AtWindow(new, next, end - section.start - chunker.overlap)
    OBVIOUS
  <2>1. /\ end < section.end /\ end > from + chunker.overlap
        /\ from = section.start + runeStart
        /\ section.start \in Nat /\ runeStart \in Nat /\ chunker.overlap \in Nat
    BY <1>1, <1>2, <1>4 DEF section
  <2> HIDE DEF from
  <2>2. end - section.start - chunker.overlap \in Nat \ {0}
    BY <2>1, SMTT(30)
  <2>3. /\ end = section.start + (end - section.start - chunker.overlap) + chunker.overlap
        /\ from < section.start + (end - section.start - chunker.overlap)
        /\ end - section.start - chunker.overlap > 0
    BY <2>1, <2>2, SMTT(30)
  <2>4. AtWindow(new, next, end - section.start - chunker.overlap)
    BY <1>4, <1>5, <1>10, <2>1, <2>3 DEF AtWindow, section
  <2>5. QED
    BY <2>2, <2>4
<1>13. QED
  BY <1>5, <1>9, <1>11, <1>12

\* While it splits, the next window starts within its section.
LEMMA SplitFacts ==
  ASSUME IInv, phase = "split", next <= Len(sections)
  PROVE  /\ sections[next].start \in Nat /\ sections[next].end \in Nat
         /\ sections[next].start < sections[next].end
         /\ runeStart \in Nat /\ chunker.overlap \in Nat /\ chunker.max \in Nat
         /\ sections[next].start + runeStart < sections[next].end
         /\ Fits => runeStart = 0
         /\ next \in Nat /\ next + 1 \in 1 .. Len(sections) + 1
<1>1. /\ sections \in Seq(Span) /\ document.length \in Nat /\ runeStart \in Nat
      /\ chunks \in Seq(Span) /\ next \in DOMAIN sections
      /\ Tiles(sections, document.length)
  BY DEF IInv, TypeOK, SectionInv, Document
<1>2. chunker.overlap \in Nat /\ chunker.max \in Nat
  BY DEF IInv, TypeOK, Chunker, SectionInv, Valid, ValidWindow
<1>3. /\ sections[next].start \in Nat /\ sections[next].end \in Nat
      /\ sections[next].start < sections[next].end
  BY <1>1, TileFacts
<1>4. AtWindow(chunks, next, runeStart) /\ (runeStart > 0 => ~Fits)
  BY DEF IInv, ChunkInv
<1>5. sections[next].start + runeStart < sections[next].end
  <2>1. CASE runeStart = 0
    BY <1>3, <2>1
  <2>2. CASE LastChunk(chunks).end = sections[next].start + runeStart + chunker.overlap
             /\ LastChunk(chunks).end < sections[next].end
    BY <1>1, <1>2, <1>3, <2>2
  <2>3. QED
    BY <1>4, <2>1, <2>2 DEF AtWindow
<1>6. Fits => runeStart = 0
  BY <1>1, <1>4
<1>7. QED
  BY <1>1, <1>2, <1>3, <1>5, <1>6

LEMMA WholeSectionPreserves == IInv /\ WholeSection => IInv'
<1> SUFFICES ASSUME IInv, WholeSection PROVE IInv'
  OBVIOUS
<1> DEFINE section == sections[next]
           new == Append(chunks, [start |-> section.start + runeStart, end |-> section.end])
<1>1. /\ phase = "split" /\ phase' = "split" /\ next <= Len(sections) /\ next' = next + 1
      /\ chunks' = Append(chunks, section)
      /\ Fits /\ section.end - section.start <= chunker.max
      /\ UNCHANGED <<document, chunker, line, fence, starts, sections, pending, merged, runeStart>>
  BY DEF WholeSection, Splitting, Fits
<1>2. /\ section.start \in Nat /\ section.end \in Nat /\ section.start < section.end
      /\ runeStart = 0 /\ next + 1 \in 1 .. Len(sections) + 1
  BY <1>1, SplitFacts
<1>3. section \in Span
  BY <1>1, ElementOfSeq DEF IInv, TypeOK
<1>4. chunks' = new
  <2>1. section = [start |-> section.start + runeStart, end |-> section.end]
    BY <1>2, <1>3 DEF Span
  <2>2. QED
    BY <1>1, <2>1, Zenon
<1>5. new \in Seq(Span) /\ InOrder(new) /\ AtWindow(new, next + 1, 0)
  <2> DEFINE end == section.end
  <2>1. /\ end \in Nat /\ sections[next].start + runeStart < end /\ end <= sections[next].end
        /\ end - (sections[next].start + runeStart) <= chunker.max
        /\ end = sections[next].end
    BY <1>1, <1>2
  <2> HIDE DEF end
  <2>2. LET chunk == [start |-> sections[next].start + runeStart, end |-> end] IN
        /\ Append(chunks, chunk) \in Seq(Span) /\ InOrder(Append(chunks, chunk))
        /\ AtWindow(Append(chunks, chunk), next + 1, 0)
    BY <1>1, <2>1, ChunkAdvances
  <2>3. QED
    BY <2>2 DEF end
<1>6. TypeOK'
  BY <1>1, <1>2, <1>4, <1>5 DEF IInv, TypeOK
<1>7. ChunkInv'
  <2>1. InOrder(chunks)' /\ AtWindow(chunks, next, runeStart)'
    BY <1>1, <1>2, <1>4, <1>5, ZenonT(30) DEF InOrder, AtWindow, LastChunk
  <2>2. QED
    BY <1>1, <1>2, <2>1 DEF ChunkInv
<1>8. ScanInv' /\ SectionInv' /\ MergeInv' /\ WellFormed(document)'
  BY <1>1 DEF IInv, ScanInv, SectionInv, MergeInv, WellFormed, Valid, ValidWindow
<1>9. QED
  BY <1>6, <1>7, <1>8 DEF IInv

LEMMA WindowPreserves == IInv /\ Window => IInv'
<1> SUFFICES ASSUME IInv, Window PROVE IInv'
  OBVIOUS
<1> DEFINE section == sections[next]
           from == section.start + runeStart
           end == WindowEnd(from, section.end)
           new == Append(chunks, [start |-> from, end |-> end])
           rest == end - section.start - chunker.overlap
<1>1. /\ phase = "split" /\ phase' = "split" /\ next <= Len(sections) /\ ~Fits
      /\ chunks' = new
      /\ IF end = section.end THEN next' = next + 1 /\ runeStart' = 0
                              ELSE next' = next /\ runeStart' = rest
      /\ UNCHANGED <<document, chunker, line, fence, starts, sections, pending, merged>>
  BY DEF Window, Splitting
<1>2. /\ section.start \in Nat /\ section.end \in Nat /\ runeStart \in Nat
      /\ from \in Nat /\ from < section.end
      /\ next \in Nat /\ next + 1 \in 1 .. Len(sections) + 1
  BY <1>1, SplitFacts
<1>3. TypeOK /\ Valid
  BY <1>1 DEF IInv, SectionInv
<1>4. /\ end \in Nat /\ from < end /\ end <= section.end /\ end - from <= chunker.max
      /\ end = section.end \/ end > from + chunker.overlap
  <2> HIDE DEF section, from
  <2>1. QED
    BY <1>2, <1>3, WindowAdvances
<1>5. /\ new \in Seq(Span) /\ InOrder(new)
      /\ end = section.end => AtWindow(new, next + 1, 0)
      /\ end # section.end => rest \in Nat \ {0} /\ AtWindow(new, next, rest)
  <2> HIDE DEF end
  <2>1. QED
    BY <1>1, <1>4, ChunkAdvances
<1> HIDE DEF section, from, end, new, rest
<1>6. /\ next' \in 1 .. Len(sections) + 1 /\ runeStart' \in Nat
      /\ AtWindow(new, next', runeStart')
  <2>1. next \in 1 .. Len(sections) + 1
    BY <1>3 DEF TypeOK
  <2>2. CASE end = section.end
    BY <1>1, <1>2, <1>5, <2>2
  <2>3. CASE end # section.end
    BY <1>1, <1>5, <2>1, <2>3
  <2>4. QED
    BY <2>2, <2>3
<1>7. TypeOK'
  BY <1>1, <1>3, <1>5, <1>6 DEF TypeOK
<1>8. runeStart' > 0 => ~Fits'
  <2>1. CASE end = section.end
    BY <1>1, <2>1
  <2>2. CASE end # section.end
    BY <1>1, <2>2 DEF Fits
  <2>3. QED
    BY <2>1, <2>2
<1>9. ChunkInv'
  <2>1. InOrder(chunks)' /\ AtWindow(chunks, next, runeStart)'
    BY <1>1, <1>5, <1>6 DEF InOrder, AtWindow, LastChunk
  <2>2. QED
    BY <1>8, <2>1 DEF ChunkInv
<1>10. ScanInv' /\ SectionInv' /\ MergeInv' /\ WellFormed(document)'
  BY <1>1 DEF IInv, ScanInv, SectionInv, MergeInv, WellFormed, Valid, ValidWindow
<1>11. QED
  BY <1>7, <1>9, <1>10 DEF IInv

LEMMA CancelPreserves == IInv /\ Cancel => IInv'
<1> SUFFICES ASSUME IInv, Cancel PROVE IInv'
  OBVIOUS
<1>1. TypeOK'
  BY DEF IInv, Cancel, TypeOK
<1>2. QED
  BY <1>1 DEF IInv, Cancel, ScanInv, SectionInv, MergeInv, ChunkInv, WellFormed

LEMMA ReturnPreserves == IInv /\ Return => IInv'
<1> SUFFICES ASSUME IInv, Return PROVE IInv'
  OBVIOUS
<1>1. /\ phase = "split" /\ phase' \in {"done", "failed"} /\ next > Len(sections)
      /\ phase' = "failed" => chunks = <<>>
      /\ UNCHANGED <<document, chunker, line, fence, starts, sections, next, pending, merged,
                     runeStart, chunks>>
  BY DEF Return
<1>2. TypeOK'
  BY <1>1 DEF IInv, TypeOK
<1>3. InOrder(chunks)' /\ AtWindow(chunks, next, runeStart)' /\ (runeStart > 0 => ~Fits)'
  BY <1>1 DEF IInv, ChunkInv, InOrder, AtWindow, LastChunk, Fits
<1>4. QED
  BY <1>1, <1>2, <1>3
     DEF IInv, ScanInv, SectionInv, MergeInv, ChunkInv, WellFormed, Valid, ValidWindow

LEMMA StutterPreserves == IInv /\ UNCHANGED vars => IInv'
<1> SUFFICES ASSUME IInv, UNCHANGED vars PROVE IInv'
  OBVIOUS
<1> USE DEF vars
<1>1. TypeOK'
  BY DEF IInv, TypeOK
<1>2. ScanInv' /\ SectionInv' /\ WellFormed(document)'
  BY DEF IInv, ScanInv, SectionInv, WellFormed, Valid, ValidWindow
<1>3. MergeInv'
  BY DEF IInv, MergeInv, Consumed
<1>4. ChunkInv'
  BY DEF IInv, ChunkInv, InOrder, AtWindow, LastChunk, Fits
<1>5. QED
  BY <1>1, <1>2, <1>3, <1>4 DEF IInv

\* Every step of the chunkers preserves the invariant.
THEOREM Invariance == Spec => []IInv
<1>1. Init => IInv
  BY InitInv
<1>2. IInv /\ [Next]_vars => IInv'
  BY ChunkPreserves, RejectPreserves, ScanLinePreserves, EndScanPreserves,
     HoldSectionPreserves, MergeSectionPreserves, EndMergePreserves, WholeSectionPreserves,
     WindowPreserves, CancelPreserves, ReturnPreserves, StutterPreserves
     DEF Next
<1>3. QED
  BY <1>1, <1>2, PTL DEF Spec

\* The variables have their types whatever the documents and the limits: no rune or
\* section index leaves its range.
THEOREM TypeCorrect == Spec => []TypeOK
<1>1. IInv => TypeOK
  BY DEF IInv
<1>2. QED
  BY <1>1, Invariance, PTL

\* The chunks cover every document in order with the overlap asked for, and every
\* window starts and ends after the one before it.
THEOREM Covered == Spec => []Coverage
<1>1. ASSUME IInv PROVE Coverage
  <2>1. CASE chunks = <<>> /\ phase # "done"
    BY <2>1 DEF Coverage
  <2>2. phase = "done" /\ document.length > 0 =>
          chunks # <<>> /\ chunks[Len(chunks)].end = document.length
    <3> SUFFICES ASSUME phase = "done", document.length > 0
                 PROVE  chunks # <<>> /\ chunks[Len(chunks)].end = document.length
      OBVIOUS
    <3>1. /\ sections \in Seq(Span) /\ next \in 1 .. Len(sections) + 1
          /\ document.length \in Nat
      BY <1>1 DEF IInv, TypeOK, Document
    <3>2. next > Len(sections) /\ Tiles(sections, document.length)
      BY <1>1 DEF IInv, SectionInv
    <3>3. sections # <<>> /\ sections[Len(sections)].end = document.length
      BY <3>2 DEF Tiles
    <3>4. next = Len(sections) + 1 /\ next # 1 /\ next - 1 = Len(sections)
      BY <3>1, <3>2, <3>3
    <3>5. AtWindow(chunks, next, runeStart)
      BY <1>1 DEF IInv, ChunkInv
    <3>6. chunks # <<>> /\ LastChunk(chunks).end = sections[next - 1].end
      BY <3>1, <3>4, <3>5 DEF AtWindow
    <3>7. QED
      BY <3>3, <3>4, <3>6 DEF LastChunk
  <2>3. CASE phase \in {"split", "done"}
    BY <1>1, <2>2, <2>3 DEF IInv, ChunkInv, InOrder, Coverage
  <2>4. QED
    BY <1>1, <2>1, <2>3 DEF IInv, ScanInv, TypeOK
<1>2. QED
  BY <1>1, Invariance, PTL

-----------------------------------------------------------------------------
(* Where sections start.                                                   *)

\* The fence opened on line o is closed before line n.
Ended(lines, o, n) ==
  \E k \in o + 1 .. n - 1 :
    /\ lines[k].bare /\ lines[k].marker = lines[o].marker
    /\ lines[k].fence >= lines[o].fence

Outside(lines, open, n) == \A o \in open : o < n => Ended(lines, o, n)

\* What the lines before i say: those that open a fence are `open`, the headings outside
\* fences start the sections of s, and f is the fence that is open at i, if one is.
ReadBefore(lines, open, i, f, s) ==
  /\ open = {n \in 1 .. i - 1 : lines[n].fence > 0 /\ Outside(lines, open, n)}
  /\ {s[n] : n \in DOMAIN s} =
       {0} \cup {lines[n].start :
                  n \in {n \in 1 .. i - 1 : lines[n].heading /\ Outside(lines, open, n)}}
  /\ f = NoFence => Outside(lines, open, i)
  /\ f # NoFence => \E o \in open :
       /\ f = [marker |-> lines[o].marker, width |-> lines[o].fence]
       /\ ~Ended(lines, o, i) /\ Outside(lines, open \ {o}, i)

HeadingInv ==
  /\ phase = "idle" => line = 1 /\ fence = NoFence /\ starts = <<>>
  /\ phase \notin {"idle", "scan"} /\ starts # <<>> => line = Len(document.lines) + 1
  /\ starts # <<>> => \E open : ReadBefore(document.lines, open, line, fence, starts)

\* A fence stays closed, and one that is open at a line is closed after it by the line.
LEMMA EndedNext ==
  ASSUME NEW lines, NEW i \in Nat, NEW o \in 1 .. i - 1
  PROVE  Ended(lines, o, i + 1) <=>
           \/ Ended(lines, o, i)
           \/ /\ lines[i].bare /\ lines[i].marker = lines[o].marker
              /\ lines[i].fence >= lines[o].fence
<1>1. o + 1 .. (i + 1) - 1 = (o + 1 .. i - 1) \cup {i}
  OBVIOUS
<1>2. QED
  BY <1>1 DEF Ended

\* Nothing closes a fence on the line that opens it.
LEMMA NotEndedAtOnce == ASSUME NEW lines, NEW i \in Nat PROVE ~Ended(lines, i, i + 1)
BY DEF Ended

\* Lines from i on do not change what is outside fences before it.
LEMMA OutsideBefore ==
  ASSUME NEW lines, NEW i \in Nat, NEW open \in SUBSET (1 .. i - 1), NEW n \in 1 .. i
  PROVE  Outside(lines, open \cup {i}, n) <=> Outside(lines, open, n)
BY DEF Outside

\* A line inside a fence opens none and starts no section; it may close the fence.
LEMMA ReadInside ==
  ASSUME NEW lines, NEW open, NEW i \in Nat \ {0}, NEW f, NEW s,
         lines[i].fence \in Nat, \A n \in 1 .. i - 1 : lines[n].fence \in Nat,
         ReadBefore(lines, open, i, f, s), f # NoFence
  PROVE  ReadBefore(lines, open, i + 1, IF Closes(lines[i], f) THEN NoFence ELSE f, s)
<1>1. PICK o \in open : /\ f = [marker |-> lines[o].marker, width |-> lines[o].fence]
                        /\ ~Ended(lines, o, i) /\ Outside(lines, open \ {o}, i)
  BY DEF ReadBefore
<1>2. /\ open = {n \in 1 .. i - 1 : lines[n].fence > 0 /\ Outside(lines, open, n)}
      /\ {s[n] : n \in DOMAIN s} =
           {0} \cup {lines[n].start :
                  n \in {n \in 1 .. i - 1 : lines[n].heading /\ Outside(lines, open, n)}}
  BY DEF ReadBefore
<1>3. open \in SUBSET (1 .. i - 1) /\ o \in 1 .. i - 1 /\ lines[o].fence > 0
  BY <1>1, <1>2, Zenon
<1>4. ~Outside(lines, open, i)
  BY <1>1, <1>3 DEF Outside
<1>5. 1 .. (i + 1) - 1 = (1 .. i - 1) \cup {i}
  OBVIOUS
<1>6. \A n \in 1 .. (i + 1) - 1 : Outside(lines, open, n) => n \in 1 .. i - 1
  BY <1>4, <1>5
<1>7. open = {n \in 1 .. (i + 1) - 1 : lines[n].fence > 0 /\ Outside(lines, open, n)}
  BY <1>2, <1>5, <1>6
<1>8. {n \in 1 .. (i + 1) - 1 : lines[n].heading /\ Outside(lines, open, n)} =
        {n \in 1 .. i - 1 : lines[n].heading /\ Outside(lines, open, n)}
  BY <1>5, <1>6
<1>9. {s[n] : n \in DOMAIN s} =
        {0} \cup {lines[n].start : n \in {n \in 1 .. (i + 1) - 1 :
                                            lines[n].heading /\ Outside(lines, open, n)}}
  BY <1>2, <1>8, Zenon
<1>10. Outside(lines, open \ {o}, i + 1)
  <2> SUFFICES ASSUME NEW p \in open \ {o} PROVE Ended(lines, p, i + 1)
    BY DEF Outside
  <2>1. p \in 1 .. i - 1 /\ p < i
    BY <1>3
  <2>2. Ended(lines, p, i)
    BY <1>1, <2>1 DEF Outside
  <2>3. QED
    BY <2>1, <2>2, EndedNext
<1>11. Ended(lines, o, i + 1) <=> Closes(lines[i], f)
  <2>1. f.marker = lines[o].marker /\ f.width = lines[o].fence
    BY <1>1
  <2>2. lines[o].fence \in Nat
    BY <1>3
  <2>3. Ended(lines, o, i + 1) <=>
          /\ lines[i].bare /\ lines[i].marker = lines[o].marker
          /\ lines[i].fence >= lines[o].fence
    BY <1>1, <1>3, EndedNext
  <2>4. QED
    BY <1>3, <2>1, <2>2, <2>3 DEF Closes
<1>12. CASE Closes(lines[i], f)
  <2>1. Outside(lines, open, i + 1)
    BY <1>10, <1>11, <1>12 DEF Outside
  <2>2. QED
    BY <1>7, <1>9, <1>12, <2>1 DEF ReadBefore
<1>13. CASE ~Closes(lines[i], f)
  BY <1>1, <1>7, <1>9, <1>10, <1>11, <1>13 DEF ReadBefore
<1>14. QED
  BY <1>12, <1>13

\* A line outside fences that opens one starts no section.
LEMMA ReadOpening ==
  ASSUME NEW lines, NEW open, NEW i \in Nat \ {0}, NEW s,
         lines[i].fence \in Nat, lines[i].fence > 0, ~lines[i].heading,
         ReadBefore(lines, open, i, NoFence, s)
  PROVE  ReadBefore(lines, open \cup {i}, i + 1,
                    [marker |-> lines[i].marker, width |-> lines[i].fence], s)
<1> DEFINE now == open \cup {i}
           f == [marker |-> lines[i].marker, width |-> lines[i].fence]
<1>1. /\ open = {n \in 1 .. i - 1 : lines[n].fence > 0 /\ Outside(lines, open, n)}
      /\ {s[n] : n \in DOMAIN s} =
           {0} \cup {lines[n].start :
                  n \in {n \in 1 .. i - 1 : lines[n].heading /\ Outside(lines, open, n)}}
      /\ Outside(lines, open, i)
  BY DEF ReadBefore
<1>2. open \in SUBSET (1 .. i - 1)
  BY <1>1, Zenon
<1>3. 1 .. (i + 1) - 1 = (1 .. i - 1) \cup {i} /\ i \in 1 .. i /\ 1 .. i - 1 \subseteq 1 .. i
  OBVIOUS
<1>4. \A n \in 1 .. (i + 1) - 1 : Outside(lines, now, n) <=> Outside(lines, open, n)
  BY <1>2, <1>3, OutsideBefore
<1> HIDE DEF now
<1>5. now = {n \in 1 .. (i + 1) - 1 : lines[n].fence > 0 /\ Outside(lines, now, n)}
  <2>1. {n \in 1 .. (i + 1) - 1 : lines[n].fence > 0 /\ Outside(lines, now, n)} =
          {n \in 1 .. i - 1 : lines[n].fence > 0 /\ Outside(lines, open, n)} \cup {i}
    BY <1>1, <1>3, <1>4
  <2>2. QED
    BY <1>1, <2>1, Zenon DEF now
<1>6. {n \in 1 .. (i + 1) - 1 : lines[n].heading /\ Outside(lines, now, n)} =
        {n \in 1 .. i - 1 : lines[n].heading /\ Outside(lines, open, n)}
  BY <1>3, <1>4
<1>7. f # NoFence
  <2>1. f.width # 0 /\ NoFence.width = 0
    BY DEF NoFence
  <2>2. QED
    BY <2>1
<1>8. ~Ended(lines, i, i + 1)
  BY NotEndedAtOnce
<1>9. Outside(lines, now \ {i}, i + 1)
  <2> SUFFICES ASSUME NEW p \in now \ {i} PROVE Ended(lines, p, i + 1)
    BY DEF Outside
  <2>1. p \in open /\ p \in 1 .. i - 1 /\ p < i
    BY <1>2 DEF now
  <2>2. Ended(lines, p, i)
    BY <1>1, <2>1 DEF Outside
  <2>3. QED
    BY <2>1, <2>2, EndedNext
<1>10. {s[n] : n \in DOMAIN s} =
         {0} \cup {lines[n].start : n \in {n \in 1 .. (i + 1) - 1 :
                                             lines[n].heading /\ Outside(lines, now, n)}}
  BY <1>1, <1>6, Zenon
<1>11. i \in now
  BY DEF now
<1>12. ReadBefore(lines, now, i + 1, f, s)
  BY <1>5, <1>7, <1>8, <1>9, <1>10, <1>11 DEF ReadBefore
<1>13. QED
  BY <1>12 DEF now

\* A line outside fences that opens none starts a section when it is a heading.
LEMMA ReadOutside ==
  ASSUME NEW lines, NEW open, NEW i \in Nat \ {0}, NEW s \in Seq(Nat), NEW t \in Seq(Nat),
         lines[i].fence \in Nat, lines[i].fence = 0, lines[i].start \in Nat,
         ReadBefore(lines, open, i, NoFence, s),
         t = IF lines[i].start > 0 /\ lines[i].heading THEN Append(s, lines[i].start) ELSE s
  PROVE  ReadBefore(lines, open, i + 1, NoFence, t)
<1>1. /\ open = {n \in 1 .. i - 1 : lines[n].fence > 0 /\ Outside(lines, open, n)}
      /\ {s[n] : n \in DOMAIN s} =
           {0} \cup {lines[n].start :
                  n \in {n \in 1 .. i - 1 : lines[n].heading /\ Outside(lines, open, n)}}
      /\ Outside(lines, open, i)
  BY DEF ReadBefore
<1>2. open \in SUBSET (1 .. i - 1)
  BY <1>1, Zenon
<1>3. 1 .. (i + 1) - 1 = (1 .. i - 1) \cup {i} /\ i \notin 1 .. i - 1
  OBVIOUS
<1>4. open = {n \in 1 .. (i + 1) - 1 : lines[n].fence > 0 /\ Outside(lines, open, n)}
  <2>1. ~(lines[i].fence > 0)
    OBVIOUS
  <2>2. {n \in 1 .. (i + 1) - 1 : lines[n].fence > 0 /\ Outside(lines, open, n)} =
          {n \in 1 .. i - 1 : lines[n].fence > 0 /\ Outside(lines, open, n)}
    BY <1>3, <2>1
  <2>3. QED
    BY <1>1, <2>2, Zenon
<1>5. Outside(lines, open, i + 1)
  <2> SUFFICES ASSUME NEW p \in open PROVE Ended(lines, p, i + 1)
    BY DEF Outside
  <2>1. p \in 1 .. i - 1 /\ p < i
    BY <1>2
  <2>2. Ended(lines, p, i)
    BY <1>1, <2>1 DEF Outside
  <2>3. QED
    BY <2>1, <2>2, EndedNext
<1> DEFINE before == {n \in 1 .. i - 1 : lines[n].heading /\ Outside(lines, open, n)}
           upto == {n \in 1 .. (i + 1) - 1 : lines[n].heading /\ Outside(lines, open, n)}
           first(S) == {lines[n].start : n \in S}
<1>6. {t[n] : n \in DOMAIN t} = {0} \cup first(upto)
  <2>1. upto = IF lines[i].heading THEN before \cup {i} ELSE before
    BY <1>1, <1>3
  <2> HIDE DEF before, upto
  <2>2. first(upto) = IF lines[i].heading THEN first(before) \cup {lines[i].start}
                      ELSE first(before)
    BY <2>1
  <2>3. {s[n] : n \in DOMAIN s} = {0} \cup first(before)
    BY <1>1 DEF before
  <2>4. {t[n] : n \in DOMAIN t} =
          IF lines[i].start > 0 /\ lines[i].heading
          THEN {s[n] : n \in DOMAIN s} \cup {lines[i].start} ELSE {s[n] : n \in DOMAIN s}
    <3>1. CASE lines[i].start > 0 /\ lines[i].heading
      <4> DEFINE v == lines[i].start
      <4>1. t = Append(s, v) /\ v \in Nat
        BY <3>1
      <4> HIDE DEF v
      <4>2. DOMAIN t = DOMAIN s \cup {Len(s) + 1} /\ \A n \in DOMAIN s : t[n] = s[n]
        BY <4>1
      <4>3. t[Len(s) + 1] = v
        BY <4>1
      <4>4. {t[n] : n \in DOMAIN t} = {s[n] : n \in DOMAIN s} \cup {v}
        BY <4>2, <4>3
      <4>5. QED
        BY <3>1, <4>4 DEF v
    <3>2. CASE ~(lines[i].start > 0 /\ lines[i].heading)
      BY <3>2, Zenon
    <3>3. QED
      BY <3>1, <3>2
  <2> HIDE DEF first
  <2>5. ~(lines[i].start > 0) => lines[i].start = 0
    OBVIOUS
  <2>6. CASE lines[i].heading /\ lines[i].start > 0
    BY <2>2, <2>3, <2>4, <2>6
  <2>7. CASE lines[i].heading /\ lines[i].start = 0
    BY <2>2, <2>3, <2>4, <2>7
  <2>8. CASE ~lines[i].heading
    BY <2>2, <2>3, <2>4, <2>8
  <2>9. QED
    BY <2>5, <2>6, <2>7, <2>8
<1>7. QED
  BY <1>4, <1>5, <1>6 DEF ReadBefore

LEMMA ScanLineReads == IInv /\ HeadingInv /\ ScanLine => HeadingInv'
<1> SUFFICES ASSUME IInv, HeadingInv, ScanLine PROVE HeadingInv'
  OBVIOUS
<1> DEFINE lines == document.lines
           l == lines[line]
<1>1. /\ phase = "scan" /\ phase' = "scan" /\ line \in DOMAIN lines /\ line' = line + 1
      /\ lines \in Seq(Line) /\ document.length \in Nat /\ starts \in Seq(Nat)
      /\ UNCHANGED document
  BY DEF ScanLine, IInv, TypeOK, Document
<1>2. line \in Nat \ {0} /\ \A n \in 1 .. line : n \in DOMAIN lines
  BY <1>1
<1>3. \A n \in 1 .. line : lines[n].fence \in Nat /\ lines[n].start \in Nat
  <2> SUFFICES ASSUME NEW n \in 1 .. line
               PROVE  lines[n].fence \in Nat /\ lines[n].start \in Nat
    OBVIOUS
  <2>1. lines[n] \in Line
    BY <1>1, <1>2, ElementOfSeq
  <2>2. QED
    BY <2>1 DEF Line
<1>4. line \in 1 .. line /\ \A n \in 1 .. line - 1 : n \in 1 .. line
  BY <1>2
<1>5. l.heading => l.fence = 0
  BY <1>1 DEF IInv, WellFormed
<1>6. starts # <<>>
  <2>1. l.start < l.end /\ l.end <= document.length /\ l.end \in Nat /\ l.start \in Nat
    <3>1. l \in Line
      BY <1>1, ElementOfSeq
    <3>2. QED
      BY <1>1, <3>1, LineFields DEF IInv, WellFormed
  <2>2. document.length # 0
    <3> HIDE DEF l
    <3>1. QED
      BY <1>1, <2>1
  <2>3. QED
    BY <1>1, <2>2 DEF IInv, ScanInv, Increasing
<1>7. PICK open : ReadBefore(lines, open, line, fence, starts)
  BY <1>6 DEF HeadingInv
<1>8. starts' \in Seq(Nat)
  <2>1. IInv'
    BY ScanLinePreserves
  <2>2. QED
    BY <2>1 DEF IInv, TypeOK
<1>9. \E now : ReadBefore(lines, now, line + 1, fence', starts')
  <2>1. CASE fence # NoFence
    <3>1. fence' = (IF Closes(l, fence) THEN NoFence ELSE fence) /\ starts' = starts
      BY <2>1 DEF ScanLine
    <3>2. ReadBefore(lines, open, line + 1, IF Closes(l, fence) THEN NoFence ELSE fence, starts)
      BY <1>2, <1>3, <1>4, <1>7, <2>1, ReadInside
    <3>3. QED
      BY <3>1, <3>2, Zenon
  <2>2. CASE fence = NoFence /\ l.fence > 0
    <3>1. fence' = [marker |-> l.marker, width |-> l.fence] /\ starts' = starts
      BY <2>2 DEF ScanLine
    <3>2. l.fence \in Nat /\ ~l.heading
      BY <1>3, <1>4, <1>5, <2>2
    <3>3. ReadBefore(lines, open \cup {line}, line + 1,
                     [marker |-> l.marker, width |-> l.fence], starts)
      BY <1>2, <1>7, <2>2, <3>2, ReadOpening
    <3>4. QED
      BY <3>1, <3>3, Zenon
  <2>3. CASE fence = NoFence /\ ~(l.fence > 0)
    <3>1. /\ starts' = IF l.start > 0 /\ l.heading THEN Append(starts, l.start) ELSE starts
          /\ fence' = NoFence
      BY <2>3 DEF ScanLine
    <3>2. l.fence \in Nat /\ l.fence = 0 /\ l.start \in Nat
      BY <1>3, <1>4, <2>3
    <3>3. ReadBefore(lines, open, line + 1, NoFence, starts')
      <4>1. ReadBefore(lines, open, line, NoFence, starts)
        BY <1>7, <2>3
      <4> HIDE DEF l
      <4>2. QED
        BY <1>1, <1>2, <1>8, <3>1, <3>2, <4>1, ReadOutside DEF l
    <3>4. QED
      BY <3>1, <3>3, Zenon
  <2>4. QED
    BY <2>1, <2>2, <2>3
<1>10. QED
  BY <1>1, <1>9 DEF HeadingInv

LEMMA ChunkReads == IInv /\ HeadingInv /\ Chunk => HeadingInv'
<1> SUFFICES ASSUME IInv, HeadingInv, Chunk PROVE HeadingInv'
  OBVIOUS
<1>1. /\ phase = "idle" /\ phase' \in {"split", "scan"} /\ line = 1 /\ fence = NoFence
      /\ starts = <<>> /\ starts' \in {<<>>, <<0>>}
      /\ phase' = "split" => starts' = starts
      /\ UNCHANGED <<document, line, fence>>
  BY DEF Chunk, HeadingInv
<1>2. ReadBefore(document.lines, {}, 1, NoFence, <<0>>)
  BY DEF ReadBefore, Outside
<1>3. QED
  BY <1>1, <1>2 DEF HeadingInv

LEMMA HeadingStep == IInv /\ HeadingInv /\ [Next]_vars => HeadingInv'
<1> SUFFICES ASSUME IInv, HeadingInv, [Next]_vars PROVE HeadingInv'
  OBVIOUS
<1>1. CASE Chunk
  BY <1>1, ChunkReads
<1>2. CASE ScanLine
  BY <1>2, ScanLineReads
<1>3. CASE EndScan
  <2>1. line = Len(document.lines) + 1
    BY <1>3 DEF EndScan, IInv, TypeOK, Document
  <2>2. QED
    BY <1>3, <2>1 DEF EndScan, HeadingInv
<1>4. CASE Reject
  BY <1>4 DEF Reject, HeadingInv
<1>5. CASE HoldSection \/ MergeSection \/ EndMerge
  BY <1>5 DEF HoldSection, MergeSection, EndMerge, HeadingInv
<1>6. CASE WholeSection \/ Window \/ Cancel \/ Return
  BY <1>6 DEF WholeSection, Window, Cancel, Return, Splitting, HeadingInv
<1>7. CASE UNCHANGED vars
  BY <1>7 DEF HeadingInv, vars
<1>8. QED
  BY <1>1, <1>2, <1>3, <1>4, <1>5, <1>6, <1>7 DEF Next

\* Sections start at the beginning and at the headings outside fenced code, for every
\* document, whatever the fences in it.
THEOREM HeadingsFound == Spec => []HeadingsSplit
<1>1. Init => HeadingInv
  BY DEF Init, HeadingInv
<1>2. IInv /\ HeadingInv => HeadingsSplit
  <2> SUFFICES ASSUME IInv, HeadingInv, phase \notin {"idle", "scan"}, starts # <<>>
               PROVE  HeadingsSplit
    BY DEF HeadingsSplit
  <2> DEFINE lines == document.lines
  <2>1. /\ DOMAIN lines = 1 .. line - 1
        /\ \E open : ReadBefore(lines, open, line, fence, starts)
    BY DEF HeadingInv, IInv, TypeOK, Document
  <2>2. PICK open : ReadBefore(lines, open, line, fence, starts)
    BY <2>1
  <2>3. /\ open = {n \in DOMAIN lines : lines[n].fence > 0 /\ Outside(lines, open, n)}
        /\ {starts[n] : n \in DOMAIN starts} =
             {0} \cup {lines[n].start :
                n \in {n \in DOMAIN lines : lines[n].heading /\ Outside(lines, open, n)}}
    BY <2>1, <2>2 DEF ReadBefore
  <2>4. open \in SUBSET DOMAIN lines
    BY <2>3, Zenon
  <2>5. QED
    BY <2>3, <2>4, Zenon DEF HeadingsSplit, Outside, Ended
<1>3. QED
  BY <1>1, <1>2, HeadingStep, Invariance, PTL DEF Spec

-----------------------------------------------------------------------------
(* Which sections are merged.                                              *)

\* Small, by whatever minimum.
SmallFor(s, min) == s.end - s.start < min

\* The sections up to upto whose beginning stays a boundary: the one before is not small
\* and neither are all that follow.
Kept(raw, upto, min) ==
  {n \in 2 .. upto :
     ~SmallFor(raw[n - 1], min) /\ \E m \in n .. upto : ~SmallFor(raw[m], min)}

StartsOf(raw, S) == {raw[n].start : n \in S}

\* The small sections of raw that wait at k are those from j on.
Waiting(raw, ms, k, p, j, min) ==
  /\ p = IF j = k THEN NoPending ELSE raw[j].start
  /\ \A m \in j .. k - 1 : SmallFor(raw[m], min)
  /\ j > 1 => ~SmallFor(raw[j - 1], min)
  /\ ms = <<>> <=> j = 1

\* ms are the sections before the k-th merged, but for those that wait.
Grouped(raw, ms, k, p, min) ==
  /\ StartsOf(ms, 2 .. Len(ms)) = StartsOf(raw, Kept(raw, k - 1, min))
  /\ k <= Len(raw) => \E j \in 1 .. k : Waiting(raw, ms, k, p, j, min)
  /\ \A n \in DOMAIN ms : SmallFor(ms[n], min) => k > Len(raw) /\ Len(ms) = 1

\* The sections `whole` keep the boundaries they should of those of raw.
WellMerged(raw, whole, min) ==
  /\ StartsOf(whole, 2 .. Len(whole)) = StartsOf(raw, Kept(raw, Len(raw), min))
  /\ \A n \in DOMAIN whole : SmallFor(whole[n], min) => Len(whole) = 1

GroupInv ==
  /\ phase = "merge" => /\ sections = SectionsFrom(starts)
                        /\ Grouped(sections, merged, next, pending, chunker.min)
  /\ chunker.kind = "markdown-heading" /\ phase = "split" =>
       WellMerged(SectionsFrom(starts), sections, chunker.min)

\* A small section keeps no boundary.
LEMMA KeptSmall ==
  ASSUME NEW raw, NEW min, NEW k \in Nat \ {0}, SmallFor(raw[k], min)
  PROVE  Kept(raw, k, min) = Kept(raw, k - 1, min)
<1>1. ASSUME NEW n \in 2 .. k
      PROVE  (\E m \in n .. k : ~SmallFor(raw[m], min))
                <=> (\E m \in n .. k - 1 : ~SmallFor(raw[m], min))
  <2>1. n .. k = (n .. k - 1) \cup {k}
    OBVIOUS
  <2>2. QED
    BY <2>1
<1>2. ~ \E m \in k .. k - 1 : ~SmallFor(raw[m], min)
  OBVIOUS
<1>3. k \notin Kept(raw, k, min)
  BY <1>1, <1>2 DEF Kept
<1>4. \A n \in 2 .. k : n = k \/ n \in 2 .. k - 1
  OBVIOUS
<1>5. \A n \in 2 .. k - 1 : n \in 2 .. k
  OBVIOUS
<1>6. Kept(raw, k, min) \subseteq Kept(raw, k - 1, min)
  BY <1>1, <1>3, <1>4 DEF Kept
<1>7. Kept(raw, k - 1, min) \subseteq Kept(raw, k, min)
  BY <1>1, <1>5 DEF Kept
<1>8. QED
  BY <1>6, <1>7

\* One that is not small keeps its boundary, or that of the small ones before it.
LEMMA KeptLarge ==
  ASSUME NEW raw, NEW min, NEW k \in Nat \ {0}, ~SmallFor(raw[k], min), NEW j \in 1 .. k,
         \A m \in j .. k - 1 : SmallFor(raw[m], min), j > 1 => ~SmallFor(raw[j - 1], min)
  PROVE  Kept(raw, k, min) = Kept(raw, k - 1, min) \cup (IF j > 1 THEN {j} ELSE {})
<1> DEFINE first == IF j > 1 THEN {j} ELSE {}
<1>1. \A n \in 2 .. k : k \in n .. k
  OBVIOUS
<1>2. \A n : n \in Kept(raw, k, min) <=> n \in 2 .. k /\ ~SmallFor(raw[n - 1], min)
  BY <1>1 DEF Kept
<1>3. Kept(raw, k - 1, min) \subseteq Kept(raw, k, min)
  <2>1. \A n \in 2 .. k - 1 : n \in 2 .. k
    OBVIOUS
  <2>2. QED
    BY <1>2, <2>1 DEF Kept
<1>4. first \subseteq Kept(raw, k, min)
  <2>1. j > 1 => j \in 2 .. k
    OBVIOUS
  <2>2. QED
    BY <1>2, <2>1
<1>5. ASSUME NEW n \in Kept(raw, k, min) PROVE n \in Kept(raw, k - 1, min) \cup first
  <2>1. n \in 2 .. k /\ ~SmallFor(raw[n - 1], min)
    BY <1>2
  <2>2. CASE n < j
    <3>1. n \in 2 .. k - 1 /\ j - 1 \in n .. k - 1 /\ j > 1
      BY <2>1, <2>2
    <3>2. QED
      BY <2>1, <3>1 DEF Kept
  <2>3. CASE n = j
    BY <2>1, <2>3
  <2>4. CASE n > j
    <3>1. n - 1 \in j .. k - 1
      BY <2>1, <2>4
    <3>2. QED
      BY <2>1, <3>1
  <2>5. QED
    BY <2>1, <2>2, <2>3, <2>4
<1> HIDE DEF first
<1>6. Kept(raw, k, min) = Kept(raw, k - 1, min) \cup first
  BY <1>3, <1>4, <1>5
<1>7. QED
  BY <1>6 DEF first

\* A small section that waits leaves what was merged as it is.
LEMMA HoldGroups ==
  ASSUME NEW raw, NEW ms, NEW k \in Nat \ {0}, NEW p, NEW min, Len(raw) \in Nat,
         \A n \in 1 .. k : raw[n].start \in Nat, k < Len(raw), SmallFor(raw[k], min),
         Grouped(raw, ms, k, p, min)
  PROVE  Grouped(raw, ms, k + 1, IF p = NoPending THEN raw[k].start ELSE p, min)
<1> DEFINE q == IF p = NoPending THEN raw[k].start ELSE p
<1>1. PICK j \in 1 .. k : Waiting(raw, ms, k, p, j, min)
  BY DEF Grouped
<1>2. q = raw[j].start
  <2>1. raw[j].start # NoPending
    BY DEF NoPending
  <2>2. CASE j = k
    BY <1>1, <2>2 DEF Waiting
  <2>3. CASE j # k
    BY <1>1, <2>1, <2>3 DEF Waiting
  <2>4. QED
    BY <2>2, <2>3
<1>3. Waiting(raw, ms, k + 1, q, j, min)
  <2>1. j .. (k + 1) - 1 = (j .. k - 1) \cup {k} /\ j # k + 1
    OBVIOUS
  <2> HIDE DEF q
  <2>2. \A m \in j .. (k + 1) - 1 : SmallFor(raw[m], min)
    BY <1>1, <2>1 DEF Waiting
  <2>3. QED
    BY <1>1, <1>2, <2>1, <2>2 DEF Waiting
<1>4. j \in 1 .. k + 1 /\ (k + 1) - 1 = k
  OBVIOUS
<1>5. Kept(raw, k, min) = Kept(raw, k - 1, min)
  BY KeptSmall
<1>6. \A n \in DOMAIN ms : ~SmallFor(ms[n], min)
  <2>1. ~(k > Len(raw))
    OBVIOUS
  <2>2. QED
    BY <2>1 DEF Grouped
<1> HIDE DEF q
<1>7. Grouped(raw, ms, k + 1, q, min)
  BY <1>3, <1>4, <1>5, <1>6 DEF Grouped
<1>8. QED
  BY <1>7 DEF q

\* A section that is not small ends a merged one; the last goes to the one before it when
\* it is small and there is one.
LEMMA MergeGroups ==
  ASSUME NEW raw, NEW ms \in Seq(Span), NEW new \in Seq(Span), NEW k \in Nat \ {0}, NEW p,
         NEW min \in Int, Len(raw) \in Nat, \A n \in 1 .. k : raw[n].start \in Nat,
         raw[k].end \in Nat, k <= Len(raw), Grouped(raw, ms, k, p, min),
         NEW from \in Nat, from = IF p = NoPending THEN raw[k].start ELSE p,
         from <= raw[k].start, raw[k].start < raw[k].end, Tiles(ms, from),
         SmallFor(raw[k], min) => k = Len(raw),
         new = IF SmallFor(raw[k], min) /\ ms # <<>>
               THEN [ms EXCEPT ![Len(ms)].end = raw[k].end]
               ELSE Append(ms, [start |-> from, end |-> raw[k].end])
  PROVE  Grouped(raw, new, k + 1, NoPending, min)
<1> DEFINE size == Len(ms)
           span == [start |-> from, end |-> raw[k].end]
<1>1. PICK j \in 1 .. k : Waiting(raw, ms, k, p, j, min)
  BY DEF Grouped
<1>2. from = raw[j].start
  <2>1. raw[j].start # NoPending
    BY DEF NoPending
  <2>2. CASE j = k
    BY <1>1, <2>2 DEF Waiting
  <2>3. CASE j # k
    BY <1>1, <2>1, <2>3 DEF Waiting
  <2>4. QED
    BY <2>2, <2>3
<1>0. from < raw[k].end
  <2>1. raw[k].start \in Nat
    OBVIOUS
  <2>2. QED
    BY <2>1
<1>3. \A n \in DOMAIN ms : ~SmallFor(ms[n], min)
  <2>1. ~(k > Len(raw))
    OBVIOUS
  <2>2. QED
    BY <2>1 DEF Grouped
<1>4. /\ size \in Nat /\ DOMAIN ms = 1 .. size /\ (ms = <<>> <=> size = 0)
      /\ (k + 1) - 1 = k
  OBVIOUS
<1>5. StartsOf(ms, 2 .. size) = StartsOf(raw, Kept(raw, k - 1, min))
  BY DEF Grouped
<1> HIDE DEF size
<1>6. CASE SmallFor(raw[k], min) /\ ms # <<>>
  <2>1. k = Len(raw) /\ new = [ms EXCEPT ![size].end = raw[k].end] /\ size \in DOMAIN ms
    BY <1>4, <1>6 DEF size
  <2>2. /\ Len(new) = size /\ DOMAIN new = DOMAIN ms
        /\ \A n \in DOMAIN ms : n # size => new[n] = ms[n]
        /\ new[size] = [ms[size] EXCEPT !.end = raw[k].end]
    <3>1. DOMAIN new = DOMAIN ms /\ new[size] = [ms[size] EXCEPT !.end = raw[k].end]
      BY <2>1
    <3>2. \A n \in DOMAIN ms : n # size => new[n] = ms[n]
      BY <2>1
    <3>3. Len(new) = size
      BY <1>4, <3>1
    <3>4. QED
      BY <3>1, <3>2, <3>3
  <2>3. /\ ms[size].start \in Nat /\ ms[size].end = from
        /\ new[size].start = ms[size].start /\ new[size].end = raw[k].end
    <3>1. ms[size] \in Span
      BY <2>1, ElementOfSeq
    <3>2. ms[size].end = from
      BY <1>6 DEF Tiles, size
    <3>3. QED
      BY <2>2, <3>1, <3>2 DEF Span
  <2>4. \A n \in DOMAIN new : ~SmallFor(new[n], min)
    <3>1. ~SmallFor(new[size], min)
      <4>1. ~(from - ms[size].start < min)
        BY <1>3, <2>1, <2>3 DEF SmallFor
      <4>2. ~(raw[k].end - ms[size].start < min)
        BY <1>0, <2>3, <4>1
      <4>3. QED
        BY <2>3, <4>2 DEF SmallFor
    <3>2. QED
      BY <1>3, <2>2, <3>1
  <2>5. StartsOf(new, 2 .. Len(new)) = StartsOf(ms, 2 .. size)
    <3>0. \A n \in 2 .. size : n \in DOMAIN ms
      BY <1>4
    <3>1. \A n \in 2 .. size : new[n].start = ms[n].start
      BY <2>2, <2>3, <3>0
    <3>2. QED
      BY <2>2, <3>1 DEF StartsOf
  <2>6. Kept(raw, k, min) = Kept(raw, k - 1, min)
    BY <1>6, KeptSmall
  <2>7. ~(k + 1 <= Len(raw))
    BY <2>1
  <2>8. QED
    BY <1>4, <1>5, <2>4, <2>5, <2>6, <2>7 DEF Grouped
<1>7. CASE ~(SmallFor(raw[k], min) /\ ms # <<>>)
  <2>1. new = Append(ms, span) /\ span \in Span
    BY <1>7, SpanFields
  <2>2. span.start = from /\ span.end = raw[k].end
    OBVIOUS
  <2> HIDE DEF span
  <2>3. /\ Len(new) = size + 1 /\ DOMAIN new = 1 .. size + 1 /\ new # <<>>
        /\ new[size + 1] = span /\ \A n \in DOMAIN ms : new[n] = ms[n]
    <3>1. Len(new) = size + 1 /\ DOMAIN new = 1 .. size + 1
      BY <2>1 DEF size
    <3>2. new[size + 1] = span
      BY <2>1 DEF size
    <3>3. \A n \in DOMAIN ms : new[n] = ms[n]
      BY <2>1
    <3>4. new # <<>>
      <4>1. size + 1 # 0 /\ Len(<<>>) = 0
        BY <1>4
      <4>2. QED
        BY <3>1, <4>1
    <3>5. QED
      BY <3>1, <3>2, <3>3, <3>4
  <2>4. StartsOf(new, 2 .. Len(new)) =
          IF ms = <<>> THEN {} ELSE StartsOf(ms, 2 .. size) \cup {from}
    <3>1. CASE ms = <<>>
      <4>1. 2 .. Len(new) = {}
        BY <1>4, <2>3, <3>1
      <4>2. QED
        BY <3>1, <4>1 DEF StartsOf
    <3>2. CASE ms # <<>>
      <4>0. size \in Nat \ {0} /\ \A n \in 2 .. size : n \in DOMAIN ms
        BY <1>4, <3>2
      <4>1. 2 .. Len(new) = (2 .. size) \cup {size + 1}
        <5>1. 2 .. size + 1 = (2 .. size) \cup {size + 1}
          BY <4>0
        <5>2. QED
          BY <2>3, <5>1
      <4>2. \A n \in 2 .. size : new[n].start = ms[n].start
        BY <2>3, <4>0
      <4>3. new[size + 1].start = from
        BY <2>2, <2>3
      <4>4. StartsOf(new, 2 .. Len(new)) = StartsOf(new, 2 .. size) \cup {new[size + 1].start}
        BY <4>1 DEF StartsOf
      <4>5. StartsOf(new, 2 .. size) = StartsOf(ms, 2 .. size)
        BY <4>2 DEF StartsOf
      <4>6. QED
        BY <3>2, <4>3, <4>4, <4>5
    <3>3. QED
      BY <3>1, <3>2
  <2>5. CASE SmallFor(raw[k], min)
    <3>1. ms = <<>> /\ k = Len(raw)
      BY <1>7, <2>5
    <3>2. Kept(raw, k, min) = Kept(raw, k - 1, min)
      BY <2>5, KeptSmall
    <3>3. StartsOf(ms, 2 .. size) = {}
      <4>1. 2 .. size = {}
        BY <1>4, <3>1
      <4>2. QED
        BY <4>1 DEF StartsOf
    <3>4. StartsOf(new, 2 .. Len(new)) = StartsOf(raw, Kept(raw, k, min))
      BY <1>5, <2>4, <3>1, <3>2, <3>3
    <3>5. Len(new) = 1 /\ k + 1 > Len(raw) /\ ~(k + 1 <= Len(raw))
      BY <1>4, <2>3, <3>1
    <3>6. QED
      BY <1>4, <3>4, <3>5 DEF Grouped
  <2>6. CASE ~SmallFor(raw[k], min)
    <3>1. Kept(raw, k, min) = Kept(raw, k - 1, min) \cup (IF j > 1 THEN {j} ELSE {})
      <4>1. (\A m \in j .. k - 1 : SmallFor(raw[m], min)) /\ (j > 1 => ~SmallFor(raw[j - 1], min))
        BY <1>1 DEF Waiting
      <4>2. QED
        BY <2>6, <4>1, KeptLarge
    <3>2. ms = <<>> <=> ~(j > 1)
      BY <1>1 DEF Waiting
    <3>3. StartsOf(new, 2 .. Len(new)) = StartsOf(raw, Kept(raw, k, min))
      <4>1. CASE ms = <<>>
        <5>1. Kept(raw, k, min) = Kept(raw, k - 1, min)
          BY <3>1, <3>2, <4>1
        <5>2. 2 .. size = {}
          BY <1>4, <4>1
        <5>3. StartsOf(ms, 2 .. size) = {}
          BY <5>2 DEF StartsOf
        <5>4. QED
          BY <1>5, <2>4, <4>1, <5>1, <5>3
      <4>2. CASE ms # <<>>
        <5>1. Kept(raw, k, min) = Kept(raw, k - 1, min) \cup {j}
          BY <3>1, <3>2, <4>2
        <5>2. StartsOf(raw, Kept(raw, k, min)) = StartsOf(raw, Kept(raw, k - 1, min)) \cup {raw[j].start}
          BY <5>1 DEF StartsOf
        <5>3. QED
          BY <1>2, <1>5, <2>4, <4>2, <5>2
      <4>3. QED
        BY <4>1, <4>2
    <3>4. \A n \in DOMAIN new : ~SmallFor(new[n], min)
      <4>1. ~SmallFor(span, min)
        BY <2>2, <2>6 DEF SmallFor
      <4>2. \A n \in DOMAIN new : n \in DOMAIN ms \/ n = size + 1
        BY <1>4, <2>3
      <4>3. QED
        BY <1>3, <2>3, <4>1, <4>2
    <3>5. Waiting(raw, new, k + 1, NoPending, k + 1, min)
      BY <1>4, <2>3, <2>6 DEF Waiting
    <3>6. k + 1 \in 1 .. k + 1
      OBVIOUS
    <3>7. QED
      BY <1>4, <3>3, <3>4, <3>5, <3>6 DEF Grouped
  <2>7. QED
    BY <2>5, <2>6
<1>8. QED
  BY <1>6, <1>7

LEMMA HoldSectionGroups == IInv /\ GroupInv /\ HoldSection => GroupInv'
<1> SUFFICES ASSUME IInv, GroupInv, HoldSection PROVE GroupInv'
  OBVIOUS
<1>1. /\ phase = "merge" /\ phase' = "merge" /\ next < Len(sections) /\ next' = next + 1
      /\ Small(sections[next])
      /\ pending' = IF pending = NoPending THEN sections[next].start ELSE pending
      /\ UNCHANGED <<document, chunker, starts, sections, merged>>
  BY DEF HoldSection
<1>2. /\ next \in Nat \ {0} /\ sections \in Seq(Span) /\ Len(sections) \in Nat
      /\ \A n \in 1 .. next : n \in DOMAIN sections
  BY <1>1 DEF IInv, TypeOK
<1>3. \A n \in 1 .. next : sections[n].start \in Nat
  BY <1>2, ElementOfSeq, SpanFields, Zenon
<1>4. sections = SectionsFrom(starts) /\ Grouped(sections, merged, next, pending, chunker.min)
  BY <1>1 DEF GroupInv
<1>5. Grouped(sections, merged, next + 1,
              IF pending = NoPending THEN sections[next].start ELSE pending, chunker.min)
  BY <1>1, <1>2, <1>3, <1>4, HoldGroups DEF Small, SmallFor
<1>6. Grouped(sections, merged, next, pending, chunker.min)'
  BY <1>1, <1>5
<1>7. (sections = SectionsFrom(starts))'
  BY <1>1, <1>4 DEF SectionsFrom
<1>8. QED
  BY <1>1, <1>6, <1>7 DEF GroupInv

LEMMA MergeSectionGroups == IInv /\ GroupInv /\ MergeSection => GroupInv'
<1> SUFFICES ASSUME IInv, GroupInv, MergeSection PROVE GroupInv'
  OBVIOUS
<1> DEFINE current == sections[next]
           from == IF pending = NoPending THEN current.start ELSE pending
<1>1. /\ phase = "merge" /\ phase' = "merge" /\ next <= Len(sections) /\ next' = next + 1
      /\ pending' = NoPending
      /\ Small(current) => next = Len(sections)
      /\ UNCHANGED <<document, chunker, starts, sections>>
  BY DEF MergeSection
<1>2. merged' = IF Small(current) /\ merged # <<>>
                THEN [merged EXCEPT ![Len(merged)].end = current.end]
                ELSE Append(merged, [start |-> from, end |-> current.end])
  BY DEF MergeSection, GoesBack
<1>3. /\ next \in Nat \ {0} /\ sections \in Seq(Span) /\ Len(sections) \in Nat
      /\ merged \in Seq(Span) /\ pending \in Nat \cup {NoPending} /\ chunker.min \in Int
      /\ \A n \in 1 .. next : n \in DOMAIN sections
  BY <1>1 DEF IInv, TypeOK, Chunker
<1>4. \A n \in 1 .. next : sections[n].start \in Nat
  BY <1>3, ElementOfSeq, SpanFields, Zenon
<1>5. /\ current.start \in Nat /\ current.end \in Nat /\ current.start < current.end
      /\ Consumed = current.start
  BY <1>1, MergeFacts
<1>6. /\ pending # NoPending => pending < Consumed
      /\ Tiles(merged, IF pending = NoPending THEN Consumed ELSE pending)
  BY <1>1 DEF IInv, MergeInv
<1>7. from \in Nat /\ from <= current.start /\ Tiles(merged, from)
  <2> HIDE DEF current
  <2>1. QED
    BY <1>3, <1>5, <1>6
<1>8. merged' \in Seq(Span)
  <2>1. IInv'
    BY MergeSectionPreserves
  <2>2. QED
    BY <2>1 DEF IInv, TypeOK
<1>9. sections = SectionsFrom(starts) /\ Grouped(sections, merged, next, pending, chunker.min)
  BY <1>1 DEF GroupInv
<1>10. Grouped(sections, merged', next + 1, NoPending, chunker.min)
  <2>1. from = IF pending = NoPending THEN sections[next].start ELSE pending
    OBVIOUS
  <2>2. SmallFor(current, chunker.min) <=> Small(current)
    BY DEF Small, SmallFor
  <2> HIDE DEF from
  <2>3. merged' = IF SmallFor(sections[next], chunker.min) /\ merged # <<>>
                  THEN [merged EXCEPT ![Len(merged)].end = sections[next].end]
                  ELSE Append(merged, [start |-> from, end |-> sections[next].end])
    BY <1>2, <2>2
  <2>4. SmallFor(sections[next], chunker.min) => next = Len(sections)
    BY <1>1 DEF Small, SmallFor
  <2>5. /\ from \in Nat /\ from <= sections[next].start /\ Tiles(merged, from)
        /\ sections[next].end \in Nat /\ sections[next].start < sections[next].end
        /\ next <= Len(sections)
    BY <1>1, <1>5, <1>7
  <2> HIDE DEF current
  <2>6. QED
    BY <1>3, <1>4, <1>8, <1>9, <2>1, <2>3, <2>4, <2>5, MergeGroups
<1>11. Grouped(sections, merged, next, pending, chunker.min)'
  <2>1. /\ sections' = sections /\ next' = next + 1 /\ pending' = NoPending
        /\ chunker' = chunker
    BY <1>1
  <2> HIDE DEF current, from
  <2>2. QED
    BY <1>10, <2>1
<1>12. (sections = SectionsFrom(starts))'
  BY <1>1, <1>9 DEF SectionsFrom
<1>13. QED
  BY <1>1, <1>11, <1>12 DEF GroupInv

LEMMA EndMergeGroups == IInv /\ GroupInv /\ EndMerge => GroupInv'
<1> SUFFICES ASSUME IInv, GroupInv, EndMerge PROVE GroupInv'
  OBVIOUS
<1>1. /\ phase = "merge" /\ phase' = "split" /\ next > Len(sections)
      /\ sections' = merged
      /\ UNCHANGED <<document, chunker, starts, merged>>
  BY DEF EndMerge
<1>2. next - 1 = Len(sections)
  BY <1>1 DEF IInv, TypeOK
<1>3. sections = SectionsFrom(starts) /\ Grouped(sections, merged, next, pending, chunker.min)
  BY <1>1 DEF GroupInv
<1>4. WellMerged(sections, merged, chunker.min)
  BY <1>1, <1>2, <1>3 DEF Grouped, WellMerged
<1>5. SectionsFrom(starts)' = sections
  BY <1>1, <1>3 DEF SectionsFrom
<1>6. QED
  BY <1>1, <1>4, <1>5 DEF GroupInv

\* Sections are left as they are when none can be small or there is one.
LEMMA EndScanGroups == IInv /\ EndScan => GroupInv'
<1> SUFFICES ASSUME IInv, EndScan PROVE GroupInv'
  OBVIOUS
<1> DEFINE raw == SectionsFrom(starts)
<1>1. /\ phase = "scan" /\ sections' = raw
      /\ phase' = IF chunker.kind = "markdown-heading" /\ chunker.min > 0 /\ Len(starts) > 1
                  THEN "merge" ELSE "split"
      /\ UNCHANGED <<document, chunker, starts, next, pending, merged>>
  BY DEF EndScan
<1>2. next = 1 /\ pending = NoPending /\ merged = <<>> /\ Valid
  BY <1>1 DEF IInv, ScanInv, SectionInv
<1>3. raw \in Seq(Span) /\ Tiles(raw, document.length) /\ Len(raw) = Len(starts)
  <2>1. starts \in Seq(Nat) /\ document.length \in Nat /\ Increasing(starts, document.length)
    BY <1>1 DEF IInv, TypeOK, Document, ScanInv
  <2>2. Len(raw) = Len(starts)
    BY <2>1 DEF SectionsFrom
  <2> HIDE DEF raw
  <2>3. QED
    BY <2>1, <2>2, StartsTile DEF raw
<1>4. raw' = raw
  BY <1>1 DEF SectionsFrom
<1>5. chunker.min \in Int /\ document.length \in Nat
  BY DEF IInv, TypeOK, Chunker, Document
<1> HIDE DEF raw
<1>6. CASE phase' = "merge"
  <2>1. Grouped(raw, <<>>, 1, NoPending, chunker.min)
    <3>1. Kept(raw, 1 - 1, chunker.min) = {}
      BY DEF Kept
    <3>2. 2 .. Len(<<>>) = {}
      OBVIOUS
    <3>3. StartsOf(<<>>, 2 .. Len(<<>>)) = StartsOf(raw, Kept(raw, 1 - 1, chunker.min))
      BY <3>1, <3>2 DEF StartsOf
    <3>4. Waiting(raw, <<>>, 1, NoPending, 1, chunker.min) /\ 1 \in 1 .. 1
      BY DEF Waiting
    <3>5. QED
      BY <3>3, <3>4 DEF Grouped
  <2>2. Grouped(sections, merged, next, pending, chunker.min)'
    BY <1>1, <1>2, <2>1
  <2>3. (sections = SectionsFrom(starts))'
    BY <1>1, <1>4 DEF raw
  <2>4. QED
    BY <1>6, <2>2, <2>3 DEF GroupInv
<1>7. CASE phase' # "merge" /\ chunker.kind = "markdown-heading"
  <2> DEFINE kept == Kept(raw, Len(raw), chunker.min)
             small(n) == SmallFor(raw[n], chunker.min)
  <2>1. Len(raw) \in Nat /\ (chunker.min = 0 \/ Len(raw) <= 1)
    BY <1>1, <1>2, <1>3, <1>5, <1>7 DEF Valid
  <2>2. chunker.min = 0 => \A n \in DOMAIN raw : ~small(n)
    BY <1>3, <1>5, TileFacts DEF SmallFor
  <2>3. kept = 2 .. Len(raw)
    <3>1. CASE Len(raw) <= 1
      BY <2>1, <3>1 DEF Kept
    <3>2. CASE chunker.min = 0
      <4>1. \A n \in 2 .. Len(raw) :
              n \in DOMAIN raw /\ n - 1 \in DOMAIN raw /\ n \in n .. Len(raw)
        BY <1>3
      <4>2. QED
        BY <2>2, <3>2, <4>1 DEF Kept
    <3>3. QED
      BY <2>1, <3>1, <3>2
  <2>4. \A n \in DOMAIN raw : small(n) => Len(raw) = 1
    <3>1. CASE Len(raw) <= 1
      <4>1. Len(raw) = 0 => DOMAIN raw = {}
        BY <1>3
      <4>2. \A n \in DOMAIN raw : Len(raw) = 1
        <5>1. Len(raw) = 0 \/ Len(raw) = 1
          BY <2>1, <3>1
        <5>2. QED
          BY <4>1, <5>1
      <4>3. QED
        BY <4>2
    <3>2. CASE chunker.min = 0
      BY <2>2, <3>2
    <3>3. QED
      BY <2>1, <3>1, <3>2
  <2>5. WellMerged(raw, raw, chunker.min)
    BY <2>3, <2>4, Zenon DEF WellMerged
  <2>6. SectionsFrom(starts)' = raw
    BY <1>4 DEF raw
  <2>7. QED
    BY <1>1, <1>7, <2>5, <2>6 DEF GroupInv
<1>8. CASE phase' # "merge" /\ chunker.kind # "markdown-heading"
  BY <1>1, <1>8 DEF GroupInv
<1>9. QED
  BY <1>6, <1>7, <1>8

LEMMA GroupStep == IInv /\ GroupInv /\ [Next]_vars => GroupInv'
<1> SUFFICES ASSUME IInv, GroupInv, [Next]_vars PROVE GroupInv'
  OBVIOUS
<1>1. CASE EndScan
  BY <1>1, EndScanGroups
<1>2. CASE HoldSection
  BY <1>2, HoldSectionGroups
<1>3. CASE MergeSection
  BY <1>3, MergeSectionGroups
<1>4. CASE EndMerge
  BY <1>4, EndMergeGroups
<1>5. CASE Chunk \/ Reject \/ ScanLine \/ Cancel \/ Return
  BY <1>5 DEF Chunk, Reject, ScanLine, Cancel, Return, Splitting, GroupInv
<1>6. CASE WholeSection \/ Window
  <2>1. phase = "split" /\ phase' = "split" /\ UNCHANGED <<document, chunker, starts, sections>>
    BY <1>6 DEF WholeSection, Window, Splitting
  <2>2. SectionsFrom(starts)' = SectionsFrom(starts)
    BY <2>1 DEF SectionsFrom
  <2>3. QED
    BY <2>1, <2>2 DEF GroupInv
<1>7. CASE UNCHANGED vars
  <2>1. SectionsFrom(starts)' = SectionsFrom(starts)
    BY <1>7 DEF SectionsFrom, vars
  <2>2. QED
    BY <1>7, <2>1 DEF GroupInv, vars
<1>8. QED
  BY <1>1, <1>2, <1>3, <1>4, <1>5, <1>6, <1>7 DEF Next

\* MarkdownHeading keeps the boundaries that no small section takes away and no others,
\* for every document and every minimum.
THEOREM SmallMerged == Spec => []SmallSectionsMerge
<1>1. Init => GroupInv
  BY DEF Init, GroupInv
<1>2. GroupInv => SmallSectionsMerge
  BY Zenon DEF GroupInv, SmallSectionsMerge, WellMerged, StartsOf, Kept, Small, SmallFor
<1>3. QED
  BY <1>1, <1>2, GroupStep, Invariance, PTL DEF Spec

-----------------------------------------------------------------------------
(* Where windows are cut.                                                  *)

\* A cut in the middle of a section, of a window from `from` to `end`, is where
\* SnapsToSentence wants it.
CutWell(from, end) ==
  LET full == from + chunker.max IN
  /\ end = full \/ end \in document.sentences
  /\ end >= full - chunker.snap
  /\ \A p \in document.sentences :
       p > end \/ end \notin document.sentences =>
         ~(/\ p <= full /\ p >= full - chunker.snap
           /\ p > from + chunker.overlap)

\* The search back from a full window finds the last sentence end that does not stall.
LEMMA SnapCutsWell ==
  ASSUME TypeOK, Valid, chunker.kind = "markdown", chunker.snap > 0, NEW from \in Nat
  PROVE  CutWell(from, SnapToSentence(from, from + chunker.max))
<1> DEFINE full == from + chunker.max
           ends == SentenceEnds(from, full)
           last == CHOOSE p \in ends : \A q \in ends : q <= p
           end == SnapToSentence(from, full)
<1>1. /\ chunker.max \in Int /\ chunker.overlap \in Int /\ chunker.snap \in Int
      /\ chunker.max >= 1 /\ chunker.overlap >= 0 /\ document.sentences \in SUBSET Nat
  BY DEF TypeOK, Chunker, Document, Valid, ValidWindow
<1>2. full \in Int /\ full > from
  BY <1>1
<1>3. \A p : p \in ends <=> /\ p \in document.sentences
                            /\ p >= full - chunker.snap /\ p >= from + 1 /\ p <= full
  <2>1. SnapRunes = chunker.snap
    BY DEF SnapRunes
  <2>2. LowestCandidate(from, full) =
          IF full - chunker.snap > from + 1 THEN full - chunker.snap ELSE from + 1
    BY <2>1 DEF LowestCandidate, Larger
  <2> HIDE DEF full
  <2>3. QED
    BY <1>1, <1>2, <2>2 DEF SentenceEnds
<1>4. \A p \in document.sentences :
        p <= full /\ p >= full - chunker.snap /\ p > from + chunker.overlap => p \in ends
  <2> HIDE DEF full, ends
  <2>1. QED
    BY <1>1, <1>3
<1>5. CASE ends = {}
  <2>1. end = full
    BY <1>5 DEF SnapToSentence
  <2> HIDE DEF ends, end
  <2>2. QED
    BY <1>1, <1>2, <1>4, <1>5, <2>1 DEF CutWell, end
<1>6. CASE ends # {}
  <2>1. \E p \in ends : \A q \in ends : q <= p
    <3> HIDE DEF full, ends
    <3>1. ends \in SUBSET Int /\ \A p \in ends : p <= full
      BY <1>1, <1>3
    <3>2. QED
      BY <1>2, <1>6, <3>1, LargestExists, Zenon
  <2>2. last \in ends /\ \A q \in ends : q <= last
    BY <2>1
  <2>3. end = IF last <= from + chunker.overlap THEN full ELSE last
    BY <1>6 DEF SnapToSentence, Stalls
  <2>4. /\ last \in document.sentences /\ last \in Nat
        /\ last >= full - chunker.snap /\ last <= full
    <3> HIDE DEF full, ends, last
    <3>1. QED
      BY <1>1, <1>3, <2>2
  <2> HIDE DEF ends, last, end
  <2>5. CASE last <= from + chunker.overlap
    <3>1. end = full
      BY <2>3, <2>5
    <3>2. \A p \in document.sentences :
            ~(p <= full /\ p >= full - chunker.snap /\ p > from + chunker.overlap)
      BY <1>1, <1>2, <1>4, <2>2, <2>4, <2>5
    <3>3. QED
      BY <1>1, <1>2, <3>1, <3>2 DEF CutWell, end
  <2>6. CASE last > from + chunker.overlap
    <3>1. end = last
      BY <1>1, <2>3, <2>4, <2>6
    <3>2. \A p \in document.sentences :
            p > last =>
              ~(p <= full /\ p >= full - chunker.snap /\ p > from + chunker.overlap)
      BY <1>1, <1>2, <1>4, <2>2, <2>4
    <3>3. QED
      BY <1>1, <1>2, <2>4, <3>1, <3>2 DEF CutWell, end
  <2>7. QED
    BY <1>1, <2>4, <2>5, <2>6
<1>7. QED
  BY <1>5, <1>6

\* A window ends with its section or is cut well.
LEMMA WindowCutsWell ==
  ASSUME TypeOK, Valid, chunker.kind = "markdown", chunker.snap > 0,
         NEW from \in Nat, NEW limit \in Nat
  PROVE  \/ WindowEnd(from, limit) = limit
         \/ CutWell(from, WindowEnd(from, limit))
<1>1. chunker.max \in Int /\ SnapRunes > 0
  BY DEF TypeOK, Chunker, SnapRunes
<1>2. CASE from + chunker.max < limit
  BY <1>1, <1>2, SnapCutsWell DEF WindowEnd, Smaller
<1>3. CASE ~(from + chunker.max < limit)
  BY <1>1, <1>3 DEF WindowEnd, Smaller
<1>4. QED
  BY <1>2, <1>3

\* A window appends one chunk, which is cut well.
LEMMA WindowSnaps == IInv /\ SnapsToSentence /\ Window => SnapsToSentence'
<1> SUFFICES ASSUME IInv, SnapsToSentence, Window,
                    chunker.kind = "markdown", chunker.snap > 0
             PROVE  SnapsToSentence'
  BY DEF SnapsToSentence, Window
<1> DEFINE section == sections[next]
           from == section.start + runeStart
           end == WindowEnd(from, section.end)
           chunk == [start |-> from, end |-> end]
<1>1. /\ phase = "split" /\ next <= Len(sections) /\ chunks' = Append(chunks, chunk)
      /\ UNCHANGED <<document, chunker, sections>>
  BY DEF Window, Splitting
<1>2. /\ section.end \in Nat /\ from \in Nat
  BY <1>1, SplitFacts
<1>3. TypeOK /\ Valid /\ next \in DOMAIN sections /\ chunks \in Seq(Span)
  BY <1>1 DEF IInv, SectionInv, TypeOK
<1>4. end = section.end \/ CutWell(from, end)
  <2> HIDE DEF section, from
  <2>1. QED
    BY <1>2, <1>3, WindowCutsWell
<1> DEFINE well(c) == (\E s \in DOMAIN sections : sections[s].end = c.end)
                        \/ CutWell(c.start, c.end)
<1>5. well(chunk)
  BY <1>3, <1>4
<1>6. \A n \in DOMAIN chunks : well(chunks[n])
  BY DEF SnapsToSentence, CutWell
<1>7. \A n \in DOMAIN chunks' : chunks'[n] = chunk \/ (n \in DOMAIN chunks /\ chunks'[n] = chunks[n])
  <2> HIDE DEF chunk
  <2>1. QED
    BY <1>1, <1>3
<1>8. \A n \in DOMAIN chunks' : well(chunks'[n])
  <2> HIDE DEF chunk, well
  <2>1. QED
    BY <1>5, <1>6, <1>7
<1>9. QED
  BY <1>1, <1>8 DEF SnapsToSentence, CutWell

\* No other step appends a chunk that could have been cut: until sections are split
\* there are none.
LEMMA SnapsStep == IInv /\ SnapsToSentence /\ [Next]_vars => SnapsToSentence'
<1> SUFFICES ASSUME IInv, SnapsToSentence, [Next]_vars PROVE SnapsToSentence'
  OBVIOUS
<1>1. CASE Window
  BY <1>1, WindowSnaps
<1>2. CASE WholeSection
  BY <1>2 DEF SnapsToSentence, WholeSection, Fits
<1>3. CASE Cancel
  BY <1>3 DEF SnapsToSentence, Cancel
<1>4. CASE Return \/ Reject \/ ScanLine \/ HoldSection \/ MergeSection \/ UNCHANGED vars
  BY <1>4 DEF SnapsToSentence, Return, Reject, ScanLine, HoldSection, MergeSection, vars
<1>5. CASE Chunk \/ EndScan \/ EndMerge
  <2>1. chunks' = <<>>
    BY <1>5 DEF IInv, ScanInv, Chunk, EndScan, EndMerge
  <2>2. QED
    BY <2>1 DEF SnapsToSentence
<1>6. QED
  BY <1>1, <1>2, <1>3, <1>4, <1>5 DEF Next

\* A window is cut inside a sentence only if no sentence ends within reach where a cut
\* would let the next window advance, whatever the sentences, the overlap and the reach.
THEOREM SentencesKept == Spec => []SnapsToSentence
<1>1. Init => SnapsToSentence
  BY DEF Init, SnapsToSentence
<1>2. QED
  BY <1>1, SnapsStep, Invariance, PTL DEF Spec

=============================================================================
