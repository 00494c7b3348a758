------------------------------- MODULE Chunking -------------------------------
(***************************************************************************)
(* The chunkers of rag/chunking: Fixed, Markdown and MarkdownHeading split *)
(* one document.  The Markdown chunkers scan its lines for headings        *)
(* outside fenced code, MarkdownHeading merges small sections, and each    *)
(* section is emitted whole or by a sliding window, whose cuts Markdown    *)
(* may move back to the end of a sentence.                                 *)
(*                                                                         *)
(* Positions are runes; the byte offsets of the code are an increasing     *)
(* function of them.                                                       *)
(***************************************************************************)
EXTENDS Integers, Sequences

CONSTANTS Documents, Chunkers

(***************************************************************************)
(* A line runs from `start` to `end` and is an ATX heading, or begins with *)
(* a run of `fence` backticks or tildes, at least three, followed by       *)
(* nothing when `bare`, or neither.  `sentences` are the positions after a *)
(* rune that ends a sentence or a line.                                    *)
(***************************************************************************)
Line == [start : Nat, end : Nat, heading : BOOLEAN,
         fence : Nat, marker : {"none", "backtick", "tilde"}, bare : BOOLEAN]

Document == [lines : Seq(Line), length : Nat, sentences : SUBSET Nat]

Chunker == [kind : {"fixed", "markdown", "markdown-heading"},
            max : Int, min : Int, overlap : Int, snap : Int]

Span == [start : Nat, end : Nat]

\* The lines are not empty, in order and within the document; what a heading begins
\* with begins no fence.
WellFormed(d) ==
  \A n \in DOMAIN d.lines :
    /\ d.lines[n].heading => d.lines[n].fence = 0
    /\ d.lines[n].start < d.lines[n].end /\ d.lines[n].end <= d.length
    /\ \A m \in 1 .. n - 1 : d.lines[m].end <= d.lines[n].start

ASSUME DocumentAssumption ==
  Documents \subseteq Document /\ \A d \in Documents : WellFormed(d)
ASSUME ChunkerAssumption == Chunkers \subseteq Chunker

VARIABLES
  document, chunker,
  phase,      \* where the call is
  line,       \* the next line to scan
  fence,      \* the open fence, or NoFence
  starts,     \* where sections start
  sections,   \* the sections, merged ones after the merge
  next,       \* the next section to merge or to emit
  pending,    \* the start of the small sections waiting for the next, or -1
  merged,
  runeStart,  \* where in its section the next window starts
  chunks

vars == <<document, chunker, phase, line, fence, starts, sections, next, pending,
          merged, runeStart, chunks>>

NoFence == [marker |-> "none", width |-> 0]
NoPending == -1

Init ==
  /\ document \in Documents /\ chunker \in Chunkers
  /\ phase = "idle" /\ line = 1 /\ fence = NoFence /\ starts = <<>>
  /\ sections = <<>> /\ next = 1 /\ pending = NoPending /\ merged = <<>>
  /\ runeStart = 0 /\ chunks = <<>>

ValidWindowAnyOverlap == chunker.max >= 1 /\ chunker.overlap >= 0

ValidWindow == chunker.max >= 1 /\ chunker.overlap >= 0 /\ chunker.overlap < chunker.max

Valid ==
  /\ ValidWindow
  /\ chunker.kind = "markdown" => chunker.snap >= 0
  /\ chunker.kind = "markdown-heading" => chunker.min >= 0 /\ chunker.min < chunker.max

Chunk ==
  /\ phase = "idle" /\ Valid
  /\ IF chunker.kind = "fixed"
     THEN /\ phase' = "split"
          /\ sections' = IF document.length = 0 THEN <<>>
                         ELSE <<[start |-> 0, end |-> document.length]>>
          /\ UNCHANGED starts
     ELSE /\ phase' = "scan"
          /\ starts' = IF document.length = 0 THEN <<>> ELSE <<0>>
          /\ UNCHANGED sections
  /\ UNCHANGED <<document, chunker, line, fence, next, pending, merged, runeStart, chunks>>

Reject ==
  /\ phase = "idle" /\ ~Valid
  /\ phase' = "failed"
  /\ UNCHANGED <<document, chunker, line, fence, starts, sections, next, pending, merged,
                 runeStart, chunks>>

-----------------------------------------------------------------------------
(* Sections.                                                               *)

ClosesAnyFence(l, f) == l.fence > 0

\* A bare run of the same marker at least as long closes a fence.
Closes(l, f) == l.fence > 0 /\ l.marker = f.marker /\ l.fence >= f.width /\ l.bare

ScanLine ==
  LET l == document.lines[line] IN
  /\ phase = "scan" /\ line <= Len(document.lines)
  /\ line' = line + 1
  /\ IF fence # NoFence
     THEN fence' = (IF Closes(l, fence) THEN NoFence ELSE fence) /\ UNCHANGED starts
     ELSE IF l.fence > 0
     THEN fence' = [marker |-> l.marker, width |-> l.fence] /\ UNCHANGED starts
     ELSE /\ starts' = IF l.start > 0 /\ l.heading THEN Append(starts, l.start) ELSE starts
          /\ UNCHANGED fence
  /\ UNCHANGED <<document, chunker, phase, sections, next, pending, merged, runeStart, chunks>>

SectionsFrom(s) ==
  [n \in DOMAIN s |-> [start |-> s[n],
                       end |-> IF n < Len(s) THEN s[n + 1] ELSE document.length]]

\* The end of markdownSections; MarkdownHeading goes on to mergeSmallSections.
EndScan ==
  /\ phase = "scan" /\ line > Len(document.lines)
  /\ sections' = SectionsFrom(starts)
  /\ phase' = IF chunker.kind = "markdown-heading" /\ chunker.min > 0 /\ Len(starts) > 1
              THEN "merge" ELSE "split"
  /\ UNCHANGED <<document, chunker, line, fence, starts, next, pending, merged, runeStart, chunks>>

Small(s) == s.end - s.start < chunker.min

\* A small section waits for the next one.
HoldSection ==
  /\ phase = "merge" /\ next < Len(sections) /\ Small(sections[next])
  /\ pending' = IF pending = NoPending THEN sections[next].start ELSE pending
  /\ next' = next + 1
  /\ UNCHANGED <<document, chunker, phase, line, fence, starts, sections, merged, runeStart, chunks>>

GoesBackNever(s) == FALSE

\* The last section, when it is small, goes to the one before it.
GoesBack(s) == Small(s) /\ merged # <<>>

MergeSection ==
  LET current == sections[next] IN
  /\ phase = "merge" /\ next <= Len(sections)
  /\ Small(current) => next = Len(sections)
  /\ merged' = IF GoesBack(current)
               THEN [merged EXCEPT ![Len(merged)].end = current.end]
               ELSE Append(merged, [start |-> IF pending = NoPending THEN current.start ELSE pending,
                                    end |-> current.end])
  /\ pending' = NoPending
  /\ next' = next + 1
  /\ UNCHANGED <<document, chunker, phase, line, fence, starts, sections, runeStart, chunks>>

EndMerge ==
  /\ phase = "merge" /\ next > Len(sections)
  /\ sections' = merged /\ next' = 1 /\ phase' = "split"
  /\ UNCHANGED <<document, chunker, line, fence, starts, pending, merged, runeStart, chunks>>

-----------------------------------------------------------------------------
(* Chunks.                                                                 *)

Splitting == phase = "split" /\ next <= Len(sections)

Fits == /\ chunker.kind = "markdown-heading"
        /\ sections[next].end - sections[next].start <= chunker.max

WholeSection ==
  /\ Splitting /\ Fits
  /\ chunks' = Append(chunks, sections[next])
  /\ next' = next + 1
  /\ UNCHANGED <<document, chunker, phase, line, fence, starts, sections, pending, merged, runeStart>>

Smaller(m, n) == IF m < n THEN m ELSE n
Larger(m, n)  == IF m > n THEN m ELSE n

SnapRunes == IF chunker.kind = "markdown" THEN chunker.snap ELSE 0

LowestCandidateExcluded(from, full) == Larger(full - SnapRunes + 1, from + 1)

\* The lowest end snapToSentence tries for a window from `from` to `full`.
LowestCandidate(from, full) == Larger(full - SnapRunes, from + 1)

SentenceEnds(from, full) == document.sentences \cap (LowestCandidate(from, full) .. full)

StallsNever(from, end) == FALSE

\* The next window would not start after this one did.
Stalls(from, end) == end <= from + chunker.overlap

SnapToSentence(from, full) ==
  LET ends == SentenceEnds(from, full)
      last == CHOOSE p \in ends : \A q \in ends : q <= p IN
  IF ends = {} THEN full ELSE IF Stalls(from, last) THEN full ELSE last

WindowEnd(from, limit) ==
  LET full == Smaller(from + chunker.max, limit) IN
  IF SnapRunes > 0 /\ full < limit THEN SnapToSentence(from, full) ELSE full

\* One turn of the loop in fixedRangeSnap.
Window ==
  LET section == sections[next]
      from == section.start + runeStart
      end == WindowEnd(from, section.end) IN
  /\ Splitting /\ ~Fits
  /\ chunks' = Append(chunks, [start |-> from, end |-> end])
  /\ IF end = section.end
     THEN next' = next + 1 /\ runeStart' = 0
     ELSE next' = next /\ runeStart' = end - section.start - chunker.overlap
  /\ UNCHANGED <<document, chunker, phase, line, fence, starts, sections, pending, merged>>

\* The context is cancelled: nothing is returned.
Cancel ==
  /\ Splitting /\ ~Fits
  /\ phase' = "failed" /\ chunks' = <<>>
  /\ UNCHANGED <<document, chunker, line, fence, starts, sections, next, pending, merged, runeStart>>

\* MarkdownHeading returns an error when a text has no chunks.
Return ==
  /\ phase = "split" /\ next > Len(sections)
  /\ phase' = IF chunker.kind = "markdown-heading" /\ chunks = <<>> /\ document.length > 0
              THEN "failed" ELSE "done"
  /\ UNCHANGED <<document, chunker, line, fence, starts, sections, next, pending, merged,
                 runeStart, chunks>>

Next ==
  \/ Chunk \/ Reject
  \/ ScanLine \/ EndScan
  \/ HoldSection \/ MergeSection \/ EndMerge
  \/ WholeSection \/ Window \/ Cancel
  \/ Return

Spec == Init /\ [][Next]_vars

-----------------------------------------------------------------------------
(* Properties.                                                             *)

\* The variables have their types; positions are numbers that are not negative.
TypeOK ==
  /\ document \in Document /\ chunker \in Chunker
  /\ phase \in {"idle", "scan", "merge", "split", "done", "failed"}
  /\ line \in 1 .. Len(document.lines) + 1
  /\ fence \in [marker : {"none", "backtick", "tilde"}, width : Nat]
  /\ starts \in Seq(Nat)
  /\ sections \in Seq(Span) /\ merged \in Seq(Span) /\ chunks \in Seq(Span)
  /\ next \in 1 .. Len(sections) + 1
  /\ pending \in Nat \cup {NoPending} /\ runeStart \in Nat

\* After the scan a section starts at the beginning of the document and at every
\* heading outside fenced code, whatever fences are left open, nested or followed
\* by runs of another kind: fenced code runs from a fence that is in none to the
\* first bare one like it.
HeadingsSplit ==
  phase \notin {"idle", "scan"} /\ starts # <<>> =>
    LET lines == document.lines
        ended(o, n) == \E k \in o + 1 .. n - 1 :
          /\ lines[k].bare /\ lines[k].marker = lines[o].marker
          /\ lines[k].fence >= lines[o].fence
        outside(open, n) == \A o \in open : o < n => ended(o, n) IN
    \E open \in SUBSET DOMAIN lines :
      /\ open = {n \in DOMAIN lines : lines[n].fence > 0 /\ outside(open, n)}
      /\ {starts[n] : n \in DOMAIN starts} =
           {0} \cup {lines[n].start :
                      n \in {n \in DOMAIN lines : lines[n].heading /\ outside(open, n)}}

\* MarkdownHeading drops the boundary after a small section, and the one before the
\* small sections at the end, and no other; so a section that is left is not small,
\* or is all there is.
SmallSectionsMerge ==
  chunker.kind = "markdown-heading" /\ phase = "split" =>
    LET raw == SectionsFrom(starts)
        kept == {n \in 2 .. Len(raw) :
                   ~Small(raw[n - 1]) /\ \E m \in n .. Len(raw) : ~Small(raw[m])} IN
    /\ {sections[n].start : n \in 2 .. Len(sections)} = {raw[n].start : n \in kept}
    /\ \A n \in DOMAIN sections : Small(sections[n]) => Len(sections) = 1

\* The chunks cover the document in order, none longer than the limit.  Each starts
\* before the last one ends by exactly the overlap, or where it ends when a section
\* ends there, and ends after it: the window always advances.
Coverage ==
  /\ chunks # <<>> => chunks[1].start = 0
  /\ \A n \in DOMAIN chunks :
       chunks[n].start < chunks[n].end /\ chunks[n].end - chunks[n].start <= chunker.max
  /\ \A n \in DOMAIN chunks : n > 1 =>
       /\ chunks[n - 1].start < chunks[n].start /\ chunks[n - 1].end < chunks[n].end
       /\ chunks[n].start = chunks[n - 1].end -
            IF \E s \in DOMAIN sections : sections[s].end = chunks[n - 1].end
            THEN 0 ELSE chunker.overlap
  /\ phase = "done" /\ document.length > 0 =>
       chunks # <<>> /\ chunks[Len(chunks)].end = document.length

\* A window is cut inside a sentence only if no sentence ends within reach of the
\* full window where a cut would let the next window advance.
SnapsToSentence ==
  chunker.kind = "markdown" /\ chunker.snap > 0 =>
    \A n \in DOMAIN chunks :
      LET chunk == chunks[n]  full == chunk.start + chunker.max IN
      \/ \E s \in DOMAIN sections : sections[s].end = chunk.end
      \/ /\ chunk.end = full \/ chunk.end \in document.sentences
         /\ chunk.end >= full - chunker.snap
         /\ \A p \in document.sentences :
              p > chunk.end \/ chunk.end \notin document.sentences =>
                ~(/\ p <= full /\ p >= full - chunker.snap
                  /\ p > chunk.start + chunker.overlap)

\* The comment on MarkdownHeading: a section is kept whole when it fits the maximum.
SectionsKeptWhole ==
  chunker.kind = "markdown-heading" /\ phase = "done" =>
    LET raw == SectionsFrom(starts) IN
    \A n \in DOMAIN raw :
      raw[n].end - raw[n].start <= chunker.max =>
        \E c \in DOMAIN chunks :
          chunks[c].start <= raw[n].start /\ raw[n].end <= chunks[c].end

=============================================================================
