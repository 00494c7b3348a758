------------------------------ MODULE MCChunking ------------------------------
(* Every document of up to four of seven lines: a heading, text with and   *)
(* without a sentence inside, an empty line, and fences of either marker,  *)
(* of two lengths, bare or not.                                            *)
EXTENDS Statistics

\* runes, what the line is, and the positions in it after which a sentence ends.
Shape(runes, heading, run, mark, isBare, ends) ==
  [runes |-> runes, heading |-> heading, fence |-> run, marker |-> mark, bare |-> isBare,
   ends |-> ends]

Shapes ==
  {Shape(2, TRUE, 0, "none", FALSE, {2}),         \* "#"
   Shape(6, FALSE, 0, "none", FALSE, {2, 6}),     \* "a. bc"
   Shape(3, FALSE, 0, "none", FALSE, {3}),        \* "ab"
   Shape(1, FALSE, 0, "none", FALSE, {1}),        \* ""
   Shape(4, FALSE, 3, "backtick", TRUE, {4}),
   Shape(6, FALSE, 4, "backtick", FALSE, {6}),    \* with a language
   Shape(4, FALSE, 3, "tilde", TRUE, {4})}

Runes(shapes) == FoldLeft(LAMBDA total, s : total + s.runes, 0, shapes)

Lines(shapes) ==
  [n \in DOMAIN shapes |->
     LET before == Runes(SubSeq(shapes, 1, n - 1)) IN
     [start |-> before, end |-> before + shapes[n].runes, heading |-> shapes[n].heading,
      fence |-> shapes[n].fence, marker |-> shapes[n].marker, bare |-> shapes[n].bare]]

Written(shapes) ==
  [lines |-> Lines(shapes), length |-> Runes(shapes),
   sentences |-> UNION {{Lines(shapes)[n].start + e : e \in shapes[n].ends}
                          : n \in DOMAIN shapes}]

MCDocuments == {Written(shapes) : shapes \in SeqOf(Shapes, 4)}

Settings(k, maximum, minimum, over, back) ==
  [kind |-> k, max |-> maximum, min |-> minimum, overlap |-> over, snap |-> back]

\* MarkdownHeading with a minimum of 4 merges a heading into what follows.
MCChunkers ==
  {Settings("fixed", 5, 0, 2, 0), Settings("fixed", 5, 0, 0, 0), Settings("fixed", 3, 0, 3, 0), Settings("fixed", 3, 0, 4, 0),
   Settings("markdown", 5, 0, 2, 0), Settings("markdown", 4, 0, 1, 2),
   Settings("markdown", 6, 0, 4, 5), Settings("markdown", 6, 0, 2, -1),
   Settings("markdown-heading", 7, 4, 3, 0), Settings("markdown-heading", 6, 0, 1, 0)}

\* Everything by default, and buckets with a gap and an overlap.
MCOptions ==
  {[buckets |-> <<>>, shortRunes |-> 0, atLimitRunes |-> 0],
   [buckets |-> <<[low |-> 1, high |-> 2], [low |-> 4, high |-> 5], [low |-> 5, high |-> 9]>>,
    shortRunes |-> 5, atLimitRunes |-> 4]}

MCDefaultBuckets == <<[low |-> 0, high |-> 2], [low |-> 3, high |-> 6]>>

=============================================================================
