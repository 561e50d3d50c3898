------------------------------ MODULE TextPipeline ------------------------------
(* From a document's text to its vectors: iter_text_chunks of                   *)
(* documents/chunking.py, and for each chunk _embed_with_splitting of           *)
(* inference/lifecycle.py.  A token stands for a character of the chunk.        *)
EXTENDS Integers, Sequences, FiniteSets

CONSTANTS
  Sources,      \* texts [words, segs]: words tells for each token whether it is
                \* a word or a space, segs has the segments [end, lineStart, page]:
                \* the number of its last token, and the mark of the next page
  Configs,      \* [chunk_size, chunk_overlap, min_chunk_size, respect_boundaries]
  Capacity,     \* tokens the embedding runtime takes
  MaxDepth      \* 12 in the code

\* The segments of a text follow each other and are the whole text.
ASSUME SourcesAssumption == \A s \in Sources :
  /\ s.words \in Seq(BOOLEAN)
  /\ s.segs \in Seq([end : Nat, lineStart : BOOLEAN, page : BOOLEAN]) \ {<<>>}
  /\ \A i, j \in DOMAIN s.segs : i <= j => s.segs[i].end <= s.segs[j].end
  /\ s.segs[Len(s.segs)].end = Len(s.words)
ASSUME ConfigsAssumption == Configs \subseteq
  [chunk_size : Int, chunk_overlap : Int, min_chunk_size : Int, respect_boundaries : BOOLEAN]
ASSUME PipelineAssumption == Capacity \in Nat \ {0} /\ MaxDepth \in Nat

VARIABLES text, config, seg, read, current, fresh, pages, chunks, work, embedded, pc, next

textVars == <<text, config, seg, read, current, fresh, pages, chunks, work, embedded, pc, next>>
place == <<text, config, seg, read>>

AtMost(a, b) == IF a < b THEN a ELSE b
AtLeast(a, b) == IF a > b THEN a ELSE b

chunkSize == AtLeast(1, config.chunk_size)
overlapSize == AtMost(AtLeast(0, config.chunk_overlap), AtLeast(0, chunkSize - 1))
minChunkSize == AtMost(AtLeast(1, config.min_chunk_size), chunkSize)

\* A token is known by its place in the text.
IsWord(t) == text.words[t]
Start(i) == IF i = 1 THEN 0 ELSE text.segs[i - 1].end
End(i) == text.segs[i].end

\* A piece of text is the slice between two tokens; str.strip takes off what is
\* not a word at either end.
Slice(from, to) == [from |-> from, to |-> to]
Size(p) == p.to - p.from + 1
Blank(p) == \A t \in p.from..p.to : ~IsWord(t)
Strip(p) ==
  {q \in [from : p.from..p.to, to : p.from..p.to] :
     /\ IsWord(q.from) /\ Blank(Slice(p.from, q.from - 1))
     /\ IsWord(q.to) /\ Blank(Slice(q.to + 1, p.to))}

TextInit ==
  /\ text \in Sources /\ config \in Configs
  /\ seg = 1 /\ read = 0 /\ current = << >> /\ fresh = FALSE
  /\ pages = [start |-> 1, end |-> 1]
  /\ chunks = << >> /\ work = << >> /\ embedded = << >>
  /\ pc = "segment" /\ next = "segment"

-----------------------------------------------------------------------------
(* iter_text_chunks                                                        *)

\* emit_chunk: the last tokens stay for the next chunk; a blank chunk is not
\* yielded, and one that is is embedded before the iteration goes on.
Emit(tokens, then) ==
  /\ current' = SubSeq(tokens, Len(tokens) - AtMost(overlapSize, Len(tokens)) + 1, Len(tokens))
  /\ pages' = [pages EXCEPT !.start = pages.end]
  /\ fresh' = FALSE
  /\ LET content == Slice(tokens[1], tokens[Len(tokens)]) IN
       IF Blank(content)
       THEN UNCHANGED <<chunks, work, embedded>> /\ pc' = then
       ELSE /\ chunks' = Append(chunks, [tokens |-> tokens, start |-> pages.start, end |-> pages.end])
            /\ \E p \in Strip(content) : work' = <<[piece |-> p, depth |-> 0, most |-> Size(p)]>>
            /\ embedded' = << >> /\ pc' = "embed"
  /\ next' = then

\* A line that would not fit ends a chunk that is long enough.
BreaksBefore(i) ==
  /\ config.respect_boundaries /\ text.segs[i].lineStart
  /\ current # << >> /\ Len(current) >= minChunkSize
  /\ Len(current) + (End(i) - Start(i)) > chunkSize

BeginSegment ==
  /\ pc = "segment" /\ seg <= Len(text.segs)
  /\ IF BreaksBefore(seg) THEN Emit(current, "marks")
     ELSE pc' = "marks" /\ UNCHANGED <<current, pages, fresh, chunks, work, embedded, next>>
  /\ UNCHANGED place

\* The first line of a page has its mark.
Marked(i) == text.segs[i].lineStart /\ text.segs[i].page

\* A chunk begins on the new page only if it is empty so far.
StartPage(end) == IF current = << >> THEN end ELSE pages.start

Marks ==
  /\ pc = "marks"
  /\ pages' = IF Marked(seg)
              THEN [start |-> StartPage(pages.end + 1), end |-> pages.end + 1]
              ELSE pages
  /\ pc' = "take"
  /\ UNCHANGED <<text, config, seg, read, current, fresh, chunks, work, embedded, next>>

\* As many tokens as fit; a full chunk is emitted.
Take ==
  /\ pc = "take" /\ read < End(seg)
  /\ LET take == AtMost(chunkSize - Len(current), End(seg) - read)
         tokens == current \o [i \in 1..take |-> read + i] IN
       /\ read' = read + take
       /\ IF Len(tokens) = chunkSize THEN Emit(tokens, "take")
          ELSE /\ current' = tokens /\ fresh' = TRUE
               /\ UNCHANGED <<pages, chunks, work, embedded, pc, next>>
  /\ UNCHANGED <<text, config, seg>>

EndSegment ==
  /\ pc = "take" /\ read = End(seg)
  /\ seg' = seg + 1 /\ pc' = "segment"
  /\ UNCHANGED <<text, config, read, current, fresh, pages, chunks, work, embedded, next>>

\* Mutant: a tail below the minimum is dropped.
TailIsUsefulLong == Len(current) >= minChunkSize /\ fresh

\* "The minimum is a split heuristic, not a reason to discard a useful tail."
TailIsUseful == current # << >> /\ fresh

Finish ==
  /\ pc = "segment" /\ seg > Len(text.segs)
  /\ IF TailIsUseful THEN Emit(current, "done")
     ELSE pc' = "done" /\ UNCHANGED <<current, pages, fresh, chunks, work, embedded, next>>
  /\ UNCHANGED place

-----------------------------------------------------------------------------
(* _embed_with_splitting                                                   *)

Middle(p) == Size(p) \div 2
Lower(p) == AtLeast(1, Size(p) \div 4)
Upper(p) == AtMost(Size(p) - 1, (Size(p) * 3) \div 4)

\* The offsets of the spaces nearest to the middle, before and after it.
Spaces(p) ==
  LET Space(i) == ~IsWord(p.from + i)
      before == {i \in Lower(p)..Middle(p) : Space(i)}
      after == {i \in Middle(p)..(Upper(p) - 1) : Space(i)} IN
    {i \in before : \A j \in before : j <= i} \cup {i \in after : \A j \in after : i <= j}

Distance(p, i) == IF i < Middle(p) THEN Middle(p) - i ELSE i - Middle(p)

\* The nearest of them, the one before on a tie; the middle if there is none.
SplitPoint(p) ==
  IF Spaces(p) = {} THEN {Middle(p)}
  ELSE {i \in Spaces(p) : \A j \in Spaces(p) :
          Distance(p, i) < Distance(p, j) \/ (Distance(p, i) = Distance(p, j) /\ i <= j)}

Before(p, n) == Slice(p.from, p.from + n - 1)

\* Mutant: the token at the split is left out, as if it were always a space.
AfterSpace(p, n) == Slice(p.from + n + 1, p.to)

After(p, n) == Slice(p.from + n, p.to)

\* The stripped halves; the bare ones when a half would be blank.
Halves(p, n) ==
  IF Blank(Before(p, n)) \/ Blank(After(p, n))
  THEN {<<Before(p, Middle(p)), After(p, Middle(p))>>}
  ELSE Strip(Before(p, n)) \X Strip(After(p, n))

Fits(p) == Size(p) <= Capacity

\* The longest half a split leaves: at least a quarter is taken off (history).
Shorter(n) == n - AtLeast(1, n \div 4)

\* A piece is embedded, or split again, or the document fails.
Embed ==
  /\ pc = "embed" /\ work # << >>
  /\ LET w == Head(work) IN
       \/ /\ Fits(w.piece)
          /\ embedded' = Append(embedded, w) /\ work' = Tail(work) /\ pc' = pc
       \/ /\ ~Fits(w.piece) /\ w.depth < MaxDepth /\ Size(w.piece) >= 2
          /\ \E n \in SplitPoint(w.piece) : \E h \in Halves(w.piece, n) :
               work' = [i \in 1..2 |-> [piece |-> h[i], depth |-> w.depth + 1, most |-> Shorter(w.most)]]
                          \o Tail(work)
          /\ UNCHANGED <<embedded, pc>>
       \/ /\ ~Fits(w.piece) /\ (w.depth >= MaxDepth \/ Size(w.piece) < 2)
          /\ pc' = "failed" /\ UNCHANGED <<work, embedded>>
  /\ UNCHANGED <<place, current, fresh, pages, chunks, next>>

Embedded ==
  /\ pc = "embed" /\ work = << >>
  /\ pc' = next
  /\ UNCHANGED <<place, current, fresh, pages, chunks, work, embedded, next>>

TextNext == BeginSegment \/ Marks \/ Take \/ EndSegment \/ Finish \/ Embed \/ Embedded

TextSpec == TextInit /\ [][TextNext]_textVars

-----------------------------------------------------------------------------
(* Properties.                                                             *)

First(c) == c.tokens[1]
Final(c) == c.tokens[Len(c.tokens)]

\* The page of a token: one more than the marks up to its segment.
MarksTo(i) == Cardinality({j \in 1..i : Marked(j)})
PageOf(t) == 1 + MarksTo(CHOOSE i \in DOMAIN text.segs : Start(i) < t /\ t <= End(i))

\* A chunk after the text up to token `old' was emitted: it is a bounded,
\* unbroken part of the text, repeats at most the overlap, leaves out no word,
\* and names the pages of what it adds; with an overlap below the minimum it
\* adds something.
Covers(c, old) ==
  /\ Len(c.tokens) <= chunkSize
  /\ Final(c) - First(c) + 1 = Len(c.tokens)
  /\ First(c) > old - AtMost(overlapSize, old)
  /\ \A t \in (old + 1)..(First(c) - 1) : ~IsWord(t)
  /\ \A t \in AtLeast(First(c), old + 1)..Final(c) : IsWord(t) => PageOf(t) \in c.start..c.end
  /\ overlapSize < minChunkSize => Final(c) > old

\* Every chunk is such a part; when the text is through, every word is in one.
ChunksCover ==
  /\ \A i \in DOMAIN chunks : Covers(chunks[i], IF i = 1 THEN 0 ELSE Final(chunks[i - 1]))
  /\ pc = "done" => \A t \in DOMAIN text.words : IsWord(t) =>
       chunks # << >> /\ t <= Final(chunks[Len(chunks)])

\* The pieces of a chunk, embedded or waiting, are in the order of the text and
\* apart, no word of the chunk is in none of them, and each split takes at least
\* a quarter off the longer side, which bounds the depth.
PiecesCover ==
  pc \in {"embed", "failed"} =>
    LET c == chunks[Len(chunks)]
        pieces == embedded \o work IN
      /\ \A i \in DOMAIN pieces : LET p == pieces[i].piece IN
           /\ p.from <= p.to /\ p.from \in First(c)..Final(c) /\ p.to \in First(c)..Final(c)
           /\ Size(p) <= pieces[i].most
      /\ \A i, j \in DOMAIN pieces : i < j => pieces[i].piece.to < pieces[j].piece.from
      /\ \A t \in First(c)..Final(c) : IsWord(t) =>
           \E i \in DOMAIN pieces : t \in pieces[i].piece.from..pieces[i].piece.to

=============================================================================
