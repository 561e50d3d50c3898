---------------------------- MODULE MCTextPipeline ----------------------------
(* Instances of TextPipeline for TLC.                                      *)
EXTENDS TextPipeline, SequencesExt

W == TRUE
S == FALSE
Shapes == {<<W>>, <<S, W>>, <<W, S, W, W, W>>, <<S>>}
Lines == {[words |-> w, lineStart |-> s, page |-> p] : w \in Shapes, s \in BOOLEAN, p \in BOOLEAN}
\* The first segment starts a line.
Parts == {<<a>> : a \in {l \in Lines : l.lineStart}}
           \cup {<<a, b, c>> : a \in {l \in Lines : l.lineStart}, b, c \in Lines}
Upto(s, i) == FlattenSeq([j \in 1..i |-> s[j].words])
MCSources ==
  {[words |-> Upto(s, Len(s)),
    segs |-> [i \in DOMAIN s |-> [end |-> Len(Upto(s, i)), lineStart |-> s[i].lineStart, page |-> s[i].page]]] :
     s \in Parts}

Config(size, overlap, min, bounds) ==
  [chunk_size |-> size, chunk_overlap |-> overlap, min_chunk_size |-> min,
   respect_boundaries |-> bounds]
MCConfigs ==
  {Config(4, 0, 1, TRUE), Config(4, 2, 2, TRUE), Config(5, 1, 3, TRUE), Config(6, 2, 3, FALSE),
   Config(3, 7, 9, TRUE), Config(0, 1, 0, TRUE), Config(8, -1, 2, TRUE)}

=============================================================================
