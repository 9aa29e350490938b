------------------------ MODULE MCObservationReader ------------------------
(* Values of the constants of ObservationReader for TLC: files of every type, *)
(* whole, short, without a last newline, with a record that is bad.           *)
EXTENDS ObservationReader

CONSTANTS a, b, c, d, e, w, bad, odd, masked, r1, r2

\* w is observation a with a weight.
MCKindOf == [i \in {a, b, c, d, e, w} |->
               CASE i \in {a, b, w} -> "r3" [] i = c -> "r3xs2p"
                 [] i = d -> "se3" [] i = e -> "r3xs2"]
MCBare == [i \in {a, b, c, d, e, w} |-> IF i = w THEN a ELSE i]
MCCovers == [r \in {r1, r2} |-> IF r = r1 THEN {a, w} ELSE {b, c}]
MCBatch == {<<w, b>>, <<d>>, <<e>>}

Other(types, count, recs, eol) ==
  [types |-> types, count |-> count, recs |-> recs, eol |-> eol, of |-> None]

OfPoints == {Other({t}, 2, s, TRUE) : t \in {"CRD", "TXT", "NUKLEI"} \union Counted,
               s \in {<<a, b>>, <<bad, a>>, <<b>>}}
            \union {Other({t}, 2, <<b>>, FALSE) : t \in {"CRD", "TXT"} \union Counted}
\* The points of these may be followed by faces.
WithFaces == {Other({t}, 1, <<a, b>>, TRUE) : t \in Counted}
OfKernels == {Other({t}, 2, s, TRUE) : t \in {"TXT", "NUKLEI"}, s \in {<<a, c>>, <<c, d>>}}
             \union {Other({"NUKLEI"}, 2, <<a, odd>>, TRUE)}
OfGrids == {Other({t}, 3, s, TRUE) : t \in Grids, s \in {<<a, masked, b>>, <<b>>}}
           \union {Other({t}, 1, <<b>>, FALSE) : t \in Grids}
OfArchives == {Other({t}, 2, s, TRUE) : t \in Archives, s \in {<<a, b>>, <<b, bad>>}}
MCFile == OfPoints \union WithFaces \union OfKernels \union OfGrids \union OfArchives
          \union {Other({}, 1, <<a>>, TRUE)}
=============================================================================
