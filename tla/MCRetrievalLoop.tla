--------------------------- MODULE MCRetrievalLoop ---------------------------
(* A corpus of up to four documents: two that fit the budget together, one   *)
(* that fits it alone and one that is too large to be read at all.           *)
EXTENDS RetrievalLoop
CONSTANTS m1, m2, m3, m4

MCMemories == {m1, m2, m3, m4}

MCSize == [m \in MCMemories |->
             CASE m = m1 -> 1 [] m = m2 -> 2 [] m = m3 -> 3 [] m = m4 -> 5]
=============================================================================
