-------------------------- MODULE MCSharedLayers --------------------------
(* One course, at the end of a root's branch of two, and a second root.    *)
EXTENDS SharedLayers

CONSTANTS c1, r, q, a, b

MCTree == (r :> Top) @@ (q :> Top) @@ (a :> r) @@ (b :> a)
MCHome == (c1 :> b)
MCAsks == {{c1}, {a}, {b}}
=============================================================================
