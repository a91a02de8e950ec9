--------------------------- MODULE MCProjectCache ---------------------------
(* ProjectCache for TLC: readers are interchangeable.                        *)
EXTENDS ProjectCache, TLC

ReaderSymmetry == Permutations(Readers)
=============================================================================
