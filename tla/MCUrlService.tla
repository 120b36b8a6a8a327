--------------------------- MODULE MCUrlService ---------------------------
(***************************************************************************)
(* UrlService for TLC: two codes that differ in case only, and a third.    *)
(***************************************************************************)
EXTENDS UrlService, TLC

CONSTANTS ab, aB, cd

CaseFold == [c \in Codes |-> IF c = aB THEN ab ELSE c]
Symmetry == Permutations(Threads) \cup Permutations(Urls)
=============================================================================
