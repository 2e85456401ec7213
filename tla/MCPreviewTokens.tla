--------------------------- MODULE MCPreviewTokens ---------------------------
(* Instances of PreviewTokens for TLC. *)
EXTENDS PreviewTokens, TLC

Alike == Permutations(Request)
==============================================================================
