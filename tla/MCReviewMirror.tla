--------------------------- MODULE MCReviewMirror ---------------------------
(* Instances of ReviewMirror for TLC. *)
EXTENDS ReviewMirror
=============================================================================
