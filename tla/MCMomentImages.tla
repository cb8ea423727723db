--------------------------- MODULE MCMomentImages ---------------------------
(***************************************************************************)
(* Small instances of the publication of a moment's pictures: see the      *)
(* configurations MCMomentImages*.cfg.                                     *)
(***************************************************************************)
EXTENDS MomentImages
=============================================================================
