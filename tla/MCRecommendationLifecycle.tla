--------------------- MODULE MCRecommendationLifecycle ----------------------
(* Instances of RecommendationLifecycle for TLC: the cfg files choose the  *)
(* number of rows and the reviewer's mode; Ttl = 2 separates a fresh row,  *)
(* one at its last second (the sweep expires it, the operator may still    *)
(* launch it) and an old one.                                              *)
EXTENDS RecommendationLifecycle
=============================================================================
