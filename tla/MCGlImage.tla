------------------------------ MODULE MCGlImage ------------------------------
(* An instance of GlImage: an exact prediction and one that runs ahead.    *)
EXTENDS GlImage

ExactOrEarly == {0, -1}
=============================================================================
