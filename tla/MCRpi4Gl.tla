------------------------------- MODULE MCRpi4Gl -------------------------------
(* Instances of Rpi4Gl: what the prediction's offset from the edge may be. *)
EXTENDS Rpi4Gl

ExactOrEarly == {0, -1}
Late == {1}
=============================================================================
