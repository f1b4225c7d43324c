----------------------------- MODULE MCRpi4Raster -----------------------------
(* An instance of Rpi4Raster: the raster path does not use the counter, so *)
(* one exact offset is enough.                                             *)
EXTENDS Rpi4Raster

Exact == {0}
=============================================================================
