---------------------------- MODULE MCRasterImage ----------------------------
(* An instance of RasterImage: the raster path does not use the predicted  *)
(* counter, so one exact offset is enough.                                 *)
EXTENDS RasterImage

Exact == {0}
=============================================================================
