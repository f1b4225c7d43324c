----------------------------- MODULE Imx8mpRaster -----------------------------
(***************************************************************************)
(* QPainter frames on the i.MX8M Plus (qzephyr_display_write): copy into   *)
(* buffer s_raster_next, flip, and move on if the flip latched.  A flush   *)
(* that fails the guards on the rectangle or the pixel size changes        *)
(* nothing and is left out.                                                *)
(***************************************************************************)
EXTENDS Imx8mpGlue

VARIABLES
  s_raster_next,  (* the buffer the next flush is copied into              *)
  copying         (* the buffer a flush is copying into, as a set          *)

vars == <<glueVars, dispVars, s_raster_next, copying>>

TypeOK ==
  /\ GlueTypeOK
  /\ s_raster_next \in Buf
  /\ copying \in {{}, {s_raster_next}}

Init ==
  /\ GlueInit
  /\ s_raster_next = 0
  /\ copying = {}

Flush ==
  /\ call = "idle"
  /\ copying = {}
  /\ copying' = {s_raster_next}
  /\ UNCHANGED <<glueVars, dispVars, s_raster_next>>

Copied ==
  /\ copying # {}
  /\ copying' = {}
  /\ ShowBegin(s_raster_next)
  /\ UNCHANGED s_raster_next

ShowStep ==
  /\ DisplayOn \/ SetFb \/ Latched \/ DriverFails
  /\ UNCHANGED <<s_raster_next, copying>>

(* Moves on whatever show() returned. *)
FlushedAlways ==
  /\ ShowReturned
  /\ s_raster_next' = NextBuf(s_raster_next)
  /\ UNCHANGED copying

Flushed ==
  /\ ShowReturned
  /\ s_raster_next' = IF call = "ok" THEN NextBuf(s_raster_next) ELSE s_raster_next
  /\ UNCHANGED copying

Sync == Refresh /\ UNCHANGED <<s_raster_next, copying>>

Write == Copied \/ ShowStep \/ Flushed

(* No pacing: the caller may flush as fast as it likes.                    *)
Next == Flush \/ Write \/ Sync

Spec == Init /\ [][Next]_vars

-----------------------------------------------------------------------------
(* The panel and the raster path stay one apart: while no flip is under    *)
(* way the panel shows the last buffer whose flip succeeded, the one just  *)
(* before the buffer the next flush goes to.                               *)
OneBehind ==
  call = "idle" /\ s_on => scan # NoBuf /\ NextBuf(scan) = s_raster_next

=============================================================================
