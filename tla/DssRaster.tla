------------------------------ MODULE DssRaster ------------------------------
(***************************************************************************)
(* QPainter frames on the AM62P: qzephyr_display_write copies a flush into *)
(* scan-out buffer s_raster_next and flips to it; s_raster_next moves on   *)
(* only when the flip succeeded.  The guards on the rectangle and on the   *)
(* pixel size return before any state changes and are left out: a flush    *)
(* here is one that passes them.                                           *)
(***************************************************************************)
EXTENDS DssGlue

VARIABLES
  s_raster_next,  (* the buffer the next flush is copied into              *)
  copying         (* the buffer a flush is copying into, as a set          *)

vars == <<glueVars, dispVars, s_raster_next, copying>>

TypeOK ==
  /\ GlueTypeOK
  /\ s_raster_next \in Buf
  /\ copying \in {{}, {s_raster_next}}

Init ==
  /\ GlueInit
  /\ s_raster_next = 0
  /\ copying = {}

(* QZephyrBackingStore::flush calls qzephyr_display_write: the copy starts. *)
Flush ==
  /\ call = "idle"
  /\ copying = {}
  /\ copying' = {s_raster_next}
  /\ UNCHANGED <<glueVars, dispVars, s_raster_next>>

(* The copy is complete and cleaned to memory; show(s_raster_next). *)
Copied ==
  /\ copying # {}
  /\ copying' = {}
  /\ ShowBegin(s_raster_next)
  /\ UNCHANGED s_raster_next

ShowStep ==
  /\ OutputEnable \/ SetAppBuffer \/ EnableAppPlane \/ DriverFails
  /\ UNCHANGED <<s_raster_next, copying>>

(* Moves on whatever show() returned. *)
FlushedAlways ==
  /\ ShowReturned
  /\ s_raster_next' = NextBuf(s_raster_next)
  /\ UNCHANGED copying

Flushed ==
  /\ ShowReturned
  /\ s_raster_next' = IF call = "ok" THEN NextBuf(s_raster_next) ELSE s_raster_next
  /\ UNCHANGED copying

Sync == Vsync /\ UNCHANGED <<s_raster_next, copying>>

Write == Copied \/ ShowStep \/ Flushed

(* The caller flushes at most once per refresh: a flush starts only when   *)
(* the panel has latched the previous flip.  Nothing in the glue enforces  *)
(* this.                                                                   *)
PacedFlush == ~go /\ Flush

PacedNext == PacedFlush \/ Write \/ Sync

PacedSpec == Init /\ [][PacedNext]_vars

-----------------------------------------------------------------------------
(* Between flushes the raster path is one ahead of the panel: once the     *)
(* plane is on and the last flip is latched, the panel shows the last      *)
(* buffer whose flip succeeded, the one just before the buffer the next    *)
(* flush goes to, whatever failed in between.                              *)
OneBehind ==
  call = "idle" /\ s_plane_on /\ ~go => scan # NoBuf /\ NextBuf(scan) = s_raster_next

=============================================================================
