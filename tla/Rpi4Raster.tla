------------------------------ MODULE Rpi4Raster ------------------------------
(***************************************************************************)
(* QPainter frames on the Raspberry Pi 4 (qzephyr_display_write): the      *)
(* frame is copied into the buffer after s_shown and panned to at once.  A *)
(* flush that fails the guards (before init, wrong pixel size, outside the *)
(* screen) changes nothing and is left out.                                *)
(***************************************************************************)
EXTENDS Rpi4Glue

VARIABLE copying   (* the buffer a flush is copying into, as a set *)

vars == <<glueVars, dispVars, copying>>

TypeOK ==
  /\ GlueTypeOK
  /\ \E b \in Buf : copying \in {{}, {b}}

Init == GlueInit /\ copying = {}

(* The buffer on screen itself.                                            *)
TargetShown == s_shown

(* The remainder forgotten. *)
TargetUnwrapped == s_shown + 1

Target == IF NBuf > 1 THEN (s_shown + 1) % NBuf ELSE 0

Flush ==
  /\ call = "idle"
  /\ copying = {}
  /\ copying' = {Target}
  /\ UNCHANGED <<glueVars, dispVars>>

(* The copy is done: show(target). *)
Copied ==
  /\ copying # {}
  /\ copying' = {}
  /\ \E b \in copying : ShowBegin(b)

ShowStep == (Pan \/ PanFails) /\ UNCHANGED copying

Flushed == ShowReturned /\ UNCHANGED copying
Time    == Tick /\ UNCHANGED copying

Write == Copied \/ ShowStep \/ Flushed

(* Flushes as fast as the caller makes them: nothing waits for an edge. *)
Next == Flush \/ Write \/ Time
Spec == Init /\ [][Next]_vars

(* The caller flushes at most once per refresh. *)
PacedFlush == queued = NoBuf /\ Flush
PacedNext  == PacedFlush \/ Write \/ Time
PacedSpec  == Init /\ [][PacedNext]_vars

-----------------------------------------------------------------------------
(* The header of the glue: qzephyr_display_write "copies the frame into    *)
(* the buffer that is not on screen, then flips".                          *)
CopiesOffScreen == scan \notin copying

(* While no flip is under way s_shown is the buffer being read, whichever  *)
(* pans failed before: what CopiesOffScreen rests on.                      *)
ShownIsScanned == queued = NoBuf => s_shown = scan

=============================================================================
