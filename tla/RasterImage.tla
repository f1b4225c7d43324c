----------------------------- MODULE RasterImage -----------------------------
(***************************************************************************)
(* A firmware image that draws with QPainter: the zephyr module is built   *)
(* with one of the three display glues, and its raster path runs.  Flush   *)
(* is the code: nothing in it waits for the panel.  Spec has a caller that *)
(* flushes at most once per refresh on the AM62P and the Raspberry Pi 4    *)
(* (PacedFlush); the i.MX8MP's flip paces itself.  What the other glues    *)
(* keep is constant.                                                       *)
(***************************************************************************)
EXTENDS Rpi4Glue

VARIABLES
  board,          (* the glue the image was built with                     *)
  s_raster_next,  (* AM62P, i.MX8MP: the buffer the next flush goes to     *)
  copying,        (* the buffer a flush is copying into, as a set          *)
  s_plane_on, out, shBuf, shOn, go, vsyncs,                    (* AM62P    *)
  s_on, s_latched                                              (* i.MX8MP  *)

Dss == INSTANCE DssRaster
Imx == INSTANCE Imx8mpRaster
Rpi == INSTANCE Rpi4Raster

dssOnly == <<s_plane_on, out, shBuf, shOn, go, vsyncs>>
imxOnly == <<s_on, s_latched>>
rpiOnly == <<s_shown, phase, counter, offset>>

vars == <<board, call, target, scan, queued, copying, s_raster_next,
          dssOnly, imxOnly, rpiOnly>>

Board == {"dss", "imx8mp", "rpi4"}

TypeOK ==
  /\ board \in Board
  /\ board = "dss"    => Dss!TypeOK
  /\ board = "imx8mp" => Imx!TypeOK
  /\ board = "rpi4"   => Rpi!TypeOK

DssOff ==
  /\ s_plane_on = FALSE /\ out = FALSE /\ shBuf = NoBuf
  /\ shOn = FALSE /\ go = FALSE /\ vsyncs = 0
ImxOff == s_on = FALSE /\ s_latched = 0
RpiOff == s_shown = 0 /\ phase = 0 /\ counter = 0 /\ offset = 0

Init ==
  \/ board = "dss"    /\ Dss!Init /\ ImxOff /\ RpiOff /\ queued = NoBuf
  \/ board = "imx8mp" /\ Imx!Init /\ DssOff /\ RpiOff
  \/ board = "rpi4"   /\ Rpi!Init /\ DssOff /\ ImxOff /\ s_raster_next = 0

OnDss == board = "dss"    /\ UNCHANGED <<board, imxOnly, rpiOnly, queued>>
OnImx == board = "imx8mp" /\ UNCHANGED <<board, dssOnly, rpiOnly>>
OnRpi == board = "rpi4"   /\ UNCHANGED <<board, dssOnly, imxOnly, s_raster_next>>

-----------------------------------------------------------------------------
Flush ==
  \/ Dss!Flush /\ OnDss
  \/ Imx!Flush /\ OnImx
  \/ Rpi!Flush /\ OnRpi

PacedFlush ==
  \/ Dss!PacedFlush /\ OnDss
  \/ Imx!Flush      /\ OnImx
  \/ Rpi!PacedFlush /\ OnRpi

Write ==
  \/ Dss!Write /\ OnDss
  \/ Imx!Write /\ OnImx
  \/ Rpi!Write /\ OnRpi

Sync ==
  \/ Dss!Sync /\ OnDss
  \/ Imx!Sync /\ OnImx
  \/ Rpi!Time /\ OnRpi

Next == PacedFlush \/ Write \/ Sync

(* A flush once started runs to its end, and the display keeps going;      *)
(* nothing makes the application flush.                                    *)
Spec == Init /\ [][Next]_vars /\ WF_vars(Write) /\ WF_vars(Sync)

(* Flushes as fast as the caller makes them, on every board. *)
FreeNext == Flush \/ Write \/ Sync

(* What the caller owes the AM62P and the Pi: no flush while the panel has *)
(* yet to latch the previous flip.                                         *)
FlushWaitsForLatch ==
  Flush => (board = "dss" => ~go) /\ (board = "rpi4" => queued = NoBuf)

-----------------------------------------------------------------------------
QueuedFrame == IF board = "dss" THEN Dss!Queued ELSE queued

Contract == INSTANCE ScanoutContract WITH
  queued <- QueuedFrame, writing <- copying

(* On each board every step of the raster path, failed flips included, is  *)
(* a step of the scan-out contract: a flush never copies into the buffer   *)
(* the panel reads or turns to next, with no more than two buffers, given  *)
(* the pacing of Spec.                                                     *)
ImplementsContract == Contract!Spec

(* AM62P, i.MX8MP: the panel and the raster path stay one apart.  While no *)
(* flip is under way the panel shows the last buffer whose flip succeeded, *)
(* the one just before the buffer the next flush goes to, whichever of     *)
(* show()'s driver calls failed in between.                                *)
OneBehind ==
  /\ board = "dss"    => Dss!OneBehind
  /\ board = "imx8mp" => Imx!OneBehind

(* Raspberry Pi 4: while no flip is under way s_shown is the buffer being  *)
(* read, whichever pans failed before; the raster path copies into the     *)
(* buffer after it.                                                        *)
ShownIsScanned == board = "rpi4" => Rpi!ShownIsScanned

(* A flush whose flip succeeded reaches the panel, the very first one on a *)
(* cold display included, also when earlier calls failed half way.         *)
FlushedFrameReachesPanel ==
  \A b \in Buf : (call = "ok" /\ target = b) ~> (scan = b)

=============================================================================
