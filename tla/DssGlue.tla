------------------------------- MODULE DssGlue -------------------------------
(***************************************************************************)
(* show() of qzephyr_display_dss.cpp and the part of the AM62P display     *)
(* subsystem (am62p_dss, another repository) it drives: the shadow         *)
(* registers of the application plane, the GO bit that latches them at the *)
(* next vertical sync and that the driver arms only while the video port   *)
(* is enabled, and the vsync counter.  A flip is up to three driver calls, *)
(* with the display running in between.  The device is ready (otherwise    *)
(* query_caps refuses the screen and nothing here runs).                   *)
(***************************************************************************)
EXTENDS ScanoutBuffers

VARIABLES
  s_plane_on,  (* the output and the plane have been enabled               *)
  call,        (* the driver call show() makes next, or its result         *)
  target,      (* the buffer being shown                                   *)
  out,         (* the video port is enabled                                *)
  shBuf,       (* shadow register: the plane's buffer                      *)
  shOn,        (* shadow register: the plane is enabled                    *)
  go,          (* the shadow registers latch at the next sync              *)
  scan,        (* the buffer the panel is reading                          *)
  vsyncs       (* am62p_dss_stats.vsyncs                                   *)

glueVars == <<s_plane_on, call, target>>
dispVars == <<out, shBuf, shOn, go, scan, vsyncs>>

Call == {"idle", "output", "buffer", "plane", "ok", "failed"}

GlueTypeOK ==
  /\ s_plane_on \in BOOLEAN
  /\ call \in Call
  /\ target \in Buf
  /\ out \in BOOLEAN
  /\ shBuf \in Buf \cup {NoBuf}
  /\ shOn \in BOOLEAN
  /\ go \in BOOLEAN
  /\ scan \in Buf \cup {NoBuf}
  /\ vsyncs \in Count

GlueInit ==
  /\ s_plane_on = FALSE
  /\ call = "idle"
  /\ target = 0
  /\ out = FALSE
  /\ shBuf = NoBuf
  /\ shOn = FALSE
  /\ go = FALSE
  /\ scan = NoBuf
  /\ vsyncs = 0

(* The plane configured and enabled before the output: what the comment    *)
(* above show() says left a single frame dark.                             *)
CallAfterOutputLast(c) ==
  CASE c = "idle" -> "buffer"
    [] c = "buffer" -> IF s_plane_on THEN "ok" ELSE "plane"
    [] c = "plane" -> "output"
    [] c = "output" -> "ok"

(* The order of show()'s driver calls.                                     *)
CallAfter(c) ==
  CASE c = "idle" -> IF s_plane_on THEN "buffer" ELSE "output"
    [] c = "output" -> "buffer"
    [] c = "buffer" -> IF s_plane_on THEN "ok" ELSE "plane"
    [] c = "plane" -> "ok"

ShowBegin(b) ==
  /\ call = "idle"
  /\ target' = b
  /\ call' = CallAfter("idle")
  /\ UNCHANGED <<s_plane_on, dispVars>>

OutputEnable ==
  /\ call = "output"
  /\ out' = TRUE
  /\ call' = CallAfter("output")
  /\ UNCHANGED <<s_plane_on, target, shBuf, shOn, go, scan, vsyncs>>

SetAppBuffer ==
  /\ call = "buffer"
  /\ shBuf' = target
  /\ go' = (out \/ go)
  /\ call' = CallAfter("buffer")
  /\ UNCHANGED <<s_plane_on, target, out, shOn, scan, vsyncs>>

EnableAppPlane ==
  /\ call = "plane"
  /\ shOn' = TRUE
  /\ go' = (out \/ go)
  /\ s_plane_on' = TRUE
  /\ call' = CallAfter("plane")
  /\ UNCHANGED <<target, out, shBuf, scan, vsyncs>>

(* A driver call returns an error and leaves the display as it is: show()  *)
(* stops there, and s_plane_on stays FALSE if it was.                      *)
DriverFails ==
  /\ call \in {"output", "buffer", "plane"}
  /\ call' = "failed"
  /\ UNCHANGED <<s_plane_on, target, dispVars>>

(* show() has returned to its caller. *)
ShowReturned ==
  /\ call \in {"ok", "failed"}
  /\ call' = "idle"
  /\ UNCHANGED <<s_plane_on, target, dispVars>>

(* A vertical sync: it counts, and latches what was committed. *)
Vsync ==
  /\ out
  /\ vsyncs' = CountSucc(vsyncs)
  /\ go' = FALSE
  /\ scan' = IF ~go THEN scan ELSE IF shOn THEN shBuf ELSE NoBuf
  /\ UNCHANGED <<out, shBuf, shOn, glueVars>>

(* The frame the next sync will turn to. *)
Queued == IF go /\ shOn THEN shBuf ELSE NoBuf

=============================================================================
