------------------------------ MODULE Imx8mpGlue ------------------------------
(***************************************************************************)
(* show() of qzephyr_display_imx8mp.cpp over the GPU driver repository's   *)
(* imx8mp_display: the first call brings the LCDIF up on the buffer (or    *)
(* adopts a running one), later calls write the buffer address and wait    *)
(* for the LCDIF to latch it.  s_latched, which counts the shows that      *)
(* succeeded, is the vsync counter the QPA sees.                           *)
(***************************************************************************)
EXTENDS ScanoutBuffers

VARIABLES
  s_on,       (* imx8mp_display_on has succeeded                           *)
  s_latched,  (* successful shows                                          *)
  call,       (* where show() is                                           *)
  target,     (* the buffer being shown                                    *)
  queued,     (* the address written, not yet latched                      *)
  scan        (* the buffer the panel is reading                           *)

glueVars == <<s_on, s_latched, call, target>>
dispVars == <<queued, scan>>

Call == {"idle", "on", "flip", "latch", "ok", "failed"}

GlueTypeOK ==
  /\ s_on \in BOOLEAN
  /\ s_latched \in Count
  /\ call \in Call
  /\ target \in Buf
  /\ queued \in Buf \cup {NoBuf}
  /\ scan \in Buf \cup {NoBuf}

GlueInit ==
  /\ s_on = FALSE
  /\ s_latched = 0
  /\ call = "idle"
  /\ target = 0
  /\ queued = NoBuf
  /\ scan = NoBuf

ShowBegin(b) ==
  /\ call = "idle"
  /\ target' = b
  /\ call' = IF s_on THEN "flip" ELSE "on"
  /\ UNCHANGED <<s_on, s_latched, dispVars>>

DisplayOn ==
  /\ call = "on"
  /\ scan' = target
  /\ s_on' = TRUE
  /\ s_latched' = CountSucc(s_latched)
  /\ call' = "ok"
  /\ UNCHANGED <<target, queued>>

(* imx8mp_display_set_fb, first half: the address is written. *)
SetFb ==
  /\ call = "flip"
  /\ queued' = target
  /\ call' = "latch"
  /\ UNCHANGED <<s_on, s_latched, target, scan>>

(* set_fb returning as soon as the address is written. *)
LatchedEarly ==
  /\ call = "latch"
  /\ s_latched' = CountSucc(s_latched)
  /\ call' = "ok"
  /\ UNCHANGED <<s_on, target, dispVars>>

(* imx8mp_display_set_fb, second half: it returns 0 once the LCDIF has     *)
(* latched the address.                                                    *)
Latched ==
  /\ call = "latch"
  /\ queued = NoBuf
  /\ s_latched' = CountSucc(s_latched)
  /\ call' = "ok"
  /\ UNCHANGED <<s_on, target, dispVars>>

(* display_on or set_fb returns an error before it touched the display. *)
DriverFails ==
  /\ call \in {"on", "flip"}
  /\ call' = "failed"
  /\ UNCHANGED <<s_on, s_latched, target, dispVars>>

(* set_fb gives up waiting; the address stays written. *)
LatchTimeout ==
  /\ call = "latch"
  /\ queued # NoBuf
  /\ call' = "failed"
  /\ UNCHANGED <<s_on, s_latched, target, dispVars>>

ShowReturned ==
  /\ call \in {"ok", "failed"}
  /\ call' = "idle"
  /\ UNCHANGED <<s_on, s_latched, target, dispVars>>

(* The LCDIF starts a refresh. *)
Refresh ==
  /\ queued # NoBuf
  /\ scan' = queued
  /\ queued' = NoBuf
  /\ UNCHANGED glueVars

=============================================================================
