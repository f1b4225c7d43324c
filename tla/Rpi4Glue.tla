------------------------------- MODULE Rpi4Glue -------------------------------
(***************************************************************************)
(* show() of qzephyr_display_rpi4_v3d.cpp over the firmware framebuffer: a *)
(* flip is a pan (SET_VIRTUAL_OFFSET) that takes effect at the display's   *)
(* next edge.  Here is also the counter of qzephyr_gl_vsync_count, as what *)
(* vsync_now() comes to: a prediction, Offset ticks away from the edges    *)
(* the display makes (Rpi4Vsync has the arithmetic behind it).  Time is    *)
(* counted in ticks, Period of them to a refresh.                          *)
(***************************************************************************)
EXTENDS ScanoutBuffers

CONSTANTS
  Period,   (* ticks from one edge of the display to the next              *)
  Offsets   (* how far behind (positive) or ahead of (negative) its edge   *)
            (* the prediction may be                                       *)

ASSUME PeriodAssumption ==
  /\ Period \in Nat \ {0}
  /\ \A d \in Offsets : d \in -Period .. Period /\ 2 * d \in -Period .. Period

VARIABLES
  s_shown,  (* "the buffer on screen (or about to be)"                     *)
  call,     (* show(): about to pan, or its result                         *)
  target,   (* the buffer being shown                                      *)
  queued,   (* the pan the next edge turns to                              *)
  scan,     (* the buffer the panel is reading                             *)
  phase,    (* ticks since the display's last edge                         *)
  counter,  (* vsync_now()                                                 *)
  offset    (* the prediction's offset, fixed                              *)

glueVars == <<s_shown, call, target>>
dispVars == <<queued, scan, phase, counter, offset>>

GlueTypeOK ==
  /\ s_shown \in Buf
  /\ call \in {"idle", "pan", "ok", "failed"}
  /\ target \in Buf
  /\ queued \in Buf \cup {NoBuf}
  /\ scan \in Buf
  /\ phase \in 0 .. Period - 1
  /\ counter \in Count
  /\ offset \in Offsets

(* After init(): the firmware shows row 0, which is buffer 0, cleared. *)
GlueInit ==
  /\ s_shown = 0
  /\ call = "idle"
  /\ target = 0
  /\ queued = NoBuf
  /\ scan = 0
  /\ phase = 0
  /\ counter = 0
  /\ offset \in Offsets

ShowBegin(b) ==
  /\ call = "idle"
  /\ target' = b
  /\ call' = "pan"
  /\ UNCHANGED <<s_shown, dispVars>>

(* s_shown moved before the pan is known to be accepted. *)
PanFailsButNoted ==
  /\ call = "pan"
  /\ s_shown' = target
  /\ call' = "failed"
  /\ UNCHANGED <<target, dispVars>>

(* The pan is accepted, and s_shown names the buffer. *)
Pan ==
  /\ call = "pan"
  /\ queued' = target
  /\ s_shown' = target
  /\ call' = "ok"
  /\ UNCHANGED <<target, scan, phase, counter, offset>>

(* The mailbox refuses; s_shown stays. *)
PanFails ==
  /\ call = "pan"
  /\ call' = "failed"
  /\ UNCHANGED <<s_shown, target, dispVars>>

ShowReturned ==
  /\ call \in {"ok", "failed"}
  /\ call' = "idle"
  /\ UNCHANGED <<s_shown, target, dispVars>>

(* A counter that counts the flips the display took, as the i.MX8MP's.     *)
TickCountsFlips ==
  LET next == (phase + 1) % Period IN
  /\ phase' = next
  /\ IF next = 0 /\ queued # NoBuf
       THEN scan' = queued /\ queued' = NoBuf /\ counter' = CountSucc(counter)
       ELSE UNCHANGED <<scan, queued, counter>>
  /\ UNCHANGED <<glueVars, offset>>

(* Time passes: the display's edge latches the pan, the predicted one      *)
(* counts.                                                                 *)
Tick ==
  LET next == (phase + 1) % Period IN
  /\ phase' = next
  /\ IF next = 0 /\ queued # NoBuf
       THEN scan' = queued /\ queued' = NoBuf
       ELSE UNCHANGED <<scan, queued>>
  /\ counter' = IF next = (offset % Period) THEN CountSucc(counter) ELSE counter
  /\ UNCHANGED <<glueVars, offset>>

=============================================================================
