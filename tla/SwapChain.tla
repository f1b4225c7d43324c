------------------------------ MODULE SwapChain ------------------------------
(***************************************************************************)
(* The qzephyr QPA's swap chain: one EGL surface per scan-out buffer.  Its *)
(* code is in the qtbase submodule (qzephyrwindow.cpp), which is not in    *)
(* this repository; the model follows what the glues say of their caller   *)
(* and docs/qt-yakogl-am62p.md, "Swap chain": per swap, wait until the     *)
(* display has left the buffer about to be rendered into, eglSwapBuffers   *)
(* (returns when the previous frame completes), present the previous       *)
(* frame, mark the submitted one pending, rotate.  A fence polled from the *)
(* event loop presents the last frame of a scene that stops.  A buffer     *)
(* flipped away is stamped with the vsync counter + 1.                     *)
(*                                                                         *)
(* One thread runs all of it (ThreadedOpenGL is false).  The steps that    *)
(* call the glue are completed by the modules that EXTEND this one.        *)
(***************************************************************************)
EXTENDS ScanoutBuffers

ASSUME RingAssumption == NBuf >= 3

VARIABLES
  pc,        (* what the render thread is doing                            *)
  swapping,  (* inside a swap, as opposed to the event loop                *)
  cur,       (* the buffer the CPU is recording a frame for                *)
  pending,   (* submitted, not presented                                   *)
  qshown,    (* the buffer the QPA believes is on screen                   *)
  stamp,     (* buffer -> the counter from which it may be rendered again  *)
  rendering  (* the buffers the GPU still writes                           *)

swapVars == <<pc, swapping, cur, pending, qshown, stamp, rendering>>

PC == {"record", "wait", "submit", "complete", "present"}

SwapTypeOK ==
  /\ pc \in PC
  /\ swapping \in BOOLEAN
  /\ cur \in Buf
  /\ pending \in Buf \cup {NoBuf}
  /\ qshown \in Buf \cup {NoBuf}
  /\ stamp \in [Buf -> Count]
  /\ rendering \subseteq Buf

SwapInit ==
  /\ pc = "record"
  /\ swapping = FALSE
  /\ cur = 0
  /\ pending = NoBuf
  /\ qshown = NoBuf
  /\ stamp = [b \in Buf |-> 0]
  /\ rendering = {}

(* The application swaps: qzephyr_gl_wait_vsync(stamp[cur]) is called.     *)
SwapBegin ==
  /\ pc = "record"
  /\ pc' = "wait"
  /\ swapping' = TRUE
  /\ UNCHANGED <<cur, pending, qshown, stamp, rendering>>

(* qzephyr_gl_wait_vsync has returned. *)
WaitReturned ==
  /\ pc = "wait"
  /\ pc' = "submit"
  /\ UNCHANGED <<swapping, cur, pending, qshown, stamp, rendering>>

Rotate ==
  /\ pending' = cur
  /\ cur' = NextBuf(cur)

(* eglSwapBuffers hands cur to the GPU; with nothing pending there is no   *)
(* previous frame to wait for or to present.                               *)
Submit ==
  /\ pc = "submit"
  /\ rendering' = rendering \cup {cur}
  /\ IF pending = NoBuf
       THEN pc' = "record" /\ swapping' = FALSE /\ Rotate
       ELSE pc' = "complete" /\ UNCHANGED <<swapping, cur, pending>>
  /\ UNCHANGED <<qshown, stamp>>

(* eglSwapBuffers returns: the previous frame is complete. *)
Completed ==
  /\ pc = "complete"
  /\ pending \notin rendering
  /\ pc' = "present"
  /\ UNCHANGED <<swapping, cur, pending, qshown, stamp, rendering>>

(* The event loop's fence poll finds the last submitted frame complete.    *)
FenceSignalled ==
  /\ pc = "record"
  /\ pending # NoBuf
  /\ pending \notin rendering
  /\ pc' = "present"
  /\ UNCHANGED <<swapping, cur, pending, qshown, stamp, rendering>>

(* qzephyr_gl_present(pending) has returned (it returns nothing): the      *)
(* buffer it replaces is stamped with the counter + 1, and the swap ends.  *)
Released(count) ==
  /\ pc = "present"
  /\ stamp' = [b \in Buf |-> IF b = qshown THEN CountSucc(count) ELSE stamp[b]]
  /\ qshown' = pending
  /\ pc' = "record"
  /\ swapping' = FALSE
  /\ IF swapping THEN Rotate ELSE pending' = NoBuf /\ UNCHANGED cur
  /\ UNCHANGED rendering

(* The GPU finishes a frame; it works in submission order. *)
GpuDone(b) ==
  /\ b \in rendering
  /\ b # pending => pending \notin rendering
  /\ rendering' = rendering \ {b}
  /\ UNCHANGED <<pc, swapping, cur, pending, qshown, stamp>>

=============================================================================
