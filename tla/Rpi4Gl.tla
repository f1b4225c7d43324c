-------------------------------- MODULE Rpi4Gl --------------------------------
(***************************************************************************)
(* OpenGL frames on the Raspberry Pi 4: the QPA's swap chain over pans and *)
(* a predicted vsync counter.  The first frame is drawn into the cleared   *)
(* buffer 0 the firmware already shows; from the first present on the      *)
(* rules below apply.                                                      *)
(***************************************************************************)
EXTENDS Rpi4Glue, SwapChain

vars == <<glueVars, dispVars, swapVars>>

TypeOK == GlueTypeOK /\ SwapTypeOK

Init == GlueInit /\ SwapInit

-----------------------------------------------------------------------------
Swap         == SwapBegin /\ UNCHANGED <<glueVars, dispVars>>
SwapSubmit   == Submit /\ UNCHANGED <<glueVars, dispVars>>
SwapComplete == Completed /\ UNCHANGED <<glueVars, dispVars>>
IdlePresent  == FenceSignalled /\ UNCHANGED <<glueVars, dispVars>>

(* Returns without sleeping to the edge.                                   *)
WaitVsyncNot ==
  /\ WaitReturned
  /\ UNCHANGED <<glueVars, dispVars>>

(* qzephyr_gl_wait_vsync(stamp[cur]): sleeps until the predicted counter   *)
(* has reached the stamp; there is no other way out of it.                 *)
WaitVsync ==
  /\ Reached(counter, stamp[cur])
  /\ WaitReturned
  /\ UNCHANGED <<glueVars, dispVars>>

Present ==
  /\ pc = "present"
  /\ ShowBegin(pending)
  /\ UNCHANGED swapVars

ShowStep  == Pan /\ UNCHANGED swapVars
ShowFails == PanFails /\ UNCHANGED swapVars

Presented == ShowReturned /\ Released(counter)

Gpu  == (\E b \in Buf : GpuDone(b)) /\ UNCHANGED <<glueVars, dispVars>>
Time == Tick /\ UNCHANGED swapVars

Render ==
  \/ WaitVsync \/ SwapSubmit \/ SwapComplete \/ Present \/ ShowStep \/ Presented

Next == Swap \/ IdlePresent \/ Render \/ Gpu \/ Time

Spec == Init /\ [][Next]_vars

-----------------------------------------------------------------------------
(* The header of the glue: "a predicted edge that differs from the real    *)
(* one by d hands a buffer back up to d too early".  When the GPU writes   *)
(* the buffer the panel reads, the panel leaves it within d.  With d = 0   *)
(* it never happens.                                                       *)
HandedBackAtMostDEarly ==
  qshown # NoBuf /\ scan \in rendering =>
    /\ queued # NoBuf
    /\ Period - phase <= (IF offset < 0 THEN -offset ELSE offset)

=============================================================================
