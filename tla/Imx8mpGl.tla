------------------------------- MODULE Imx8mpGl -------------------------------
(***************************************************************************)
(* OpenGL frames on the i.MX8M Plus: the QPA's swap chain over the LCDIF   *)
(* glue.  qzephyr_gl_wait_vsync does nothing: show() has already waited.   *)
(***************************************************************************)
EXTENDS Imx8mpGlue, SwapChain

vars == <<glueVars, dispVars, swapVars>>

TypeOK == GlueTypeOK /\ SwapTypeOK

Init == GlueInit /\ SwapInit

-----------------------------------------------------------------------------
Swap         == SwapBegin /\ UNCHANGED <<glueVars, dispVars>>
SwapSubmit   == Submit /\ UNCHANGED <<glueVars, dispVars>>
SwapComplete == Completed /\ UNCHANGED <<glueVars, dispVars>>
IdlePresent  == FenceSignalled /\ UNCHANGED <<glueVars, dispVars>>

(* A glue that waited for the stamp like the other two would stop here:    *)
(* the count only moves with the flips.                                    *)
WaitVsyncForCount ==
  /\ Reached(s_latched, stamp[cur])
  /\ WaitReturned
  /\ UNCHANGED <<glueVars, dispVars>>

(* qzephyr_gl_wait_vsync(stamp[cur]): returns at once, whatever the count. *)
WaitVsync == WaitReturned /\ UNCHANGED <<glueVars, dispVars>>

Present ==
  /\ pc = "present"
  /\ ShowBegin(pending)
  /\ UNCHANGED swapVars

(* qzephyr_gl_present returns nothing, and the QPA reads the count. *)
Presented == ShowReturned /\ Released(s_latched)

ShowStep == (DisplayOn \/ SetFb \/ Latched) /\ UNCHANGED swapVars

Gpu  == (\E b \in Buf : GpuDone(b)) /\ UNCHANGED <<glueVars, dispVars>>
Sync == Refresh /\ UNCHANGED swapVars

ShowFails == (DriverFails \/ LatchTimeout) /\ UNCHANGED swapVars

-----------------------------------------------------------------------------
Render ==
  \/ WaitVsync \/ SwapSubmit \/ SwapComplete \/ Present \/ ShowStep \/ Presented

Next == Swap \/ IdlePresent \/ Render \/ Gpu \/ Sync \/ ShowFails

Spec == Init /\ [][Next]_vars

=============================================================================
