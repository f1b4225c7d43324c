-------------------------------- MODULE DssGl --------------------------------
(***************************************************************************)
(* OpenGL frames on the AM62P: the QPA's swap chain over the DSS glue.     *)
(* qzephyr_gl_present flips and ignores show()'s result;                   *)
(* qzephyr_gl_wait_vsync polls the display's vsync counter every 200 us    *)
(* and gives up after more than GuardPolls polls.                          *)
(***************************************************************************)
EXTENDS DssGlue, SwapChain

CONSTANTS
  GuardPolls,    (* polls before wait_vsync gives up: 500 in the code      *)
  PollsPerSync   (* polls that fit between two syncs of a live display:    *)
                 (* about 85 at 58 Hz                                      *)

ASSUME PollsAssumption ==
  /\ GuardPolls \in Nat
  /\ PollsPerSync \in Nat \ {0}
  /\ GuardPolls > PollsPerSync

VARIABLES
  polls,      (* guard: polls of the current wait                          *)
  sincePolls, (* polls since the last sync                                 *)
  stalled     (* the display has stopped syncing, for good                 *)

vars == <<glueVars, dispVars, swapVars, polls, sincePolls, stalled>>

TypeOK ==
  /\ GlueTypeOK
  /\ SwapTypeOK
  /\ polls \in 0 .. GuardPolls
  /\ sincePolls \in 0 .. PollsPerSync
  /\ stalled \in BOOLEAN

Init ==
  /\ GlueInit
  /\ SwapInit
  /\ polls = 0
  /\ sincePolls = 0
  /\ stalled = FALSE

-----------------------------------------------------------------------------
(* The render thread *)

Swap == SwapBegin /\ UNCHANGED <<glueVars, dispVars, polls, sincePolls, stalled>>

(* wait_vsync returns; its guard is a local. *)
WaitEnds ==
  /\ WaitReturned
  /\ polls' = 0
  /\ UNCHANGED <<glueVars, dispVars, sincePolls, stalled>>

(* wait_vsync without its loop: it returns whatever the counter says. *)
WaitReachedNoLoop == WaitEnds

WaitReached ==
  /\ Reached(vsyncs, stamp[cur])
  /\ WaitEnds

(* The guard counted but not tested. *)
PollUnguarded ==
  /\ pc = "wait"
  /\ ~Reached(vsyncs, stamp[cur])
  /\ polls' = polls + 1
  /\ sincePolls < PollsPerSync
  /\ sincePolls' = sincePolls + 1
  /\ UNCHANGED <<glueVars, dispVars, swapVars, stalled>>

(* One turn of the loop: k_busy_wait(200), ++guard.  Only so many turns    *)
(* fit between two syncs, unless there are none.                           *)
Poll ==
  /\ pc = "wait"
  /\ ~Reached(vsyncs, stamp[cur])
  /\ polls < GuardPolls
  /\ polls' = polls + 1
  /\ \/ /\ sincePolls < PollsPerSync
        /\ sincePolls' = sincePolls + 1
     \/ /\ stalled \/ ~out
        /\ UNCHANGED sincePolls
  /\ UNCHANGED <<glueVars, dispVars, swapVars, stalled>>

(* The loop without the guard.                                             *)
GiveUpNever ==
  /\ FALSE
  /\ UNCHANGED vars

(* "the display is not syncing; do not hang the UI" *)
GiveUp ==
  /\ ~Reached(vsyncs, stamp[cur])
  /\ polls = GuardPolls
  /\ WaitEnds

SwapSubmit   == Submit /\ UNCHANGED <<glueVars, dispVars, polls, sincePolls, stalled>>
SwapComplete == Completed /\ UNCHANGED <<glueVars, dispVars, polls, sincePolls, stalled>>
IdlePresent  == FenceSignalled /\ UNCHANGED <<glueVars, dispVars, polls, sincePolls, stalled>>

(* qzephyr_gl_present(pending): show(), then back in the QPA, whatever     *)
(* show() returned.                                                        *)
Present ==
  /\ pc = "present"
  /\ ShowBegin(pending)
  /\ UNCHANGED <<swapVars, polls, sincePolls, stalled>>

Presented ==
  /\ ShowReturned
  /\ Released(vsyncs)
  /\ UNCHANGED <<polls, sincePolls, stalled>>

ShowStep ==
  /\ OutputEnable \/ SetAppBuffer \/ EnableAppPlane
  /\ UNCHANGED <<swapVars, polls, sincePolls, stalled>>

-----------------------------------------------------------------------------
(* The GPU and the display *)

Gpu ==
  /\ \E b \in Buf : GpuDone(b)
  /\ UNCHANGED <<glueVars, dispVars, polls, sincePolls, stalled>>

Sync ==
  /\ ~stalled
  /\ Vsync
  /\ sincePolls' = 0
  /\ UNCHANGED <<swapVars, polls, stalled>>

ShowFails ==
  /\ DriverFails
  /\ UNCHANGED <<swapVars, polls, sincePolls, stalled>>

Stall ==
  /\ out
  /\ ~stalled
  /\ stalled' = TRUE
  /\ UNCHANGED <<glueVars, dispVars, swapVars, polls, sincePolls>>

-----------------------------------------------------------------------------
Render ==
  \/ WaitReached \/ Poll \/ GiveUp \/ SwapSubmit \/ SwapComplete
  \/ Present \/ ShowStep \/ Presented

(* Every driver call succeeds and the display keeps syncing. *)
HealthyNext == Swap \/ IdlePresent \/ Render \/ Gpu \/ Sync

Next == HealthyNext \/ ShowFails \/ Stall

HealthySpec  == Init /\ [][HealthyNext]_vars
FlipFailSpec == Init /\ [][HealthyNext \/ ShowFails]_vars
Spec         == Init /\ [][Next]_vars

(* The render thread runs when it can, its event loop polls the fence, the *)
(* GPU finishes what it was given.  Nothing makes the application swap.    *)
(* A display that has not stalled syncs.                                   *)
Fairness ==
  /\ WF_vars(Render)
  /\ WF_vars(IdlePresent)
  /\ WF_vars(Gpu)
  /\ WF_vars(Sync)

HealthyFairSpec == HealthySpec /\ Fairness
FairSpec        == Spec /\ Fairness

-----------------------------------------------------------------------------
(* The GPU never writes the buffer the panel is reading, nor the one it    *)
(* turns to at the next sync: the rule the glue's header leaves to the QPA *)
(* ("do not render into a buffer the display is still reading").           *)
NoTear == {scan, Queued} \cap rendering = {}

Contract == INSTANCE ScanoutContract WITH queued <- Queued, writing <- rendering

(* The swap chain over the glue implements the scan-out contract: every    *)
(* step starts or ends a write of a free buffer, queues a complete frame,  *)
(* or is a sync that turns to the queued frame.                            *)
ImplementsContract == Contract!Spec

(* The last frame of a scene that stops reaches the panel, a single frame  *)
(* on a cold display included: unless the application starts another swap, *)
(* the frame it submitted is eventually the one being read.                *)
LastFrameReachesPanel ==
  \A b \in Buf : (pending = b) ~> (scan = b \/ swapping)

(* What docs/qt-yakogl-am62p.md says each swap waits for before it hands a *)
(* buffer to the GPU: "until the display has left the buffer about to be   *)
(* rendered into".                                                         *)
DisplayHasLeft == pc = "submit" => scan # cur

(* A swap never hangs, whatever the driver returns and even if the display *)
(* stops syncing while wait_vsync waits.                                   *)
SwapEnds == swapping ~> ~swapping

(* Failed flips do no lasting harm: once flips stop failing, on a display  *)
(* that keeps syncing, there comes a point after which the GPU never again *)
(* writes the buffer being read, although the QPA is never told that its   *)
(* idea of what is on screen was wrong.                                    *)
TearingHeals == <>[](call # "failed" /\ ~stalled) => <>[]NoTear

=============================================================================
