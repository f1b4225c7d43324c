------------------------------- MODULE GlImage -------------------------------
(***************************************************************************)
(* A firmware image that draws with OpenGL on the i.MX8M Plus or on the    *)
(* Raspberry Pi 4: the same swap chain, linked with one of the two glues.  *)
(* (DssGl is the image for the AM62P.)  What the other glue keeps is       *)
(* constant.                                                               *)
(***************************************************************************)
EXTENDS Rpi4Glue, SwapChain

VARIABLES
  board,            (* the glue the image was built with                   *)
  faults,           (* flips may fail; FALSE when none will                *)
  s_on, s_latched   (* i.MX8MP                                             *)

Imx == INSTANCE Imx8mpGl
Rpi == INSTANCE Rpi4Gl

imxOnly == <<s_on, s_latched>>
rpiOnly == <<s_shown, phase, counter, offset>>

vars == <<board, faults, call, target, scan, queued, swapVars, imxOnly, rpiOnly>>

Board == {"imx8mp", "rpi4"}

TypeOK ==
  /\ board \in Board
  /\ faults \in BOOLEAN
  /\ board = "imx8mp" => Imx!TypeOK
  /\ board = "rpi4"   => Rpi!TypeOK

ImxOff == s_on = FALSE /\ s_latched = 0
RpiOff == s_shown = 0 /\ phase = 0 /\ counter = 0 /\ offset = 0

Init ==
  /\ faults \in BOOLEAN
  /\ \/ board = "imx8mp" /\ Imx!Init /\ RpiOff
     \/ board = "rpi4"   /\ Rpi!Init /\ ImxOff
  /\ faults => offset = 0   (* one deviation at a time *)

OnImx == board = "imx8mp" /\ UNCHANGED <<board, faults, rpiOnly>>
OnRpi == board = "rpi4"   /\ UNCHANGED <<board, faults, imxOnly>>

-----------------------------------------------------------------------------
Swap ==
  \/ Imx!Swap /\ OnImx
  \/ Rpi!Swap /\ OnRpi

IdlePresent ==
  \/ Imx!IdlePresent /\ OnImx
  \/ Rpi!IdlePresent /\ OnRpi

Render ==
  \/ Imx!Render /\ OnImx
  \/ Rpi!Render /\ OnRpi

Gpu ==
  \/ Imx!Gpu /\ OnImx
  \/ Rpi!Gpu /\ OnRpi

Sync ==
  \/ Imx!Sync /\ OnImx
  \/ Rpi!Time /\ OnRpi

ShowFails ==
  /\ faults
  /\ \/ Imx!ShowFails /\ OnImx
     \/ Rpi!ShowFails /\ OnRpi

Next == Swap \/ IdlePresent \/ Render \/ Gpu \/ Sync \/ ShowFails

(* The threads, the GPU and the display go on; nothing makes the           *)
(* application swap.  The Raspberry Pi 4's wait looks at the counter each  *)
(* time it wakes, and a reached stamp stays reached for half the counter's *)
(* range: strong fairness says that it does not oversleep that.            *)
Fairness ==
  /\ WF_vars(Render)
  /\ SF_vars(Rpi!WaitVsync /\ OnRpi)
  /\ WF_vars(IdlePresent)
  /\ WF_vars(Gpu)
  /\ WF_vars(Sync)

Spec == Init /\ [][Next]_vars /\ Fairness

-----------------------------------------------------------------------------
(* The picture the firmware left in buffer 0 is not a frame: the panel     *)
(* counts as dark until the first pan, which names the buffer it reads.    *)
FirmwarePicture == board = "rpi4" /\ qshown = NoBuf /\ call # "ok"

(* A failed flip breaks the contract (TearingHeals says how badly), and so *)
(* does a prediction that runs ahead (HandedBackAtMostDEarly).             *)
Claimed == ~faults /\ (board = "rpi4" => offset = 0)

Contract == INSTANCE ScanoutContract WITH
  scan    <- IF Claimed /\ ~FirmwarePicture THEN scan ELSE NoBuf,
  queued  <- IF Claimed /\ queued # scan THEN queued ELSE NoBuf,
  writing <- IF Claimed THEN rendering ELSE {}

(* The swap chain over either glue implements the scan-out contract, on    *)
(* the i.MX8MP although nothing waits before the GPU is given a buffer,    *)
(* and on the Raspberry Pi 4 as long as the prediction is exact.           *)
ImplementsContract == Contract!Spec

(* The header of the Raspberry Pi 4 glue: "a predicted edge that differs   *)
(* from the real one by d hands a buffer back up to d too early".  When    *)
(* the GPU writes the buffer the panel reads, the panel leaves it within d.*)
HandedBackAtMostDEarly == board = "rpi4" /\ ~faults => Rpi!HandedBackAtMostDEarly

(* The last frame of a scene that stops reaches the panel: unless the      *)
(* application starts another swap, the frame it submitted is eventually   *)
(* the one being read.                                                     *)
LastFrameReachesPanel ==
  \A b \in Buf : (pending = b /\ ~faults) ~> (scan = b \/ swapping)

(* A swap never hangs: the i.MX8MP's count moves only with the flips, so   *)
(* its swaps must not wait for it; the Raspberry Pi 4's wait has no guard, *)
(* and ends because its counter is made of time.                           *)
SwapEnds == swapping ~> ~swapping

NoTear == {scan, queued} \cap rendering = {}

(* Failed flips do no lasting harm: once flips stop failing there comes a  *)
(* point after which the GPU never again writes the buffer being read, if  *)
(* the prediction is exact.                                                *)
TearingHeals == <>[](call # "failed" /\ offset = 0) => <>[]NoTear

=============================================================================
