---------------------------- MODULE GlImageProofs ----------------------------
(***************************************************************************)
(* Proofs about GlImage: the swap chain over the glues of the i.MX8MP and  *)
(* of the Raspberry Pi 4, for every number of buffers from three up, every *)
(* width of the counter, period and offset of the prediction.              *)
(***************************************************************************)
EXTENDS GlImage, TLAPS

-----------------------------------------------------------------------------
(* What the swap chain keeps by itself, whatever the display does and      *)
(* whichever flips fail.                                                   *)

(* Shown, pending and recorded are consecutive buffers. *)
Ring ==
  /\ pending # NoBuf => NextBuf(pending) = cur
  /\ qshown # NoBuf => NextBuf(qshown) = IF pending = NoBuf THEN cur ELSE pending

(* The render thread's place. *)
Place ==
  /\ pc \in {"wait", "submit", "complete"} => swapping
  /\ pc = "record" => ~swapping
  /\ pc \in {"complete", "present"} => pending # NoBuf

(* What the GPU may be writing. *)
Writes ==
  /\ rendering \subseteq {pending, cur}
  /\ cur \in rendering => swapping /\ pc \in {"complete", "present"}
  /\ pc = "present" => pending \notin rendering

SwapInv == SwapTypeOK /\ Ring /\ Place /\ Writes

(* show() runs inside a present, for the pending frame. *)
Showing == call # "idle" => pc = "present" /\ target = pending

(* i.MX8MP, no flip failing: outside show() the panel reads the buffer the *)
(* QPA believes is on screen, and show() returns once it reads the next.   *)
ImxShown ==
  /\ call # "failed"
  /\ queued # NoBuf => call = "latch" /\ queued = pending
  /\ scan = IF call = "ok" \/ (call = "latch" /\ queued = NoBuf) THEN pending ELSE qshown
  /\ s_on <=> scan # NoBuf
  /\ call = "on" => ~s_on
  /\ call \in {"flip", "latch"} => s_on

(* Raspberry Pi 4, no flip failing and no late prediction.                 *)
Told == call = "ok"

(* The edge is no further away than the prediction is early. *)
Near == Period - phase <= -offset

(* s_shown is what the panel reads or turns to at the edge, and follows    *)
(* the QPA; before the first pan it is the firmware's buffer 0.            *)
RpiShown ==
  /\ call # "failed"
  /\ s_shown = IF Told THEN pending ELSE IF qshown = NoBuf THEN 0 ELSE qshown
  /\ s_shown = IF queued = NoBuf THEN scan ELSE queued
  /\ qshown = NoBuf =>
       /\ scan = 0
       /\ pending \in {NoBuf, 0}
       /\ pending = NoBuf => cur = 0
       /\ ~Told => queued = NoBuf

(* A buffer the panel still reads although it was flipped away: its stamp  *)
(* is not reached, or the edge that leaves it is near.                     *)
Leaving ==
  qshown # NoBuf /\ scan # qshown /\ ~(Told /\ scan = pending) =>
    /\ queued # NoBuf
    /\ \/ stamp[scan] = CountSucc(counter)
       \/ stamp[scan] = counter /\ Near

(* A buffer that is being drawn, or waits to be shown, is not being read   *)
(* unless the edge is near.                                                *)
Elsewhere ==
  qshown # NoBuf =>
    /\ swapping /\ pc \in {"submit", "complete", "present"} /\ scan = cur
         => queued # NoBuf /\ Near
    /\ pending # NoBuf /\ ~Told /\ scan = pending => queued # NoBuf /\ Near

RpiTimed == RpiShown /\ Leaving /\ Elsewhere

IndInv ==
  /\ TypeOK
  /\ SwapInv /\ Showing
  /\ ~faults => call # "failed"
  /\ board = "imx8mp" /\ ~faults => ImxShown
  /\ board = "rpi4" /\ ~faults /\ offset <= 0 => RpiTimed

-----------------------------------------------------------------------------
(* The two instances share the swap chain's definitions, and the Pi's the  *)
(* glue's.                                                                 *)
LEMMA ImxNames ==
  /\ Imx!Buf = Buf /\ Imx!NoBuf = NoBuf /\ Imx!Count = Count
  /\ \A b : Imx!NextBuf(b) = NextBuf(b)
  /\ \A c : Imx!CountSucc(c) = CountSucc(c)
BY DEF Imx!Buf, Buf, Imx!NoBuf, NoBuf, Imx!Count, Count, Imx!Wrap, Wrap,
       Imx!NextBuf, NextBuf, Imx!CountSucc, CountSucc

LEMMA RpiNames ==
  /\ Rpi!Buf = Buf /\ Rpi!NoBuf = NoBuf /\ Rpi!Count = Count
  /\ \A b : Rpi!NextBuf(b) = NextBuf(b)
  /\ \A c : Rpi!CountSucc(c) = CountSucc(c)
BY DEF Rpi!Buf, Buf, Rpi!NoBuf, NoBuf, Rpi!Count, Count, Rpi!Wrap, Wrap,
       Rpi!NextBuf, NextBuf, Rpi!CountSucc, CountSucc

LEMMA ImxSwapNames ==
  /\ (Imx!SwapTypeOK <=> SwapTypeOK) /\ (Imx!SwapTypeOK <=> SwapTypeOK)'
  /\ Imx!SwapInit <=> SwapInit
  /\ Imx!SwapBegin <=> SwapBegin
  /\ Imx!WaitReturned <=> WaitReturned
  /\ Imx!Submit <=> Submit
  /\ Imx!Completed <=> Completed
  /\ Imx!FenceSignalled <=> FenceSignalled
  /\ \A b : Imx!GpuDone(b) <=> GpuDone(b)
  /\ \A c : Imx!Released(c) <=> Released(c)
<1> USE ImxNames
<1>1. /\ Imx!SwapInit <=> SwapInit
      /\ (Imx!SwapTypeOK <=> SwapTypeOK) /\ (Imx!SwapTypeOK <=> SwapTypeOK)'
  BY DEF Imx!SwapTypeOK, SwapTypeOK, Imx!PC, PC, Imx!SwapInit, SwapInit
<1>2. (Imx!SwapBegin <=> SwapBegin) /\ (Imx!WaitReturned <=> WaitReturned)
  BY DEF Imx!SwapBegin, SwapBegin, Imx!WaitReturned, WaitReturned
<1>3. Imx!Submit <=> Submit
  BY DEF Imx!Submit, Submit, Imx!Rotate, Rotate
<1>4. (Imx!Completed <=> Completed) /\ (Imx!FenceSignalled <=> FenceSignalled)
  BY DEF Imx!Completed, Completed, Imx!FenceSignalled, FenceSignalled
<1>5. \A b : Imx!GpuDone(b) <=> GpuDone(b)
  BY DEF Imx!GpuDone, GpuDone
<1>6. \A c : Imx!Released(c) <=> Released(c)
  BY DEF Imx!Released, Released, Imx!Rotate, Rotate
<1> QED
  BY <1>1, <1>2, <1>3, <1>4, <1>5, <1>6

LEMMA RpiSwapNames ==
  /\ (Rpi!SwapTypeOK <=> SwapTypeOK) /\ (Rpi!SwapTypeOK <=> SwapTypeOK)'
  /\ Rpi!SwapInit <=> SwapInit
  /\ Rpi!SwapBegin <=> SwapBegin
  /\ Rpi!WaitReturned <=> WaitReturned
  /\ Rpi!Submit <=> Submit
  /\ Rpi!Completed <=> Completed
  /\ Rpi!FenceSignalled <=> FenceSignalled
  /\ \A b : Rpi!GpuDone(b) <=> GpuDone(b)
  /\ \A c : Rpi!Released(c) <=> Released(c)
<1> USE RpiNames
<1>1. /\ Rpi!SwapInit <=> SwapInit
      /\ (Rpi!SwapTypeOK <=> SwapTypeOK) /\ (Rpi!SwapTypeOK <=> SwapTypeOK)'
  BY DEF Rpi!SwapTypeOK, SwapTypeOK, Rpi!PC, PC, Rpi!SwapInit, SwapInit
<1>2. (Rpi!SwapBegin <=> SwapBegin) /\ (Rpi!WaitReturned <=> WaitReturned)
  BY DEF Rpi!SwapBegin, SwapBegin, Rpi!WaitReturned, WaitReturned
<1>3. Rpi!Submit <=> Submit
  BY DEF Rpi!Submit, Submit, Rpi!Rotate, Rotate
<1>4. (Rpi!Completed <=> Completed) /\ (Rpi!FenceSignalled <=> FenceSignalled)
  BY DEF Rpi!Completed, Completed, Rpi!FenceSignalled, FenceSignalled
<1>5. \A b : Rpi!GpuDone(b) <=> GpuDone(b)
  BY DEF Rpi!GpuDone, GpuDone
<1>6. \A c : Rpi!Released(c) <=> Released(c)
  BY DEF Rpi!Released, Released, Rpi!Rotate, Rotate
<1> QED
  BY <1>1, <1>2, <1>3, <1>4, <1>5, <1>6

LEMMA RpiGlueNames ==
  /\ (Rpi!GlueTypeOK <=> GlueTypeOK) /\ (Rpi!GlueTypeOK <=> GlueTypeOK)'
  /\ Rpi!GlueInit <=> GlueInit
  /\ \A b : Rpi!ShowBegin(b) <=> ShowBegin(b)
  /\ Rpi!Pan <=> Pan
  /\ Rpi!PanFails <=> PanFails
  /\ Rpi!ShowReturned <=> ShowReturned
  /\ Rpi!Tick <=> Tick
<1> USE RpiNames DEF Rpi!glueVars, glueVars, Rpi!dispVars, dispVars
<1>1. /\ Rpi!GlueInit <=> GlueInit
      /\ (Rpi!GlueTypeOK <=> GlueTypeOK) /\ (Rpi!GlueTypeOK <=> GlueTypeOK)'
  BY DEF Rpi!GlueTypeOK, GlueTypeOK, Rpi!GlueInit, GlueInit
<1>2. /\ \A b : Rpi!ShowBegin(b) <=> ShowBegin(b)
      /\ Rpi!ShowReturned <=> ShowReturned
  BY DEF Rpi!ShowBegin, ShowBegin, Rpi!ShowReturned, ShowReturned
<1>3. (Rpi!Pan <=> Pan) /\ (Rpi!PanFails <=> PanFails)
  BY DEF Rpi!Pan, Pan, Rpi!PanFails, PanFails
<1>4. Rpi!Tick <=> Tick
  BY DEF Rpi!Tick, Tick
<1> QED
  BY <1>1, <1>2, <1>3, <1>4

-----------------------------------------------------------------------------
(* Three consecutive buffers are different when there are at least three.  *)
LEMMA NextBufFacts ==
  ASSUME NEW b \in Buf
  PROVE  /\ NextBuf(b) \in Buf
         /\ NextBuf(b) # b
         /\ NextBuf(NextBuf(b)) # b
BY NBufAssumption, RingAssumption DEF Buf, NextBuf

(* The next count has not been reached, also where the counter wraps.      *)
LEMMA CountFacts ==
  ASSUME NEW c \in Count
  PROVE  /\ CountSucc(c) \in Count
         /\ ~Reached(c, CountSucc(c))
BY HalfAssumption DEF Count, CountSucc, Reached, Wrap

LEMMA NoBufFact == NoBuf \notin Buf
BY DEF NoBuf, Buf

LEMMA ZeroFacts == 0 \in Buf /\ 0 \in Count
BY NBufAssumption, HalfAssumption DEF Buf, Count, Wrap

-----------------------------------------------------------------------------
(* The steps of the swap chain keep its invariant.                         *)

LEMMA SwapInitInv == SwapInit => SwapInv
BY ZeroFacts, NoBufFact
   DEF SwapInit, SwapInv, SwapTypeOK, PC, Ring, Place, Writes

LEMMA SwapBeginInv ==
  ASSUME SwapInv, SwapBegin
  PROVE  SwapInv'
BY DEF SwapBegin, SwapInv, SwapTypeOK, PC, Ring, Place, Writes

LEMMA WaitReturnedInv ==
  ASSUME SwapInv, WaitReturned
  PROVE  SwapInv'
BY DEF WaitReturned, SwapInv, SwapTypeOK, PC, Ring, Place, Writes

LEMMA SubmitInv ==
  ASSUME SwapInv, Submit
  PROVE  SwapInv'
<1>1. SwapTypeOK'
  BY NextBufFacts DEF Submit, Rotate, SwapInv, SwapTypeOK, PC
<1>2. Ring'
  BY NoBufFact DEF Submit, Rotate, SwapInv, SwapTypeOK, Ring
<1>3. Place'
  BY NoBufFact DEF Submit, Rotate, SwapInv, SwapTypeOK, Place
<1>4. Writes'
  BY NextBufFacts, NoBufFact DEF Submit, Rotate, SwapInv, SwapTypeOK, Place, Writes
<1> QED
  BY <1>1, <1>2, <1>3, <1>4 DEF SwapInv

LEMMA CompletedInv ==
  ASSUME SwapInv, Completed
  PROVE  SwapInv'
BY DEF Completed, SwapInv, SwapTypeOK, PC, Ring, Place, Writes

LEMMA FenceSignalledInv ==
  ASSUME SwapInv, FenceSignalled
  PROVE  SwapInv'
BY DEF FenceSignalled, SwapInv, SwapTypeOK, PC, Ring, Place, Writes

LEMMA ReleasedInv ==
  ASSUME SwapInv, NEW count \in Count, Released(count)
  PROVE  SwapInv'
<1>1. SwapTypeOK'
  BY NextBufFacts, CountFacts DEF Released, Rotate, SwapInv, SwapTypeOK, PC
<1>2. Ring'
  BY NoBufFact DEF Released, Rotate, SwapInv, SwapTypeOK, Ring
<1>3. Place'
  BY DEF Released, SwapInv, Place
<1>4. Writes'
  BY NextBufFacts, NoBufFact DEF Released, Rotate, SwapInv, SwapTypeOK, Ring, Writes
<1> QED
  BY <1>1, <1>2, <1>3, <1>4 DEF SwapInv

LEMMA GpuDoneInv ==
  ASSUME SwapInv, NEW b, GpuDone(b)
  PROVE  SwapInv'
BY DEF GpuDone, SwapInv, SwapTypeOK, Ring, Place, Writes

LEMMA SwapUnchanged ==
  ASSUME SwapInv, UNCHANGED swapVars
  PROVE  SwapInv'
BY DEF swapVars, SwapInv, SwapTypeOK, Ring, Place, Writes

-----------------------------------------------------------------------------
LEMMA InitInv == Init => IndInv
<1> SUFFICES ASSUME Init PROVE IndInv
  OBVIOUS
<1> USE ZeroFacts, NoBufFact
<1>1. ASSUME board = "imx8mp", Imx!Init PROVE IndInv
  <2>1. SwapInit /\ Imx!GlueInit
    BY <1>1, ImxSwapNames DEF Imx!Init
  <2>2. SwapInv
    BY <2>1, SwapInitInv
  <2>3. TypeOK
    BY <1>1, <2>1, <2>2, ImxNames, ImxSwapNames
       DEF Init, TypeOK, Board, Imx!TypeOK, Imx!GlueTypeOK, Imx!GlueInit, Imx!Call, SwapInv
  <2>4. Showing /\ ImxShown /\ call # "failed"
    BY <2>1, ImxNames DEF Imx!GlueInit, SwapInit, Showing, ImxShown
  <2> QED
    BY <1>1, <2>2, <2>3, <2>4 DEF IndInv
<1>2. ASSUME board = "rpi4", Rpi!Init PROVE IndInv
  <2>1. SwapInit /\ GlueInit
    BY <1>2, RpiSwapNames, RpiGlueNames DEF Rpi!Init
  <2>2. SwapInv
    BY <2>1, SwapInitInv
  <2>3. GlueTypeOK
    BY <2>1, PeriodAssumption DEF GlueInit, GlueTypeOK
  <2>4. TypeOK
    BY <1>2, <2>2, <2>3, RpiSwapNames, RpiGlueNames
       DEF Init, TypeOK, Board, Rpi!TypeOK, SwapInv
  <2>5. Showing /\ call # "failed"
    BY <2>1 DEF GlueInit, Showing
  <2>6. RpiTimed
    BY <2>1 DEF GlueInit, SwapInit, RpiTimed, RpiShown, Told, Leaving, Elsewhere
  <2> QED
    BY <1>2, <2>2, <2>4, <2>5, <2>6 DEF IndInv
<1> QED
  BY <1>1, <1>2 DEF Init

(* i.MX8MP: the swap chain's own steps leave the glue and the display      *)
(* alone, the others leave the swap chain alone; Presented is both.        *)
LEMMA ImxSwapStep ==
  ASSUME IndInv, OnImx,
         Imx!Swap \/ Imx!WaitVsync \/ Imx!SwapSubmit \/ Imx!SwapComplete
           \/ Imx!IdlePresent \/ Imx!Gpu
  PROVE  IndInv'
<1> USE DEF Imx!glueVars, Imx!dispVars
<1>0. /\ board = "imx8mp" /\ board' = "imx8mp" /\ faults' = faults
      /\ Imx!TypeOK /\ SwapInv /\ Showing /\ (~faults => call # "failed" /\ ImxShown)
  BY DEF OnImx, IndInv, TypeOK
<1>1. UNCHANGED <<s_on, s_latched, call, target, queued, scan>>
  BY DEF Imx!Swap, Imx!WaitVsync, Imx!SwapSubmit, Imx!SwapComplete, Imx!IdlePresent, Imx!Gpu
<1>2. \/ SwapBegin \/ WaitReturned \/ Submit \/ Completed \/ FenceSignalled
      \/ \E b \in Buf : GpuDone(b)
  BY ImxNames, ImxSwapNames
     DEF Imx!Swap, Imx!WaitVsync, Imx!SwapSubmit, Imx!SwapComplete, Imx!IdlePresent, Imx!Gpu
<1>3. SwapInv'
  BY <1>0, <1>2, SwapBeginInv, WaitReturnedInv, SubmitInv, CompletedInv, FenceSignalledInv,
     GpuDoneInv
<1>4. pc = "present" => UNCHANGED <<pc, pending>>
  BY <1>2 DEF SwapBegin, WaitReturned, Submit, Completed, FenceSignalled, GpuDone
<1>5. UNCHANGED qshown
  BY <1>2 DEF SwapBegin, WaitReturned, Submit, Completed, FenceSignalled, GpuDone
<1>6. TypeOK'
  BY <1>0, <1>1, <1>3, ImxNames, ImxSwapNames
     DEF OnImx, IndInv, TypeOK, Imx!TypeOK, Imx!GlueTypeOK, Imx!Call, SwapInv
<1>7. Showing'
  BY <1>0, <1>1, <1>4 DEF Showing
<1>8. ~faults => ImxShown'
  <2> SUFFICES ASSUME ~faults PROVE ImxShown'
    OBVIOUS
  <2>1. CASE call = "idle"
    BY <1>0, <1>1, <1>5, <2>1 DEF ImxShown
  <2>2. CASE call # "idle"
    BY <1>0, <1>1, <1>4, <1>5, <2>2 DEF ImxShown, Showing
  <2> QED
    BY <2>1, <2>2
<1> QED
  BY <1>0, <1>1, <1>3, <1>6, <1>7, <1>8 DEF IndInv

LEMMA ImxShowStep ==
  ASSUME IndInv, OnImx,
         \/ Imx!Present \/ Imx!ShowStep \/ Imx!Sync
         \/ faults /\ Imx!ShowFails
  PROVE  IndInv'
<1> USE ImxNames, NoBufFact DEF Imx!glueVars, Imx!dispVars, Imx!swapVars, swapVars
<1>0. /\ board = "imx8mp" /\ board' = "imx8mp" /\ faults' = faults
      /\ Imx!GlueTypeOK /\ SwapInv /\ Showing /\ (~faults => call # "failed" /\ ImxShown)
  BY DEF OnImx, IndInv, TypeOK, Imx!TypeOK
<1>1. UNCHANGED swapVars
  BY DEF Imx!Present, Imx!ShowStep, Imx!Sync, Imx!ShowFails
<1>2. SwapInv'
  BY <1>0, <1>1, SwapUnchanged
<1> SUFFICES Imx!GlueTypeOK' /\ Showing' /\ (~faults => call' # "failed" /\ ImxShown')
  BY <1>0, <1>2, ImxSwapNames DEF IndInv, TypeOK, Board, Imx!TypeOK, SwapInv, OnImx
<1>3. CASE Imx!Present
  <2>1. pending \in Buf
    BY <1>0, <1>3 DEF Imx!Present, SwapInv, SwapTypeOK, Place
  <2> QED
    BY <1>0, <1>1, <1>3, <2>1
       DEF Imx!Present, Imx!ShowBegin, Imx!GlueTypeOK, Imx!Call, Showing, ImxShown
<1>4. CASE Imx!DisplayOn
  BY <1>0, <1>1, <1>4, CountFacts
     DEF Imx!DisplayOn, Imx!GlueTypeOK, Imx!Call, Showing, ImxShown
<1>5. CASE Imx!SetFb
  BY <1>0, <1>1, <1>5 DEF Imx!SetFb, Imx!GlueTypeOK, Imx!Call, Showing, ImxShown
<1>6. CASE Imx!Latched
  BY <1>0, <1>1, <1>6, CountFacts
     DEF Imx!Latched, Imx!GlueTypeOK, Imx!Call, Showing, ImxShown
<1>7. CASE Imx!Sync
  <2>1. Imx!GlueTypeOK' /\ Showing'
    BY <1>0, <1>1, <1>7 DEF Imx!Sync, Imx!Refresh, Imx!GlueTypeOK, Showing
  <2>2. ~faults => ImxShown' /\ call' # "failed"
    BY <1>0, <1>1, <1>7 DEF Imx!Sync, Imx!Refresh, Imx!GlueTypeOK, Showing, ImxShown
  <2> QED
    BY <2>1, <2>2
<1>8. CASE faults /\ Imx!ShowFails
  BY <1>0, <1>1, <1>8
     DEF Imx!ShowFails, Imx!DriverFails, Imx!LatchTimeout, Imx!GlueTypeOK, Imx!Call, Showing
<1> QED
  BY <1>3, <1>4, <1>5, <1>6, <1>7, <1>8 DEF Imx!ShowStep

LEMMA ImxPresentedStep ==
  ASSUME IndInv, OnImx, Imx!Presented
  PROVE  IndInv'
<1> USE ImxNames, NoBufFact DEF Imx!dispVars
<1>0. /\ board = "imx8mp" /\ board' = "imx8mp" /\ faults' = faults
      /\ Imx!GlueTypeOK /\ SwapInv /\ Showing /\ (~faults => call # "failed" /\ ImxShown)
  BY DEF OnImx, IndInv, TypeOK, Imx!TypeOK
<1>1. Released(s_latched) /\ Imx!ShowReturned
  BY ImxSwapNames DEF Imx!Presented
<1>2. SwapInv'
  BY <1>0, <1>1, ReleasedInv DEF Imx!GlueTypeOK
<1>3. Imx!GlueTypeOK' /\ Showing'
  BY <1>0, <1>1 DEF Imx!ShowReturned, Imx!GlueTypeOK, Imx!Call, Showing
<1>4. ~faults => call' # "failed" /\ ImxShown'
  BY <1>0, <1>1 DEF Imx!ShowReturned, Released, ImxShown
<1> QED
  BY <1>0, <1>2, <1>3, <1>4, ImxSwapNames DEF IndInv, TypeOK, Board, Imx!TypeOK, SwapInv, OnImx

-----------------------------------------------------------------------------
(* What IndInv says on the Raspberry Pi 4. *)
RpiInv ==
  /\ GlueTypeOK /\ SwapInv /\ Showing
  /\ ~faults => call # "failed"
  /\ ~faults /\ offset <= 0 => RpiTimed

LEMMA RpiFromInd ==
  ASSUME IndInv, OnRpi
  PROVE  RpiInv /\ faults' = faults
BY RpiSwapNames, RpiGlueNames DEF IndInv, OnRpi, TypeOK, Rpi!TypeOK, RpiInv

LEMMA RpiToInd ==
  ASSUME IndInv, OnRpi, RpiInv'
  PROVE  IndInv'
BY RpiSwapNames, RpiGlueNames DEF IndInv, OnRpi, TypeOK, Rpi!TypeOK, RpiInv, SwapInv

(* The swap chain's own steps.  A wait that ends finds the buffer left, or *)
(* about to be left; nothing else changes which buffer is drawn.           *)
LEMMA RpiSwapStep ==
  ASSUME RpiInv, faults' = faults, UNCHANGED <<glueVars, dispVars>>,
         \/ SwapBegin \/ Submit \/ Completed \/ FenceSignalled
         \/ WaitReturned /\ Reached(counter, stamp[cur])
         \/ \E b \in Buf : GpuDone(b)
  PROVE  RpiInv'
<1> USE DEF glueVars, dispVars
<1>1. SwapInv'
  BY SwapBeginInv, WaitReturnedInv, SubmitInv, CompletedInv, FenceSignalledInv, GpuDoneInv
     DEF RpiInv
<1>2. GlueTypeOK'
  BY DEF RpiInv, GlueTypeOK
<1>3. Showing'
  BY DEF RpiInv, Showing, SwapBegin, Submit, Completed, FenceSignalled, WaitReturned, GpuDone
<1>4. ASSUME ~faults, offset <= 0 PROVE RpiTimed'
  <2>0. /\ SwapTypeOK /\ Ring /\ Place /\ Showing
        /\ RpiShown /\ Leaving /\ Elsewhere
    BY <1>4 DEF RpiInv, RpiTimed, SwapInv
  <2>1. UNCHANGED <<qshown, stamp, s_shown, call, queued, scan, phase, counter, offset>>
    BY DEF SwapBegin, Submit, Completed, FenceSignalled, WaitReturned, GpuDone
  <2>2. call # "idle" => UNCHANGED pending
    BY <2>0 DEF Showing, SwapBegin, Submit, Completed, FenceSignalled, WaitReturned, GpuDone
  <2>3. Leaving'
    BY <2>0, <2>1, <2>2 DEF Leaving, Told, Near
  <2>4. RpiShown'
    <3>1. CASE Submit
      BY <2>0, <2>1, <2>2, <3>1, NoBufFact
         DEF Submit, Rotate, RpiShown, Told, SwapTypeOK, Showing
    <3>2. CASE ~Submit
      <4>1. UNCHANGED <<pending, cur>>
        BY <3>2 DEF SwapBegin, Completed, FenceSignalled, WaitReturned, GpuDone
      <4> QED
        BY <2>0, <2>1, <4>1 DEF RpiShown, Told
    <3> QED
      BY <3>1, <3>2
  <2>5. Elsewhere'
    <3>1. CASE SwapBegin \/ Completed \/ FenceSignalled \/ \E b \in Buf : GpuDone(b)
      BY <2>0, <2>1, <3>1
         DEF SwapBegin, Completed, FenceSignalled, GpuDone, Elsewhere, Told, Near, Place
    <3>2. CASE Submit
      BY <2>0, <2>1, <3>2 DEF Submit, Rotate, Elsewhere, Told, Near, Place
    <3>3. CASE WaitReturned /\ Reached(counter, stamp[cur])
      <4>1. call = "idle" /\ (qshown # NoBuf => cur # qshown)
        BY <2>0, <3>3, NextBufFacts, NoBufFact
           DEF WaitReturned, Showing, Ring, SwapTypeOK
      <4>2. stamp[cur] # CountSucc(counter)
        BY <3>3, CountFacts DEF RpiInv, GlueTypeOK
      <4>3. qshown # NoBuf /\ scan = cur => queued # NoBuf /\ Near
        BY <2>0, <4>1, <4>2 DEF Leaving, Told
      <4> QED
        BY <2>0, <2>1, <3>3, <4>3 DEF WaitReturned, Elsewhere, Told, Near
    <3> QED
      BY <3>1, <3>2, <3>3
  <2> QED
    BY <2>3, <2>4, <2>5 DEF RpiTimed
<1> QED
  BY <1>1, <1>2, <1>3, <1>4 DEF RpiInv

(* show(): the present begins, the pan is accepted, or refused. *)
LEMMA RpiShowStep ==
  ASSUME RpiInv, faults' = faults, UNCHANGED swapVars,
         \/ pc = "present" /\ ShowBegin(pending)
         \/ Pan
         \/ faults /\ PanFails
  PROVE  RpiInv'
<1> USE DEF glueVars, dispVars, swapVars
<1>0. GlueTypeOK /\ SwapInv /\ Showing /\ (pc = "present" => pending \in Buf)
  BY DEF RpiInv, SwapInv, Place, SwapTypeOK
<1>1. SwapInv'
  BY <1>0, SwapUnchanged
<1>2. GlueTypeOK'
  BY <1>0 DEF GlueTypeOK, ShowBegin, Pan, PanFails
<1>3. Showing'
  BY <1>0 DEF Showing, ShowBegin, Pan, PanFails
<1>4. ~faults => call' # "failed"
  BY DEF ShowBegin, Pan
<1>5. ASSUME ~faults, offset <= 0 PROVE RpiTimed'
  <2>0. RpiShown /\ Leaving /\ Elsewhere
    BY <1>5 DEF RpiInv, RpiTimed
  <2>1. CASE pc = "present" /\ ShowBegin(pending)
    BY <2>0, <2>1 DEF ShowBegin, RpiTimed, RpiShown, Leaving, Elsewhere, Told, Near
  <2>2. CASE Pan
    <3>1. target = pending /\ pending \in Buf /\ pending # NoBuf
      BY <1>0, <2>2, NoBufFact DEF Pan, Showing
    <3>2. RpiShown'
      BY <2>0, <2>2, <3>1 DEF Pan, RpiShown, Told
    <3>3. Leaving' /\ Elsewhere'
      BY <2>0, <2>2, <3>1 DEF Pan, Leaving, Elsewhere, Told, Near
    <3> QED
      BY <3>2, <3>3 DEF RpiTimed
  <2> QED
    BY <1>5, <2>1, <2>2
<1> QED
  BY <1>1, <1>2, <1>3, <1>4, <1>5 DEF RpiInv, ShowBegin, Pan, PanFails

(* The present returns: what it replaced gets its stamp. *)
LEMMA RpiPresentedStep ==
  ASSUME RpiInv, faults' = faults, ShowReturned, Released(counter)
  PROVE  RpiInv'
<1> USE DEF dispVars
<1>0. GlueTypeOK /\ SwapInv /\ Showing
  BY DEF RpiInv
<1>1. SwapInv'
  BY <1>0, ReleasedInv DEF GlueTypeOK
<1>2. GlueTypeOK' /\ Showing' /\ call' # "failed"
  BY <1>0 DEF GlueTypeOK, ShowReturned, Showing
<1>3. ASSUME ~faults, offset <= 0 PROVE RpiTimed'
  <2>0. /\ SwapTypeOK /\ Ring /\ pending \in Buf /\ pending # NoBuf
        /\ RpiShown /\ Leaving /\ Elsewhere /\ Told
    BY <1>0, <1>3, NoBufFact
       DEF RpiInv, RpiTimed, RpiShown, SwapInv, Place, SwapTypeOK, Released, ShowReturned, Told
  <2>1. RpiShown'
    BY <2>0 DEF ShowReturned, Released, RpiShown, Told
  <2>2. Leaving'
    <3> SUFFICES ASSUME scan # pending PROVE queued # NoBuf /\ stamp'[scan] \in
                   {CountSucc(counter)} \cup (IF Near THEN {counter} ELSE {})
      BY <2>0 DEF ShowReturned, Released, Leaving, Told, Near
    <3>1. qshown # NoBuf /\ queued # NoBuf
      BY <2>0 DEF RpiShown, Told
    <3>2. stamp'[scan] = IF scan = qshown THEN CountSucc(counter) ELSE stamp[scan]
      BY <1>0 DEF Released, GlueTypeOK
    <3> QED
      BY <2>0, <3>1, <3>2 DEF Leaving
  <2>3. Elsewhere'
    <3>1. qshown = NoBuf => scan # cur
      BY <2>0, NextBufFacts DEF RpiShown, Ring
    <3> QED
      BY <2>0, <3>1 DEF ShowReturned, Released, Rotate, Elsewhere, Told, Near
  <2> QED
    BY <2>1, <2>2, <2>3 DEF RpiTimed
<1> QED
  BY <1>1, <1>2, <1>3 DEF RpiInv, ShowReturned

(* Where the remainders of a tick are. *)
LEMMA ModFacts ==
  ASSUME NEW p \in 0..(Period - 1)
  PROVE  /\ (p + 1) % Period = IF p = Period - 1 THEN 0 ELSE p + 1
         /\ \A d \in Offsets :
              d <= 0 => (d % Period) = IF d = 0 THEN 0 ELSE Period + d
<1>1. Period \in Nat /\ Period > 0
  BY PeriodAssumption
<1>2. \A r \in 0..(Period - 1) : (r % Period) = r
  BY <1>1, SMT
<1>3. (p + 1) % Period = IF p = Period - 1 THEN 0 ELSE p + 1
  <2>1. Period % Period = 0
    BY <1>1, SMT
  <2>2. p # Period - 1 => p + 1 \in 0..(Period - 1)
    BY <1>1
  <2> QED
    BY <1>1, <1>2, <2>1, <2>2
<1>4. ASSUME NEW d \in Offsets, d < 0 PROVE (d % Period) = Period + d
  <2>1. d \in Int /\ d > -Period
    BY <1>1, <1>4, PeriodAssumption
  <2> DEFINE q == d \div Period
             r == d % Period
  <2>2. q \in Int /\ r \in 0..(Period - 1) /\ d = Period * q + r
    BY <1>1, <2>1, SMT
  <2> HIDE DEF q, r
  <2>3. q = -1
    <3>1. CASE q >= 0
      <4>1. Period * q >= 0
        BY <1>1, <2>2, <3>1
      <4> QED
        BY <1>1, <1>4, <2>2, <4>1
    <3>2. CASE q <= -2
      <4>1. Period * q <= -2 * Period
        BY <1>1, <2>2, <3>2
      <4> QED
        BY <1>1, <2>1, <2>2, <4>1
    <3> QED
      BY <2>2, <3>1, <3>2
  <2>4. Period * q = -Period
    BY <1>1, <2>3
  <2>5. r = Period + d
    BY <1>1, <2>1, <2>2, <2>4
  <2> QED
    BY <2>5 DEF r
<1>5. 0 % Period = 0
  BY <1>1, <1>2
<1> QED
  BY <1>1, <1>3, <1>4, <1>5, PeriodAssumption

(* A tick: the edge latches the pan; the counter counts as far ahead of    *)
(* the edge as the prediction is early.                                    *)
LEMMA RpiTimeStep ==
  ASSUME RpiInv, faults' = faults, UNCHANGED swapVars, Tick
  PROVE  RpiInv'
<1> USE DEF glueVars, swapVars
<1>0. GlueTypeOK /\ SwapInv /\ Showing /\ phase \in 0..(Period - 1)
  BY DEF RpiInv, GlueTypeOK
<1>1. SwapInv'
  BY <1>0, SwapUnchanged
<1>2. phase' = IF phase = Period - 1 THEN 0 ELSE phase + 1
  BY <1>0, ModFacts DEF Tick
<1>3. \/ phase' = 0 /\ queued # NoBuf /\ scan' = queued /\ queued' = NoBuf
      \/ ~(phase' = 0 /\ queued # NoBuf) /\ UNCHANGED <<scan, queued>>
  BY DEF Tick
<1>4. UNCHANGED <<s_shown, call, target, offset>>
  BY DEF Tick
<1>5. counter' = IF phase' = (offset % Period) THEN CountSucc(counter) ELSE counter
  BY DEF Tick
<1>6. GlueTypeOK'
  <2>1. phase' \in 0..(Period - 1)
    BY <1>0, <1>2, PeriodAssumption
  <2>2. counter' \in Count
    BY <1>0, <1>5, CountFacts DEF GlueTypeOK
  <2> QED
    BY <1>0, <1>3, <1>4, <2>1, <2>2 DEF GlueTypeOK
<1>7. Showing' /\ (~faults => call' # "failed")
  BY <1>0, <1>4 DEF Showing, RpiInv
<1>8. ASSUME ~faults, offset <= 0 PROVE RpiTimed'
  <2>0. /\ SwapTypeOK /\ Ring /\ RpiShown /\ Leaving /\ Elsewhere
        /\ (Told => pending # NoBuf)
    BY <1>8, <1>0 DEF RpiInv, RpiTimed, SwapInv, Showing, Told, Place
  <2>1. RpiShown'
    BY <2>0, <1>3, <1>4 DEF RpiShown, Told
  <2>2. CASE phase' = 0 /\ queued # NoBuf /\ scan' = queued /\ queued' = NoBuf
    <3>1. qshown # NoBuf => scan' = IF Told THEN pending ELSE qshown
      BY <2>0, <2>2 DEF RpiShown
    <3>2. qshown # NoBuf => scan' # cur /\ (pending # NoBuf /\ ~Told => scan' # pending)
      BY <2>0, <3>1, NextBufFacts, NoBufFact DEF Ring, SwapTypeOK
    <3>3. Leaving'
      BY <1>4, <3>1 DEF Leaving, Told
    <3>4. Elsewhere'
      BY <1>4, <3>2 DEF Elsewhere, Told
    <3> QED
      BY <2>1, <3>3, <3>4 DEF RpiTimed
  <2>3. CASE ~(phase' = 0 /\ queued # NoBuf) /\ UNCHANGED <<scan, queued>>
    <3>1. queued # NoBuf /\ Near => Near'
      BY <1>0, <1>2, <1>4, <2>3, PeriodAssumption DEF Near, GlueTypeOK
    <3>2. Elsewhere'
      BY <1>4, <2>0, <2>3, <3>1 DEF Elsewhere, Told
    <3>3. ASSUME queued # NoBuf, phase' = (offset % Period) PROVE Near' /\ ~Near
      <4>1. offset \in Offsets /\ offset \in Int
        BY <1>0, PeriodAssumption DEF GlueTypeOK
      <4>2. phase' # 0 /\ phase' = phase + 1
        BY <1>2, <2>3, <3>3
      <4>3. phase' = Period + offset
        BY <1>0, <1>8, <3>3, <4>1, <4>2, ModFacts
      <4> QED
        BY <1>0, <1>4, <4>1, <4>2, <4>3, PeriodAssumption DEF Near
    <3>4. Leaving'
      <4> SUFFICES ASSUME qshown # NoBuf, scan # qshown, ~(Told /\ scan = pending)
                   PROVE  /\ queued # NoBuf
                          /\ \/ stamp[scan] = CountSucc(counter')
                             \/ stamp[scan] = counter' /\ Near'
        BY <1>4, <2>3 DEF Leaving, Told
      <4>1. /\ queued # NoBuf
            /\ stamp[scan] = CountSucc(counter) \/ (stamp[scan] = counter /\ Near)
        BY <2>0 DEF Leaving
      <4> QED
        BY <1>5, <3>1, <3>3, <4>1
    <3> QED
      BY <2>1, <3>2, <3>4 DEF RpiTimed
  <2> QED
    BY <1>3, <2>2, <2>3
<1> QED
  BY <1>1, <1>4, <1>6, <1>7, <1>8 DEF RpiInv

-----------------------------------------------------------------------------
(* The Raspberry Pi 4's actions, in the swap chain's and the glue's terms. *)
RpiSwapAction ==
  /\ UNCHANGED <<glueVars, dispVars>>
  /\ \/ SwapBegin \/ Submit \/ Completed \/ FenceSignalled
     \/ WaitReturned /\ Reached(counter, stamp[cur])
     \/ \E b \in Buf : GpuDone(b)

RpiShowAction ==
  /\ UNCHANGED swapVars
  /\ \/ pc = "present" /\ ShowBegin(pending)
     \/ Pan
     \/ faults /\ PanFails

RpiPresentedAction == ShowReturned /\ Released(counter)

RpiTimeAction == Tick /\ UNCHANGED swapVars

LEMMA RpiActions ==
  ASSUME \/ Rpi!Swap \/ Rpi!IdlePresent \/ Rpi!Render \/ Rpi!Gpu \/ Rpi!Time
         \/ faults /\ Rpi!ShowFails
  PROVE  RpiSwapAction \/ RpiShowAction \/ RpiPresentedAction \/ RpiTimeAction
<1> USE RpiNames, RpiSwapNames, RpiGlueNames
    DEF Rpi!glueVars, glueVars, Rpi!dispVars, dispVars, Rpi!swapVars, swapVars
<1>1. CASE Rpi!Swap \/ Rpi!IdlePresent \/ Rpi!SwapSubmit \/ Rpi!SwapComplete \/ Rpi!Gpu
  BY <1>1 DEF Rpi!Swap, Rpi!IdlePresent, Rpi!SwapSubmit, Rpi!SwapComplete, Rpi!Gpu,
              RpiSwapAction
<1>2. CASE Rpi!WaitVsync
  <2>1. \A n, c : Rpi!Reached(n, c) <=> Reached(n, c)
    BY DEF Rpi!Reached, Reached, Rpi!Wrap, Wrap
  <2> QED
    BY <1>2, <2>1 DEF Rpi!WaitVsync, RpiSwapAction
<1>3. CASE Rpi!Present \/ Rpi!ShowStep \/ (faults /\ Rpi!ShowFails)
  BY <1>3 DEF Rpi!Present, Rpi!ShowStep, Rpi!ShowFails, RpiShowAction
<1>4. CASE Rpi!Presented
  BY <1>4 DEF Rpi!Presented, RpiPresentedAction
<1>5. CASE Rpi!Time
  BY <1>5 DEF Rpi!Time, RpiTimeAction
<1> QED
  BY <1>1, <1>2, <1>3, <1>4, <1>5 DEF Rpi!Render

LEMMA RpiStep ==
  ASSUME IndInv, OnRpi,
         \/ Rpi!Swap \/ Rpi!IdlePresent \/ Rpi!Render \/ Rpi!Gpu \/ Rpi!Time
         \/ faults /\ Rpi!ShowFails
  PROVE  IndInv'
<1>1. RpiInv /\ faults' = faults
  BY RpiFromInd
<1>2. RpiInv'
  <2>1. CASE RpiSwapAction
    BY <1>1, <2>1, RpiSwapStep DEF RpiSwapAction
  <2>2. CASE RpiShowAction
    BY <1>1, <2>2, RpiShowStep DEF RpiShowAction
  <2>3. CASE RpiPresentedAction
    BY <1>1, <2>3, RpiPresentedStep DEF RpiPresentedAction
  <2>4. CASE RpiTimeAction
    BY <1>1, <2>4, RpiTimeStep DEF RpiTimeAction
  <2> QED
    BY <2>1, <2>2, <2>3, <2>4, RpiActions
<1> QED
  BY <1>2, RpiToInd

(* What the image for each board does in a step. *)
ImxAction ==
  \/ Imx!Swap \/ Imx!IdlePresent \/ Imx!Render \/ Imx!Gpu \/ Imx!Sync
  \/ faults /\ Imx!ShowFails

RpiAction ==
  \/ Rpi!Swap \/ Rpi!IdlePresent \/ Rpi!Render \/ Rpi!Gpu \/ Rpi!Time
  \/ faults /\ Rpi!ShowFails

LEMMA NextSplit ==
  ASSUME Next
  PROVE  (ImxAction /\ OnImx) \/ (RpiAction /\ OnRpi)
BY DEF Next, Swap, IdlePresent, Render, Gpu, Sync, ShowFails, ImxAction, RpiAction

LEMMA ImxStep ==
  ASSUME IndInv, OnImx, ImxAction
  PROVE  IndInv'
BY ImxSwapStep, ImxShowStep, ImxPresentedStep DEF ImxAction, Imx!Render

LEMMA StutterInv ==
  ASSUME IndInv, UNCHANGED vars
  PROVE  IndInv'
<1> USE DEF vars, swapVars, imxOnly, rpiOnly
<1>1. TypeOK'
  <2>1. Imx!SwapTypeOK <=> Imx!SwapTypeOK'
    BY DEF Imx!SwapTypeOK
  <2>2. Rpi!SwapTypeOK <=> Rpi!SwapTypeOK'
    BY DEF Rpi!SwapTypeOK
  <2> QED
    BY <2>1, <2>2 DEF IndInv, TypeOK, Imx!TypeOK, Imx!GlueTypeOK, Rpi!TypeOK, Rpi!GlueTypeOK
<1>2. SwapInv' /\ Showing'
  BY SwapUnchanged DEF IndInv, Showing
<1>3. (ImxShown' <=> ImxShown) /\ (RpiTimed' <=> RpiTimed)
  BY DEF ImxShown, RpiTimed, RpiShown, Leaving, Elsewhere, Told, Near
<1> QED
  BY <1>1, <1>2, <1>3 DEF IndInv

LEMMA StepInv == IndInv /\ [Next]_vars => IndInv'
BY NextSplit, ImxStep, RpiStep, StutterInv DEF RpiAction

(* IndInv holds in every reachable state, on either board, whichever flips *)
(* fail and however far the prediction is off.                             *)
THEOREM Invariance == Spec => []IndInv
BY InitInv, StepInv, PTL DEF Spec

-----------------------------------------------------------------------------
(* Type correctness, on both boards, flips failing and late predictions    *)
(* included.                                                               *)
THEOREM TypeCorrect == Spec => []TypeOK
<1>1. IndInv => TypeOK
  BY DEF IndInv
<1> QED
  BY <1>1, Invariance, PTL

(* Raspberry Pi 4: for any period, any counter width and any number of     *)
(* buffers from three up, a prediction that is at most d ahead of its edge *)
(* hands a buffer back at most d before the panel leaves it.  (One that    *)
(* runs late does not keep that promise: the claim needs the hypothesis.)  *)
THEOREM HandedBackEarly ==
  ASSUME \A d \in Offsets : d <= 0
  PROVE  Spec => []HandedBackAtMostDEarly
<1>1. IndInv => HandedBackAtMostDEarly
  <2> SUFFICES ASSUME IndInv, board = "rpi4", ~faults PROVE Rpi!HandedBackAtMostDEarly
    BY DEF HandedBackAtMostDEarly
  <2>1. GlueTypeOK /\ SwapInv /\ offset \in Offsets
    BY RpiGlueNames DEF IndInv, TypeOK, Rpi!TypeOK, GlueTypeOK
  <2>2. offset \in Int /\ offset <= 0
    BY <2>1, PeriodAssumption
  <2>3. Elsewhere
    BY <2>2 DEF IndInv, RpiTimed
  <2>4. Told => pc = "present"
    BY DEF IndInv, Showing, Told
  <2>5. qshown # NoBuf /\ scan \in rendering => queued # NoBuf /\ Near
    <3> SUFFICES ASSUME qshown # NoBuf, scan \in rendering PROVE queued # NoBuf /\ Near
      OBVIOUS
    <3>1. CASE scan = cur
      BY <2>1, <2>3, <3>1 DEF SwapInv, Writes, Elsewhere
    <3>2. CASE scan = pending
      BY <2>1, <2>3, <2>4, <3>2, NoBufFact DEF SwapInv, SwapTypeOK, Writes, Elsewhere
    <3> QED
      BY <2>1, <3>1, <3>2 DEF SwapInv, Writes
  <2> QED
    BY <2>2, <2>5, RpiNames DEF Rpi!HandedBackAtMostDEarly, Near
<1> QED
  BY <1>1, Invariance, PTL

-----------------------------------------------------------------------------
(* What GlImage shows of itself to the scan-out contract. *)
Panel == IF Claimed /\ ~FirmwarePicture THEN scan ELSE NoBuf
Flipped == IF Claimed /\ queued # scan THEN queued ELSE NoBuf
Drawn == IF Claimed THEN rendering ELSE {}

LEMMA InitContract == Init => Contract!Init
<1> SUFFICES ASSUME Init PROVE Contract!Init
  OBVIOUS
<1>1. CASE Imx!Init
  BY <1>1, ImxNames, ImxSwapNames
     DEF Imx!Init, Imx!GlueInit, SwapInit, Contract!Init
<1>2. CASE Rpi!Init
  BY <1>2, RpiGlueNames, RpiSwapNames, ZeroFacts
     DEF Rpi!Init, GlueInit, SwapInit, Contract!Init
<1> QED
  BY <1>1, <1>2 DEF Init

(* i.MX8MP: the first show powers the panel up, the write of the address   *)
(* is the flip, the refresh that latches it the sync.                      *)
LEMMA ImxContract ==
  ASSUME IndInv, OnImx, ImxAction, Claimed
  PROVE  [Contract!Next]_(Contract!vars)
<1> USE ImxNames, NoBufFact DEF Imx!glueVars, Imx!dispVars, Imx!swapVars
<1>0. /\ SwapTypeOK /\ Ring /\ Place /\ Writes /\ Showing /\ ImxShown
      /\ Imx!GlueTypeOK
  BY DEF OnImx, IndInv, TypeOK, Imx!TypeOK, SwapInv, Claimed
<1>q. /\ Panel = scan /\ Panel' = scan'
      /\ Flipped = IF queued # scan THEN queued ELSE NoBuf
      /\ Flipped' = IF queued' # scan' THEN queued' ELSE NoBuf
      /\ Drawn = rendering /\ Drawn' = rendering'
  BY DEF OnImx, Claimed, Panel, Flipped, Drawn, FirmwarePicture, rpiOnly
<1>a. CASE UNCHANGED <<scan, queued, rendering>>
  BY <1>a, <1>q DEF Contract!vars, Panel, Flipped, Drawn
<1>1. CASE Imx!Swap \/ Imx!WaitVsync \/ Imx!SwapComplete \/ Imx!IdlePresent
  BY <1>1, <1>a, ImxSwapNames
     DEF Imx!Swap, Imx!WaitVsync, Imx!SwapComplete, Imx!IdlePresent,
         SwapBegin, WaitReturned, Completed, FenceSignalled
<1>2. CASE Imx!SwapSubmit
  <2>1. Submit /\ UNCHANGED <<scan, queued>>
    BY <1>2, ImxSwapNames DEF Imx!SwapSubmit
  <2>2. call = "idle" /\ scan = qshown /\ queued = NoBuf
    BY <1>0, <2>1 DEF Showing, ImxShown, Submit
  <2>3. cur \notin rendering \cup {scan, queued}
    BY <1>0, <2>1, <2>2, NextBufFacts DEF Submit, Writes, Ring, SwapTypeOK
  <2>4. Contract!BeginWrite(cur)
    BY <1>q, <2>1, <2>2, <2>3
       DEF Submit, Contract!BeginWrite, Panel, Flipped, Drawn
  <2> QED
    BY <1>0, <2>4 DEF SwapTypeOK, Contract!Next
<1>3. CASE Imx!Gpu
  <2>1. PICK b \in Buf : GpuDone(b) /\ UNCHANGED <<scan, queued>>
    BY <1>3, ImxSwapNames DEF Imx!Gpu
  <2>2. Contract!EndWrite(b)
    BY <1>q, <2>1 DEF GpuDone, Contract!EndWrite, Panel, Flipped, Drawn
  <2> QED
    BY <2>2 DEF Contract!Next
<1>4. CASE Imx!Present
  BY <1>4, <1>a DEF Imx!Present, Imx!ShowBegin
<1>5. CASE Imx!ShowStep
  <2>1. pc = "present" /\ target = pending /\ target \in Buf /\ pending \notin rendering
        /\ UNCHANGED rendering
    BY <1>0, <1>5
       DEF Imx!ShowStep, Imx!DisplayOn, Imx!SetFb, Imx!Latched, Showing, Imx!GlueTypeOK, Writes
  <2>2. CASE Imx!DisplayOn
    <3>1. scan = NoBuf /\ queued = NoBuf /\ scan' = target /\ queued' = NoBuf
      BY <1>0, <2>2 DEF Imx!DisplayOn, ImxShown
    <3>2. Contract!PowerUp(target)
      BY <1>q, <2>1, <3>1 DEF Contract!PowerUp, Panel, Flipped, Drawn
    <3> QED
      BY <2>1, <3>2 DEF Contract!Next
  <2>3. CASE Imx!SetFb
    <3>1. /\ queued = NoBuf /\ scan = qshown /\ queued' = target /\ scan' = scan
          /\ target # scan
      BY <1>0, <2>1, <2>3, NextBufFacts DEF Imx!SetFb, ImxShown, Ring, SwapTypeOK
    <3>2. Contract!Flip(target)
      BY <1>q, <2>1, <3>1 DEF Contract!Flip, Panel, Flipped, Drawn
    <3> QED
      BY <2>1, <3>2 DEF Contract!Next
  <2>4. CASE Imx!Latched
    BY <1>a, <2>1, <2>4 DEF Imx!Latched
  <2> QED
    BY <1>5, <2>2, <2>3, <2>4 DEF Imx!ShowStep
<1>6. CASE Imx!Presented
  BY <1>6, <1>a, ImxSwapNames DEF Imx!Presented, Imx!ShowReturned, Released
<1>7. CASE Imx!Sync
  <2>1. /\ queued # NoBuf /\ scan' = queued /\ queued' = NoBuf /\ UNCHANGED rendering
        /\ queued = pending /\ scan = qshown /\ pc = "present"
    BY <1>0, <1>7 DEF Imx!Sync, Imx!Refresh, ImxShown, Showing
  <2>2. queued # scan
    BY <1>0, <2>1, NextBufFacts DEF Ring, SwapTypeOK
  <2>3. Contract!Sync
    BY <1>q, <2>1, <2>2 DEF Contract!Sync, Panel, Flipped, Drawn
  <2> QED
    BY <2>3 DEF Contract!Next
<1> QED
  BY <1>1, <1>2, <1>3, <1>4, <1>5, <1>6, <1>7 DEF ImxAction, Imx!Render, Claimed

(* Raspberry Pi 4 with an exact prediction: the first pan is the power-up  *)
(* (it names the buffer the firmware already shows), the others are flips, *)
(* the edge that latches one is the sync.                                  *)
LEMMA RpiContract ==
  ASSUME IndInv, OnRpi, RpiAction, Claimed
  PROVE  [Contract!Next]_(Contract!vars)
<1> USE NoBufFact DEF glueVars, dispVars, swapVars
<1>0. /\ SwapTypeOK /\ Ring /\ Place /\ Writes /\ Showing /\ GlueTypeOK
      /\ RpiShown /\ Elsewhere /\ ~faults /\ offset = 0
  BY RpiFromInd, PeriodAssumption DEF RpiInv, RpiTimed, SwapInv, Claimed, OnRpi
<1>n. ~Near
  BY <1>0, PeriodAssumption DEF Near, GlueTypeOK
<1>o. offset' = offset
  <2>1. CASE RpiSwapAction
    BY <2>1 DEF RpiSwapAction
  <2>2. CASE RpiShowAction
    BY <2>2 DEF RpiShowAction, ShowBegin, Pan, PanFails
  <2>3. CASE RpiPresentedAction
    BY <2>3 DEF RpiPresentedAction, ShowReturned
  <2>4. CASE RpiTimeAction
    BY <2>4 DEF RpiTimeAction, Tick
  <2> QED
    BY <2>1, <2>2, <2>3, <2>4, RpiActions DEF RpiAction
<1>p. Claimed'
  BY <1>0, <1>o DEF Claimed, OnRpi
<1>q. /\ Panel = IF qshown = NoBuf /\ call # "ok" THEN NoBuf ELSE scan
      /\ Panel' = IF qshown' = NoBuf /\ call' # "ok" THEN NoBuf ELSE scan'
      /\ Flipped = IF queued # scan THEN queued ELSE NoBuf
      /\ Flipped' = IF queued' # scan' THEN queued' ELSE NoBuf
      /\ Drawn = rendering /\ Drawn' = rendering'
  BY <1>p DEF OnRpi, Panel, Flipped, Drawn, FirmwarePicture
<1>a. CASE UNCHANGED <<Panel, Flipped, Drawn>>
  BY <1>a DEF Contract!vars, Panel, Flipped, Drawn
<1>1. CASE RpiSwapAction
  <2>0. UNCHANGED <<scan, queued, call, qshown>>
    BY <1>1 DEF RpiSwapAction, SwapBegin, WaitReturned, Submit, Completed, FenceSignalled,
                GpuDone
  <2>1. CASE UNCHANGED rendering
    BY <1>a, <1>q, <2>0, <2>1
  <2>2. CASE Submit
    <3>1. cur \notin rendering /\ call = "idle" /\ swapping
      BY <1>0, <2>2 DEF Submit, Writes, Showing, Place
    <3>2. CASE qshown = NoBuf
      BY <1>0, <1>q, <2>0, <2>2, <3>1, <3>2
         DEF RpiShown, Told, SwapTypeOK, Submit, Panel, Flipped, Drawn,
             Contract!BeginWrite, Contract!Next
    <3>3. CASE qshown # NoBuf
      <4>1. scan # cur
        BY <1>0, <1>n, <2>2, <3>1, <3>3 DEF Submit, Elsewhere
      <4>2. queued # cur
        BY <1>0, <3>1, <3>3, NextBufFacts DEF RpiShown, Told, Ring, SwapTypeOK
      <4>3. Contract!BeginWrite(cur)
        BY <1>0, <1>q, <2>0, <2>2, <3>1, <3>3, <4>1, <4>2
           DEF SwapTypeOK, Submit, Panel, Flipped, Drawn, Contract!BeginWrite
      <4> QED
        BY <1>0, <4>3 DEF SwapTypeOK, Contract!Next
    <3> QED
      BY <3>2, <3>3
  <2>3. CASE \E b \in Buf : GpuDone(b)
    <3>1. PICK b \in Buf : GpuDone(b)
      BY <2>3
    <3>2. Contract!EndWrite(b)
      BY <1>q, <2>0, <3>1 DEF GpuDone, Contract!EndWrite, Panel, Flipped, Drawn
    <3> QED
      BY <3>2 DEF Contract!Next
  <2> QED
    BY <1>1, <2>1, <2>2, <2>3
       DEF RpiSwapAction, SwapBegin, WaitReturned, Completed, FenceSignalled
<1>2. CASE RpiShowAction
  <2>1. UNCHANGED <<scan, qshown, rendering>>
    BY <1>2 DEF RpiShowAction, ShowBegin, Pan, PanFails
  <2>2. CASE ShowBegin(pending)
    BY <1>a, <1>q, <2>1, <2>2 DEF ShowBegin
  <2>3. CASE Pan
    <3>1. /\ call = "pan" /\ target = pending /\ target \in Buf /\ pending \notin rendering
          /\ queued' = target /\ call' = "ok"
      BY <1>0, <2>3 DEF Pan, Showing, Writes, GlueTypeOK
    <3>2. CASE qshown = NoBuf
      <4>1. scan = 0 /\ target = 0 /\ queued = NoBuf
        BY <1>0, <3>1, <3>2 DEF RpiShown, Told
      <4>2. Contract!PowerUp(target)
        BY <1>q, <2>1, <3>1, <3>2, <4>1 DEF Panel, Flipped, Drawn, Contract!PowerUp
      <4> QED
        BY <3>1, <4>2 DEF Contract!Next
    <3>3. CASE qshown # NoBuf
      <4>1. target # scan
        BY <1>0, <1>n, <3>1, <3>3 DEF Elsewhere, Told
      <4>2. Contract!Flip(target)
        BY <1>q, <2>1, <3>1, <3>3, <4>1 DEF Panel, Flipped, Drawn, Contract!Flip
      <4> QED
        BY <3>1, <4>2 DEF Contract!Next
    <3> QED
      BY <3>2, <3>3
  <2> QED
    BY <1>0, <1>2, <2>2, <2>3 DEF RpiShowAction
<1>3. CASE RpiPresentedAction
  <2>1. call = "ok" /\ pending # NoBuf
    BY <1>0, <1>3 DEF RpiPresentedAction, ShowReturned, RpiShown, Showing, Place
  <2>2. qshown' = pending /\ UNCHANGED <<scan, queued, rendering>>
    BY <1>3 DEF RpiPresentedAction, ShowReturned, Released
  <2> QED
    BY <1>a, <1>q, <2>1, <2>2
<1>4. CASE RpiTimeAction
  <2>1. UNCHANGED <<call, qshown, rendering>>
    BY <1>4 DEF RpiTimeAction, Tick
  <2>2. CASE UNCHANGED <<scan, queued>>
    BY <1>a, <1>q, <2>1, <2>2
  <2>3. CASE queued # NoBuf /\ scan' = queued /\ queued' = NoBuf
    <3>1. ~(qshown = NoBuf /\ call # "ok")
      BY <1>0, <2>3 DEF RpiShown, Told
    <3>2. queued \in Buf
      BY <1>0, <2>3 DEF GlueTypeOK
    <3>3. CASE queued = scan
      BY <1>a, <1>q, <2>1, <2>3, <3>1, <3>2, <3>3
    <3>4. CASE queued # scan
      <4>1. Contract!Sync
        BY <1>q, <2>1, <2>3, <3>1, <3>2, <3>4 DEF Panel, Flipped, Drawn, Contract!Sync
      <4> QED
        BY <4>1 DEF Contract!Next
    <3> QED
      BY <3>3, <3>4
  <2> QED
    BY <1>4, <2>2, <2>3 DEF RpiTimeAction, Tick
<1> QED
  BY <1>1, <1>2, <1>3, <1>4, RpiActions DEF RpiAction

(* An image the contract is not claimed of stays one. *)
LEMMA NotClaimed ==
  ASSUME IndInv, [Next]_vars, ~Claimed
  PROVE  ~Claimed'
<1> USE DEF Claimed
<1>1. CASE UNCHANGED vars
  BY <1>1 DEF vars, rpiOnly
<1>2. CASE ImxAction /\ OnImx
  BY <1>2 DEF OnImx
<1>3. CASE RpiAction /\ OnRpi
  <2>1. offset' = offset
    <3>1. CASE RpiSwapAction
      BY <3>1 DEF RpiSwapAction, dispVars
    <3>2. CASE RpiShowAction
      BY <3>2 DEF RpiShowAction, ShowBegin, Pan, PanFails, dispVars
    <3>3. CASE RpiPresentedAction
      BY <3>3 DEF RpiPresentedAction, ShowReturned, dispVars
    <3>4. CASE RpiTimeAction
      BY <3>4 DEF RpiTimeAction, Tick
    <3> QED
      BY <1>3, <3>1, <3>2, <3>3, <3>4, RpiActions DEF RpiAction
  <2> QED
    BY <1>3, <2>1 DEF OnRpi
<1> QED
  BY <1>1, <1>2, <1>3, NextSplit

LEMMA StepContract ==
  ASSUME IndInv, [Next]_vars
  PROVE  [Contract!Next]_(Contract!vars)
<1>1. CASE ~Claimed
  BY <1>1, NotClaimed DEF Contract!vars
<1>2. CASE UNCHANGED vars
  BY <1>2 DEF vars, swapVars, rpiOnly, Claimed, FirmwarePicture, Contract!vars
<1>3. CASE Claimed /\ ImxAction /\ OnImx
  BY <1>3, ImxContract
<1>4. CASE Claimed /\ RpiAction /\ OnRpi
  BY <1>4, RpiContract
<1> QED
  BY <1>1, <1>2, <1>3, <1>4, NextSplit

(* With flips that succeed, and on the Raspberry Pi 4 a prediction that is *)
(* exact, the swap chain over either glue implements the scan-out          *)
(* contract: the GPU never writes what the panel reads or turns to, on the *)
(* i.MX8MP although nothing waits before it is given a buffer.             *)
THEOREM ContractImplemented == Spec => ImplementsContract
<1>1. IndInv /\ [Next]_vars => [Contract!Next]_(Contract!vars)
  BY StepContract
<1> QED
  BY <1>1, InitContract, Invariance, PTL DEF Spec, ImplementsContract, Contract!Spec

(* What the contract gives: nobody writes what the panel reads or turns to *)
(* next.                                                                   *)
LEMMA ContractNoTear == Contract!Spec => []Contract!NoTear
<1> DEFINE Inv == Contract!TypeOK /\ Contract!NoTear
<1> USE DEF Contract!TypeOK, Contract!NoTear
<1>1. Contract!Init => Inv
  BY DEF Contract!Init
<1>2. Inv /\ [Contract!Next]_(Contract!vars) => Inv'
  <2> SUFFICES ASSUME Inv, [Contract!Next]_(Contract!vars) PROVE Inv'
    OBVIOUS
  <2>0. NoBuf \notin Buf
    BY NBufAssumption DEF NoBuf, Buf
  <2>1. ASSUME NEW b \in Buf, Contract!BeginWrite(b) PROVE Inv'
    BY <2>0, <2>1 DEF Contract!BeginWrite
  <2>2. ASSUME NEW b \in Buf, Contract!EndWrite(b) PROVE Inv'
    BY <2>2 DEF Contract!EndWrite
  <2>3. ASSUME NEW b \in Buf, Contract!Flip(b) PROVE Inv'
    BY <2>3 DEF Contract!Flip
  <2>4. ASSUME NEW b \in Buf, Contract!PowerUp(b) PROVE Inv'
    BY <2>4 DEF Contract!PowerUp
  <2>5. CASE Contract!Sync
    BY <2>0, <2>5 DEF Contract!Sync
  <2>6. CASE UNCHANGED Contract!vars
    BY <2>6 DEF Contract!vars
  <2> QED
    BY <2>1, <2>2, <2>3, <2>4, <2>5, <2>6 DEF Contract!Next
<1>3. Inv => Contract!NoTear
  OBVIOUS
<1> QED
  BY <1>1, <1>2, <1>3, PTL DEF Contract!Spec

(* As long as flips succeed and, on the Raspberry Pi 4, the prediction is  *)
(* exact, the GPU never writes the buffer the panel reads or the one it    *)
(* turns to next, from the first frame on: the swap chain's ring, the      *)
(* glue's count and the panel agree on which buffer is free.               *)
THEOREM NeverTears == Spec => [](Claimed /\ ~FirmwarePicture => NoTear)
<1>1. Contract!NoTear => (Claimed /\ ~FirmwarePicture => NoTear)
  BY DEF Contract!NoTear, NoTear
<1> QED
  BY <1>1, ContractImplemented, ContractNoTear, PTL DEF ImplementsContract

(* Whichever flips fail, on either board and however late the prediction:  *)
(* the GPU never writes the buffer the QPA believes is on screen, nor the  *)
(* one it is presenting.  Where a board tears, the panel is not yet, or    *)
(* not at all, on the buffer of that belief.                               *)
THEOREM BeliefNeverTorn ==
  Spec => [](/\ qshown \notin rendering
             /\ pc = "present" => pending \notin rendering)
<1>1. IndInv => /\ qshown \notin rendering
                /\ pc = "present" => pending \notin rendering
  BY NextBufFacts, NoBufFact DEF IndInv, SwapInv, SwapTypeOK, Ring, Writes
<1> QED
  BY <1>1, Invariance, PTL

=============================================================================
