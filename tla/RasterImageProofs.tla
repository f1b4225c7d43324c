-------------------------- MODULE RasterImageProofs --------------------------
(***************************************************************************)
(* Proofs about RasterImage: the raster path of each of the three glues,   *)
(* for every number of buffers, width of the counter, period and offset    *)
(* of the prediction, with driver calls that fail anywhere.                *)
(***************************************************************************)
EXTENDS RasterImage, TLAPS

-----------------------------------------------------------------------------
(* AM62P.  A flush copies only while nothing waits for the next sync.  The *)
(* plane, once on, shows the buffer last accepted; the next flush goes to  *)
(* the one after it, and until the plane is on the panel is dark.          *)
DssInv ==
  /\ copying # {} => call = "idle" /\ ~go
  /\ call # "idle" => target = s_raster_next
  /\ shOn = s_plane_on
  /\ shOn \/ call \in {"buffer", "plane", "ok"} => out
  /\ call \in {"output", "plane"} => ~shOn
  /\ call = "plane" => shBuf = target
  /\ call = "ok" => shOn /\ shBuf = target
  /\ IF shOn THEN shBuf # NoBuf /\ (go \/ scan = shBuf) ELSE scan = NoBuf
  /\ shOn /\ call # "ok" => NextBuf(shBuf) = s_raster_next

(* i.MX8MP.  show() waits for the latch, so the panel shows the buffer of  *)
(* the last flip except while one is under way; a flip is under way only   *)
(* when nothing is copied.                                                 *)
ImxInv ==
  /\ copying # {} => call = "idle"
  /\ call # "idle" => target = s_raster_next
  /\ call = "on" => ~s_on
  /\ call \in {"flip", "latch", "ok"} => s_on
  /\ ~s_on => scan = NoBuf
  /\ s_on => scan # NoBuf
  /\ queued # NoBuf => call = "latch" /\ queued = target
  /\ call = "ok" \/ (call = "latch" /\ queued = NoBuf) => scan = target
  /\ s_on /\ (call \in {"idle", "flip", "failed"} \/ queued # NoBuf)
       => NextBuf(scan) = s_raster_next

(* Raspberry Pi 4.  A flush copies only while no pan waits for its edge;   *)
(* s_shown is the buffer waiting for the edge, or else the one on screen.  *)
RpiInv ==
  /\ copying # {} => call = "idle" /\ queued = NoBuf
  /\ copying \in {{}, {NextBuf(s_shown)}}
  /\ s_shown = IF queued = NoBuf THEN scan ELSE queued

IndInv ==
  /\ TypeOK
  /\ board = "dss" => DssInv /\ queued = NoBuf
  /\ board = "imx8mp" => ImxInv
  /\ board = "rpi4" => RpiInv

-----------------------------------------------------------------------------
(* The buffers and the counter are the same in the three instances. *)
LEMMA DssNames ==
  /\ Dss!Buf = Buf /\ Dss!NoBuf = NoBuf /\ Dss!Count = Count
  /\ \A b : Dss!NextBuf(b) = NextBuf(b)
  /\ \A c : Dss!CountSucc(c) = CountSucc(c)
BY DEF Dss!Buf, Buf, Dss!NoBuf, NoBuf, Dss!Count, Count, Dss!Wrap, Wrap,
       Dss!NextBuf, NextBuf, Dss!CountSucc, CountSucc

LEMMA ImxNames ==
  /\ Imx!Buf = Buf /\ Imx!NoBuf = NoBuf /\ Imx!Count = Count
  /\ \A b : Imx!NextBuf(b) = NextBuf(b)
  /\ \A c : Imx!CountSucc(c) = CountSucc(c)
BY DEF Imx!Buf, Buf, Imx!NoBuf, NoBuf, Imx!Count, Count, Imx!Wrap, Wrap,
       Imx!NextBuf, NextBuf, Imx!CountSucc, CountSucc

LEMMA RpiNames ==
  /\ Rpi!Buf = Buf /\ Rpi!NoBuf = NoBuf /\ Rpi!Count = Count
  /\ \A c : Rpi!CountSucc(c) = CountSucc(c)
BY DEF Rpi!Buf, Buf, Rpi!NoBuf, NoBuf, Rpi!Count, Count, Rpi!Wrap, Wrap,
       Rpi!CountSucc, CountSucc

LEMMA NextBufFacts ==
  ASSUME NEW b \in Buf
  PROVE  /\ NextBuf(b) \in Buf
         /\ NBuf >= 2 => NextBuf(b) # b
BY NBufAssumption DEF Buf, NextBuf

LEMMA CountSuccType ==
  ASSUME NEW c \in Count
  PROVE  CountSucc(c) \in Count
BY HalfAssumption DEF Count, CountSucc, Wrap

LEMMA NoBufFact == NoBuf \notin Buf
BY DEF NoBuf, Buf

LEMMA ZeroFacts == 0 \in Buf /\ 0 \in Count
BY NBufAssumption, HalfAssumption DEF Buf, Count, Wrap

(* The Pi's (s_shown + 1) % FB_COUNT, one buffer or more. *)
LEMMA TargetIsNext ==
  ASSUME s_shown \in Buf
  PROVE  Rpi!Target = NextBuf(s_shown)
<1>1. CASE NBuf = 1
  BY <1>1 DEF Rpi!Target, NextBuf, Buf
<1>2. CASE NBuf > 1 /\ s_shown = NBuf - 1
  <2>1. NBuf % NBuf = 0
    BY NBufAssumption, SMT
  <2> QED
    BY <1>2, <2>1, NBufAssumption DEF Rpi!Target, NextBuf
<1>3. CASE NBuf > 1 /\ s_shown # NBuf - 1
  <2>1. s_shown + 1 \in 0..(NBuf - 1)
    BY <1>3, NBufAssumption DEF Buf
  <2>2. (s_shown + 1) % NBuf = s_shown + 1
    BY <2>1, NBufAssumption, SMT
  <2> QED
    BY <1>3, <2>2 DEF Rpi!Target, NextBuf
<1> QED
  BY <1>1, <1>2, <1>3, NBufAssumption

-----------------------------------------------------------------------------
(* The invariant is inductive *)

LEMMA InitInv == Init => IndInv
<1> USE ZeroFacts, NoBufFact
<1>1. ASSUME board = "dss", Dss!Init, queued = NoBuf PROVE IndInv
  <2>1. TypeOK
    BY <1>1, DssNames
       DEF TypeOK, Board, Dss!Init, Dss!GlueInit, Dss!TypeOK, Dss!GlueTypeOK, Dss!Call
  <2>2. DssInv
    BY <1>1, DssNames DEF DssInv, Dss!Init, Dss!GlueInit
  <2> QED
    BY <1>1, <2>1, <2>2 DEF IndInv
<1>2. ASSUME board = "imx8mp", Imx!Init PROVE IndInv
  <2>1. TypeOK
    BY <1>2, ImxNames
       DEF TypeOK, Board, Imx!Init, Imx!GlueInit, Imx!TypeOK, Imx!GlueTypeOK, Imx!Call
  <2>2. ImxInv
    BY <1>2, ImxNames DEF ImxInv, Imx!Init, Imx!GlueInit
  <2> QED
    BY <1>2, <2>1, <2>2 DEF IndInv
<1>3. ASSUME board = "rpi4", Rpi!Init PROVE IndInv
  <2>1. TypeOK
    BY <1>3, RpiNames, PeriodAssumption
       DEF TypeOK, Board, Rpi!Init, Rpi!GlueInit, Rpi!TypeOK, Rpi!GlueTypeOK
  <2>2. RpiInv
    BY <1>3, RpiNames DEF RpiInv, Rpi!Init, Rpi!GlueInit
  <2> QED
    BY <1>3, <2>1, <2>2 DEF IndInv
<1> QED
  BY <1>1, <1>2, <1>3 DEF Init

(* AM62P: one step per action of its raster path. *)
LEMMA DssStep ==
  ASSUME IndInv, OnDss, Dss!PacedFlush \/ Dss!Write \/ Dss!Sync
  PROVE  IndInv'
<1> USE DssNames, NoBufFact DEF Dss!glueVars, Dss!dispVars
<1>0. /\ board = "dss" /\ board' = "dss" /\ queued = NoBuf /\ queued' = NoBuf
      /\ Dss!TypeOK /\ DssInv
  BY DEF OnDss, IndInv, TypeOK
<1> SUFFICES Dss!TypeOK' /\ DssInv'
  BY <1>0 DEF IndInv, TypeOK, Board
<1>1. CASE Dss!PacedFlush
  <2>1. Dss!TypeOK'
    BY <1>0, <1>1 DEF Dss!PacedFlush, Dss!Flush, Dss!TypeOK, Dss!GlueTypeOK
  <2>2. DssInv'
    BY <1>0, <1>1 DEF Dss!PacedFlush, Dss!Flush, DssInv
  <2> QED
    BY <2>1, <2>2
<1>2. CASE Dss!Copied
  <2>1. Dss!TypeOK'
    BY <1>0, <1>2
       DEF Dss!Copied, Dss!ShowBegin, Dss!CallAfter, Dss!TypeOK, Dss!GlueTypeOK, Dss!Call
  <2>2. DssInv'
    BY <1>0, <1>2 DEF Dss!Copied, Dss!ShowBegin, Dss!CallAfter, DssInv
  <2> QED
    BY <2>1, <2>2
<1>3. CASE Dss!OutputEnable /\ UNCHANGED <<s_raster_next, copying>>
  <2>1. Dss!TypeOK'
    BY <1>0, <1>3 DEF Dss!OutputEnable, Dss!CallAfter, Dss!TypeOK, Dss!GlueTypeOK, Dss!Call
  <2>2. DssInv'
    BY <1>0, <1>3 DEF Dss!OutputEnable, Dss!CallAfter, DssInv
  <2> QED
    BY <2>1, <2>2
<1>4. CASE Dss!SetAppBuffer /\ UNCHANGED <<s_raster_next, copying>>
  <2>1. Dss!TypeOK'
    BY <1>0, <1>4 DEF Dss!SetAppBuffer, Dss!CallAfter, Dss!TypeOK, Dss!GlueTypeOK, Dss!Call
  <2>2. DssInv'
    BY <1>0, <1>4
       DEF Dss!SetAppBuffer, Dss!CallAfter, Dss!TypeOK, Dss!GlueTypeOK, DssInv
  <2> QED
    BY <2>1, <2>2
<1>5. CASE Dss!EnableAppPlane /\ UNCHANGED <<s_raster_next, copying>>
  <2>1. Dss!TypeOK'
    BY <1>0, <1>5 DEF Dss!EnableAppPlane, Dss!CallAfter, Dss!TypeOK, Dss!GlueTypeOK, Dss!Call
  <2>2. DssInv'
    BY <1>0, <1>5
       DEF Dss!EnableAppPlane, Dss!CallAfter, Dss!TypeOK, Dss!GlueTypeOK, DssInv
  <2> QED
    BY <2>1, <2>2
<1>6. CASE Dss!DriverFails /\ UNCHANGED <<s_raster_next, copying>>
  <2>1. Dss!TypeOK'
    BY <1>0, <1>6 DEF Dss!DriverFails, Dss!TypeOK, Dss!GlueTypeOK, Dss!Call
  <2>2. DssInv'
    BY <1>0, <1>6 DEF Dss!DriverFails, DssInv
  <2> QED
    BY <2>1, <2>2
<1>7. CASE Dss!Flushed
  <2>1. copying = {}
    BY <1>0, <1>7 DEF Dss!Flushed, Dss!ShowReturned, DssInv
  <2>2. Dss!TypeOK'
    BY <1>0, <1>7, <2>1, NextBufFacts
       DEF Dss!Flushed, Dss!ShowReturned, Dss!TypeOK, Dss!GlueTypeOK, Dss!Call
  <2>3. DssInv'
    BY <1>0, <1>7, <2>1 DEF Dss!Flushed, Dss!ShowReturned, DssInv
  <2> QED
    BY <2>2, <2>3
<1>8. CASE Dss!Sync
  <2>1. Dss!TypeOK'
    BY <1>0, <1>8, CountSuccType DEF Dss!Sync, Dss!Vsync, Dss!TypeOK, Dss!GlueTypeOK
  <2>2. DssInv'
    BY <1>0, <1>8 DEF Dss!Sync, Dss!Vsync, DssInv
  <2> QED
    BY <2>1, <2>2
<1> QED
  BY <1>1, <1>2, <1>3, <1>4, <1>5, <1>6, <1>7, <1>8 DEF Dss!Write, Dss!ShowStep

(* i.MX8MP: one step per action of its raster path. *)
LEMMA ImxStep ==
  ASSUME IndInv, OnImx, Imx!Flush \/ Imx!Write \/ Imx!Sync
  PROVE  IndInv'
<1> USE ImxNames, NoBufFact DEF Imx!glueVars, Imx!dispVars
<1>0. board = "imx8mp" /\ board' = "imx8mp" /\ Imx!TypeOK /\ ImxInv
  BY DEF OnImx, IndInv, TypeOK
<1> SUFFICES Imx!TypeOK' /\ ImxInv'
  BY <1>0 DEF IndInv, TypeOK, Board
<1>1. CASE Imx!Flush
  <2>1. Imx!TypeOK'
    BY <1>0, <1>1 DEF Imx!Flush, Imx!TypeOK, Imx!GlueTypeOK
  <2>2. ImxInv'
    BY <1>0, <1>1 DEF Imx!Flush, ImxInv
  <2> QED
    BY <2>1, <2>2
<1>2. CASE Imx!Copied
  <2>1. Imx!TypeOK'
    BY <1>0, <1>2 DEF Imx!Copied, Imx!ShowBegin, Imx!TypeOK, Imx!GlueTypeOK, Imx!Call
  <2>2. ImxInv'
    BY <1>0, <1>2 DEF Imx!Copied, Imx!ShowBegin, ImxInv
  <2> QED
    BY <2>1, <2>2
<1>3. CASE Imx!DisplayOn /\ UNCHANGED <<s_raster_next, copying>>
  <2>1. Imx!TypeOK'
    BY <1>0, <1>3, CountSuccType DEF Imx!DisplayOn, Imx!TypeOK, Imx!GlueTypeOK, Imx!Call
  <2>2. ImxInv'
    BY <1>0, <1>3 DEF Imx!DisplayOn, Imx!TypeOK, Imx!GlueTypeOK, ImxInv
  <2> QED
    BY <2>1, <2>2
<1>4. CASE Imx!SetFb /\ UNCHANGED <<s_raster_next, copying>>
  <2>1. Imx!TypeOK'
    BY <1>0, <1>4 DEF Imx!SetFb, Imx!TypeOK, Imx!GlueTypeOK, Imx!Call
  <2>2. ImxInv'
    BY <1>0, <1>4 DEF Imx!SetFb, Imx!TypeOK, Imx!GlueTypeOK, ImxInv
  <2> QED
    BY <2>1, <2>2
<1>5. CASE Imx!Latched /\ UNCHANGED <<s_raster_next, copying>>
  <2>1. Imx!TypeOK'
    BY <1>0, <1>5, CountSuccType DEF Imx!Latched, Imx!TypeOK, Imx!GlueTypeOK, Imx!Call
  <2>2. ImxInv'
    BY <1>0, <1>5 DEF Imx!Latched, ImxInv
  <2> QED
    BY <2>1, <2>2
<1>6. CASE Imx!DriverFails /\ UNCHANGED <<s_raster_next, copying>>
  <2>1. Imx!TypeOK'
    BY <1>0, <1>6 DEF Imx!DriverFails, Imx!TypeOK, Imx!GlueTypeOK, Imx!Call
  <2>2. ImxInv'
    BY <1>0, <1>6 DEF Imx!DriverFails, ImxInv
  <2> QED
    BY <2>1, <2>2
<1>7. CASE Imx!Flushed
  <2>1. copying = {}
    BY <1>0, <1>7 DEF Imx!Flushed, Imx!ShowReturned, ImxInv
  <2>2. Imx!TypeOK'
    BY <1>0, <1>7, <2>1, NextBufFacts
       DEF Imx!Flushed, Imx!ShowReturned, Imx!TypeOK, Imx!GlueTypeOK, Imx!Call
  <2>3. ImxInv'
    BY <1>0, <1>7, <2>1 DEF Imx!Flushed, Imx!ShowReturned, ImxInv
  <2> QED
    BY <2>2, <2>3
<1>8. CASE Imx!Sync
  <2>1. Imx!TypeOK'
    BY <1>0, <1>8 DEF Imx!Sync, Imx!Refresh, Imx!TypeOK, Imx!GlueTypeOK
  <2>2. ImxInv'
    BY <1>0, <1>8 DEF Imx!Sync, Imx!Refresh, ImxInv
  <2> QED
    BY <2>1, <2>2
<1> QED
  BY <1>1, <1>2, <1>3, <1>4, <1>5, <1>6, <1>7, <1>8 DEF Imx!Write, Imx!ShowStep

(* Raspberry Pi 4: one step per action of its raster path. *)
LEMMA RpiStep ==
  ASSUME IndInv, OnRpi, Rpi!PacedFlush \/ Rpi!Write \/ Rpi!Time
  PROVE  IndInv'
<1> USE RpiNames, NoBufFact DEF Rpi!glueVars, Rpi!dispVars
<1>0. board = "rpi4" /\ board' = "rpi4" /\ Rpi!TypeOK /\ RpiInv
  BY DEF OnRpi, IndInv, TypeOK
<1> SUFFICES Rpi!TypeOK' /\ RpiInv'
  BY <1>0 DEF IndInv, TypeOK, Board
<1>1. CASE Rpi!PacedFlush
  <2>1. copying' = {NextBuf(s_shown)} /\ NextBuf(s_shown) \in Buf
    BY <1>0, <1>1, TargetIsNext, NextBufFacts
       DEF Rpi!PacedFlush, Rpi!Flush, Rpi!TypeOK, Rpi!GlueTypeOK
  <2>2. Rpi!TypeOK'
    BY <1>0, <1>1, <2>1 DEF Rpi!PacedFlush, Rpi!Flush, Rpi!TypeOK, Rpi!GlueTypeOK
  <2>3. RpiInv'
    BY <1>0, <1>1, <2>1 DEF Rpi!PacedFlush, Rpi!Flush, RpiInv
  <2> QED
    BY <2>2, <2>3
<1>2. CASE Rpi!Copied
  <2>1. PICK b \in copying : Rpi!ShowBegin(b)
    BY <1>2 DEF Rpi!Copied
  <2>2. b \in Buf
    BY <1>0 DEF Rpi!TypeOK
  <2>3. Rpi!TypeOK'
    BY <1>0, <1>2, <2>1, <2>2, ZeroFacts
       DEF Rpi!Copied, Rpi!ShowBegin, Rpi!TypeOK, Rpi!GlueTypeOK
  <2>4. RpiInv'
    BY <1>0, <1>2, <2>1 DEF Rpi!Copied, Rpi!ShowBegin, RpiInv
  <2> QED
    BY <2>3, <2>4
<1>3. CASE Rpi!Pan /\ UNCHANGED copying
  <2>1. Rpi!TypeOK'
    BY <1>0, <1>3 DEF Rpi!Pan, Rpi!TypeOK, Rpi!GlueTypeOK
  <2>2. RpiInv'
    BY <1>0, <1>3 DEF Rpi!Pan, RpiInv, Rpi!TypeOK, Rpi!GlueTypeOK
  <2> QED
    BY <2>1, <2>2
<1>4. CASE (Rpi!PanFails /\ UNCHANGED copying) \/ Rpi!Flushed
  <2>1. Rpi!TypeOK'
    BY <1>0, <1>4 DEF Rpi!PanFails, Rpi!Flushed, Rpi!ShowReturned, Rpi!TypeOK, Rpi!GlueTypeOK
  <2>2. RpiInv'
    BY <1>0, <1>4 DEF Rpi!PanFails, Rpi!Flushed, Rpi!ShowReturned, RpiInv
  <2> QED
    BY <2>1, <2>2
<1>5. CASE Rpi!Time
  <2>1. phase' \in 0..(Period - 1)
    <3>1. phase + 1 \in Int /\ Period \in Nat /\ Period > 0
      BY <1>0, PeriodAssumption DEF Rpi!TypeOK, Rpi!GlueTypeOK
    <3>2. (phase + 1) % Period \in 0..(Period - 1)
      BY <3>1, SMT
    <3> QED
      BY <1>5, <3>2 DEF Rpi!Time, Rpi!Tick
  <2>2. counter' \in Count
    BY <1>0, <1>5, CountSuccType DEF Rpi!Time, Rpi!Tick, Rpi!TypeOK, Rpi!GlueTypeOK
  <2>3. \/ UNCHANGED <<scan, queued>>
        \/ queued # NoBuf /\ scan' = queued /\ queued' = NoBuf
    BY <1>5 DEF Rpi!Time, Rpi!Tick
  <2>4. UNCHANGED <<s_shown, call, target, offset, copying>>
    BY <1>5 DEF Rpi!Time, Rpi!Tick
  <2>5. Rpi!TypeOK'
    BY <1>0, <2>1, <2>2, <2>3, <2>4 DEF Rpi!TypeOK, Rpi!GlueTypeOK
  <2>6. RpiInv'
    BY <1>0, <2>3, <2>4 DEF RpiInv
  <2> QED
    BY <2>5, <2>6
<1> QED
  BY <1>1, <1>2, <1>3, <1>4, <1>5 DEF Rpi!Write, Rpi!ShowStep

LEMMA StutterInv ==
  ASSUME IndInv, UNCHANGED vars
  PROVE  IndInv'
<1> USE DEF vars, dssOnly, imxOnly, rpiOnly
<1>1. TypeOK'
  BY DEF IndInv, TypeOK, Dss!TypeOK, Dss!GlueTypeOK, Imx!TypeOK, Imx!GlueTypeOK,
         Rpi!TypeOK, Rpi!GlueTypeOK
<1>2. (DssInv' <=> DssInv) /\ (ImxInv' <=> ImxInv) /\ (RpiInv' <=> RpiInv)
  BY DEF DssInv, ImxInv, RpiInv
<1> QED
  BY <1>1, <1>2 DEF IndInv

LEMMA StepInv == IndInv /\ [Next]_vars => IndInv'
<1> SUFFICES ASSUME IndInv, [Next]_vars PROVE IndInv'
  OBVIOUS
<1>1. CASE OnDss /\ (Dss!PacedFlush \/ Dss!Write \/ Dss!Sync)
  BY <1>1, DssStep
<1>2. CASE OnImx /\ (Imx!Flush \/ Imx!Write \/ Imx!Sync)
  BY <1>2, ImxStep
<1>3. CASE OnRpi /\ (Rpi!PacedFlush \/ Rpi!Write \/ Rpi!Time)
  BY <1>3, RpiStep
<1>4. CASE UNCHANGED vars
  BY <1>4, StutterInv
<1> QED
  BY <1>1, <1>2, <1>3, <1>4 DEF Next, PacedFlush, Write, Sync

(* IndInv holds in every reachable state, whichever board it is. *)
THEOREM Invariance == Spec => []IndInv
BY InitInv, StepInv, PTL DEF Spec

-----------------------------------------------------------------------------
(* Type correctness, on each board and with any number of buffers: a flush *)
(* copies into one buffer of the ring at a time.                           *)
THEOREM TypeCorrect == Spec => []TypeOK
<1>1. IndInv => TypeOK
  BY DEF IndInv
<1> QED
  BY <1>1, Invariance, PTL

(* AM62P, i.MX8MP: with any number of buffers and driver calls failing     *)
(* anywhere in show(), the panel shows the buffer before the one the next  *)
(* flush goes to, once it has latched the last flip.                       *)
THEOREM StaysOneBehind == Spec => []OneBehind
<1>1. ASSUME IndInv, board = "dss" PROVE Dss!OneBehind
  <2>1. DssInv
    BY <1>1 DEF IndInv
  <2> QED
    BY <2>1, DssNames DEF DssInv, Dss!OneBehind
<1>2. ASSUME IndInv, board = "imx8mp" PROVE Imx!OneBehind
  <2>1. ImxInv
    BY <1>2 DEF IndInv
  <2> QED
    BY <2>1, ImxNames DEF ImxInv, Imx!OneBehind
<1>3. IndInv => OneBehind
  BY <1>1, <1>2 DEF OneBehind
<1> QED
  BY <1>3, Invariance, PTL

(* Raspberry Pi 4: whichever pans are refused, s_shown is what the panel   *)
(* reads once no pan waits for its edge.                                   *)
THEOREM ShownStaysScanned == Spec => []ShownIsScanned
<1>1. IndInv => ShownIsScanned
  BY RpiNames DEF IndInv, RpiInv, ShownIsScanned, Rpi!ShownIsScanned
<1> QED
  BY <1>1, Invariance, PTL

-----------------------------------------------------------------------------
(* The raster path implements the scan-out contract *)

LEMMA InitContract == Init => Contract!Init
<1> USE DssNames, ImxNames, RpiNames, NoBufFact, ZeroFacts
<1>1. ASSUME board = "dss", Dss!Init, queued = NoBuf PROVE Contract!Init
  BY <1>1 DEF Dss!Init, Dss!GlueInit, Contract!Init, QueuedFrame, Dss!Queued
<1>2. ASSUME board = "imx8mp", Imx!Init PROVE Contract!Init
  BY <1>2 DEF Imx!Init, Imx!GlueInit, Contract!Init, QueuedFrame
<1>3. ASSUME board = "rpi4", Rpi!Init PROVE Contract!Init
  BY <1>3 DEF Rpi!Init, Rpi!GlueInit, Contract!Init, QueuedFrame
<1> QED
  BY <1>1, <1>2, <1>3 DEF Init

(* AM62P: the copy begins and ends a write; the driver call that commits   *)
(* with the plane on is the flip; a sync that latches is the contract's.   *)
LEMMA DssContract ==
  ASSUME NBuf >= 2, IndInv, OnDss, Dss!PacedFlush \/ Dss!Write \/ Dss!Sync
  PROVE  [Contract!Next]_(Contract!vars)
<1> USE DssNames, NoBufFact DEF Dss!glueVars, Dss!dispVars
<1>0. Dss!TypeOK /\ DssInv /\ s_raster_next \in Buf /\ target \in Buf
  BY DEF OnDss, IndInv, TypeOK, Dss!TypeOK, Dss!GlueTypeOK
<1>q. QueuedFrame = Dss!Queued /\ QueuedFrame' = Dss!Queued'
  BY DEF OnDss, QueuedFrame
<1>1. CASE Dss!PacedFlush
  <2>1. s_raster_next \notin {scan, QueuedFrame}
    BY <1>0, <1>1, <1>q, NextBufFacts
       DEF Dss!PacedFlush, Dss!Flush, Dss!Queued, DssInv, Dss!TypeOK, Dss!GlueTypeOK
  <2>2. Contract!BeginWrite(s_raster_next)
    BY <1>1, <1>q, <2>1 DEF Dss!PacedFlush, Dss!Flush, Dss!Queued, Contract!BeginWrite
  <2> QED
    BY <1>0, <2>2 DEF Contract!Next
<1>2. CASE Dss!Copied
  <2>1. Contract!EndWrite(s_raster_next)
    BY <1>0, <1>2, <1>q
       DEF Dss!Copied, Dss!ShowBegin, Dss!Queued, Dss!TypeOK, Contract!EndWrite
  <2> QED
    BY <1>0, <2>1 DEF Contract!Next
<1>3. CASE (Dss!OutputEnable \/ Dss!DriverFails) /\ UNCHANGED <<s_raster_next, copying>>
  BY <1>3, <1>q DEF Dss!OutputEnable, Dss!DriverFails, Dss!Queued, Contract!vars
<1>4. CASE Dss!SetAppBuffer /\ UNCHANGED <<s_raster_next, copying>>
  <2>1. CASE shOn
    <3>1. Contract!Flip(target)
      BY <1>0, <1>4, <1>q, <2>1 DEF Dss!SetAppBuffer, Dss!Queued, DssInv, Contract!Flip
    <3> QED
      BY <1>0, <3>1 DEF Contract!Next
  <2>2. CASE ~shOn
    BY <1>4, <1>q, <2>2 DEF Dss!SetAppBuffer, Dss!Queued, Contract!vars
  <2> QED
    BY <2>1, <2>2
<1>5. CASE Dss!EnableAppPlane /\ UNCHANGED <<s_raster_next, copying>>
  <2>1. Contract!Flip(target)
    BY <1>0, <1>5, <1>q DEF Dss!EnableAppPlane, Dss!Queued, DssInv, Contract!Flip
  <2> QED
    BY <1>0, <2>1 DEF Contract!Next
<1>6. CASE Dss!Flushed
  BY <1>6, <1>q DEF Dss!Flushed, Dss!ShowReturned, Dss!Queued, Contract!vars
<1>7. CASE Dss!Sync
  <2>1. CASE go /\ shOn
    <3>1. Contract!Sync
      BY <1>0, <1>7, <1>q, <2>1 DEF Dss!Sync, Dss!Vsync, Dss!Queued, DssInv, Contract!Sync
    <3> QED
      BY <3>1 DEF Contract!Next
  <2>2. CASE ~(go /\ shOn)
    BY <1>0, <1>7, <1>q, <2>2 DEF Dss!Sync, Dss!Vsync, Dss!Queued, DssInv, Contract!vars
  <2> QED
    BY <2>1, <2>2
<1> QED
  BY <1>1, <1>2, <1>3, <1>4, <1>5, <1>6, <1>7 DEF Dss!Write, Dss!ShowStep

(* i.MX8MP: the first show powers the panel up, the write of the address   *)
(* is the flip, the refresh that latches it the sync.                      *)
LEMMA ImxContract ==
  ASSUME NBuf >= 2, IndInv, OnImx, Imx!Flush \/ Imx!Write \/ Imx!Sync
  PROVE  [Contract!Next]_(Contract!vars)
<1> USE ImxNames, NoBufFact DEF Imx!glueVars, Imx!dispVars
<1>0. Imx!TypeOK /\ ImxInv /\ s_raster_next \in Buf /\ target \in Buf
  BY DEF OnImx, IndInv, TypeOK, Imx!TypeOK, Imx!GlueTypeOK
<1>q. QueuedFrame = queued /\ QueuedFrame' = queued'
  BY DEF OnImx, QueuedFrame
<1>1. CASE Imx!Flush
  <2>1. s_raster_next \notin {scan, queued}
    BY <1>0, <1>1, NextBufFacts DEF Imx!Flush, ImxInv, Imx!TypeOK, Imx!GlueTypeOK
  <2>2. Contract!BeginWrite(s_raster_next)
    BY <1>1, <1>q, <2>1 DEF Imx!Flush, Contract!BeginWrite
  <2> QED
    BY <1>0, <2>2 DEF Contract!Next
<1>2. CASE Imx!Copied
  <2>1. Contract!EndWrite(s_raster_next)
    BY <1>0, <1>2, <1>q DEF Imx!Copied, Imx!ShowBegin, Imx!TypeOK, Contract!EndWrite
  <2> QED
    BY <1>0, <2>1 DEF Contract!Next
<1>3. CASE Imx!DisplayOn /\ UNCHANGED <<s_raster_next, copying>>
  <2>1. Contract!PowerUp(target)
    BY <1>0, <1>3, <1>q DEF Imx!DisplayOn, ImxInv, Contract!PowerUp
  <2> QED
    BY <1>0, <2>1 DEF Contract!Next
<1>4. CASE Imx!SetFb /\ UNCHANGED <<s_raster_next, copying>>
  <2>1. Contract!Flip(target)
    BY <1>0, <1>4, <1>q DEF Imx!SetFb, ImxInv, Contract!Flip
  <2> QED
    BY <1>0, <2>1 DEF Contract!Next
<1>5. CASE (Imx!Latched \/ Imx!DriverFails) /\ UNCHANGED <<s_raster_next, copying>>
  BY <1>5, <1>q DEF Imx!Latched, Imx!DriverFails, Contract!vars
<1>6. CASE Imx!Flushed
  BY <1>6, <1>q DEF Imx!Flushed, Imx!ShowReturned, Contract!vars
<1>7. CASE Imx!Sync
  <2>1. Contract!Sync
    BY <1>7, <1>q DEF Imx!Sync, Imx!Refresh, Contract!Sync
  <2> QED
    BY <2>1 DEF Contract!Next
<1> QED
  BY <1>1, <1>2, <1>3, <1>4, <1>5, <1>6, <1>7 DEF Imx!Write, Imx!ShowStep

(* Raspberry Pi 4: an accepted pan is the flip, the edge that latches it   *)
(* the sync.                                                               *)
LEMMA RpiContract ==
  ASSUME NBuf >= 2, IndInv, OnRpi, Rpi!PacedFlush \/ Rpi!Write \/ Rpi!Time
  PROVE  [Contract!Next]_(Contract!vars)
<1> USE RpiNames, NoBufFact DEF Rpi!glueVars, Rpi!dispVars
<1>0. Rpi!TypeOK /\ RpiInv /\ s_shown \in Buf /\ target \in Buf
  BY DEF OnRpi, IndInv, TypeOK, Rpi!TypeOK, Rpi!GlueTypeOK
<1>q. QueuedFrame = queued /\ QueuedFrame' = queued'
  BY DEF OnRpi, QueuedFrame
<1>1. CASE Rpi!PacedFlush
  <2>1. NextBuf(s_shown) \in Buf /\ NextBuf(s_shown) \notin {scan, queued}
    BY <1>0, <1>1, NextBufFacts DEF Rpi!PacedFlush, RpiInv
  <2>2. Contract!BeginWrite(NextBuf(s_shown))
    BY <1>0, <1>1, <1>q, <2>1, TargetIsNext DEF Rpi!PacedFlush, Rpi!Flush, Contract!BeginWrite
  <2> QED
    BY <2>1, <2>2 DEF Contract!Next
<1>2. CASE Rpi!Copied
  <2>1. PICK b \in copying : Rpi!ShowBegin(b)
    BY <1>2 DEF Rpi!Copied
  <2>2. b \in Buf /\ copying = {b}
    BY <1>0 DEF Rpi!TypeOK
  <2>3. Contract!EndWrite(b)
    BY <1>2, <1>q, <2>1, <2>2 DEF Rpi!Copied, Rpi!ShowBegin, Contract!EndWrite
  <2> QED
    BY <2>2, <2>3 DEF Contract!Next
<1>3. CASE Rpi!Pan /\ UNCHANGED copying
  <2>1. Contract!Flip(target)
    BY <1>0, <1>3, <1>q DEF Rpi!Pan, RpiInv, Contract!Flip
  <2> QED
    BY <1>0, <2>1 DEF Contract!Next
<1>4. CASE (Rpi!PanFails /\ UNCHANGED copying) \/ Rpi!Flushed
  BY <1>4, <1>q DEF Rpi!PanFails, Rpi!Flushed, Rpi!ShowReturned, Contract!vars
<1>5. CASE Rpi!Time
  <2>1. \/ UNCHANGED <<scan, queued>>
        \/ queued # NoBuf /\ scan' = queued /\ queued' = NoBuf
    BY <1>5 DEF Rpi!Time, Rpi!Tick
  <2>2. UNCHANGED copying
    BY <1>5 DEF Rpi!Time
  <2> QED
    BY <1>q, <2>1, <2>2 DEF Contract!Sync, Contract!Next, Contract!vars
<1> QED
  BY <1>1, <1>2, <1>3, <1>4, <1>5 DEF Rpi!Write, Rpi!ShowStep

LEMMA StepContract ==
  ASSUME NBuf >= 2, IndInv, [Next]_vars
  PROVE  [Contract!Next]_(Contract!vars)
<1>1. CASE OnDss /\ (Dss!PacedFlush \/ Dss!Write \/ Dss!Sync)
  BY <1>1, DssContract
<1>2. CASE OnImx /\ (Imx!Flush \/ Imx!Write \/ Imx!Sync)
  BY <1>2, ImxContract
<1>3. CASE OnRpi /\ (Rpi!PacedFlush \/ Rpi!Write \/ Rpi!Time)
  BY <1>3, RpiContract
<1>4. CASE UNCHANGED vars
  BY <1>4 DEF vars, dssOnly, Contract!vars, QueuedFrame, Dss!Queued
<1> QED
  BY <1>1, <1>2, <1>3, <1>4 DEF Next, PacedFlush, Write, Sync

(* On each board the raster path, flushed at the pace of Spec, implements  *)
(* the scan-out contract: with two buffers or more a flush never copies    *)
(* into the buffer the panel reads or turns to, whichever driver calls     *)
(* fail.  (A single buffer is copied into while it is read; there is no    *)
(* other.)                                                                 *)
THEOREM ContractImplemented ==
  ASSUME NBuf >= 2
  PROVE  Spec => ImplementsContract
<1>1. IndInv /\ [Next]_vars => [Contract!Next]_(Contract!vars)
  BY StepContract
<1> QED
  BY <1>1, InitContract, Invariance, PTL DEF Spec, ImplementsContract, Contract!Spec

(* What the contract gives: nobody writes what the panel reads or turns to *)
(* next.                                                                   *)
LEMMA ContractNoTear == Contract!Spec => []Contract!NoTear
<1> DEFINE Inv == Contract!TypeOK /\ Contract!NoTear
<1> USE DEF Contract!TypeOK, Contract!NoTear
<1>1. Contract!Init => Inv
  BY DEF Contract!Init
<1>2. Inv /\ [Contract!Next]_(Contract!vars) => Inv'
  <2> SUFFICES ASSUME Inv, [Contract!Next]_(Contract!vars) PROVE Inv'
    OBVIOUS
  <2>0. NoBuf \notin Buf
    BY NBufAssumption DEF NoBuf, Buf
  <2>1. ASSUME NEW b \in Buf, Contract!BeginWrite(b) PROVE Inv'
    BY <2>0, <2>1 DEF Contract!BeginWrite
  <2>2. ASSUME NEW b \in Buf, Contract!EndWrite(b) PROVE Inv'
    BY <2>2 DEF Contract!EndWrite
  <2>3. ASSUME NEW b \in Buf, Contract!Flip(b) PROVE Inv'
    BY <2>3 DEF Contract!Flip
  <2>4. ASSUME NEW b \in Buf, Contract!PowerUp(b) PROVE Inv'
    BY <2>4 DEF Contract!PowerUp
  <2>5. CASE Contract!Sync
    BY <2>0, <2>5 DEF Contract!Sync
  <2>6. CASE UNCHANGED Contract!vars
    BY <2>6 DEF Contract!vars
  <2> QED
    BY <2>1, <2>2, <2>3, <2>4, <2>5, <2>6 DEF Contract!Next
<1>3. Inv => Contract!NoTear
  OBVIOUS
<1> QED
  BY <1>1, <1>2, <1>3, PTL DEF Contract!Spec

(* The raster paths as the code has them, flushed at any time: with two    *)
(* buffers or more, and driver calls failing anywhere, no flush copies     *)
(* into the buffer the panel reads or the one it turns to next, provided   *)
(* the caller makes none on the AM62P and on the Pi while a flip waits for *)
(* its latch.  The code does not see to that itself, and without it the    *)
(* conclusion is false of the Pi (CopiesOffScreen of Rpi4Raster); of the   *)
(* i.MX8MP nothing is asked.                                               *)
THEOREM NeverTears ==
  ASSUME NBuf >= 2
  PROVE  Init /\ [][FreeNext]_vars /\ [][FlushWaitsForLatch]_vars
           => []({scan, QueuedFrame} \cap copying = {})
<1>1. Contract!NoTear => {scan, QueuedFrame} \cap copying = {}
  BY DEF Contract!NoTear
<1>2. [FreeNext]_vars /\ [FlushWaitsForLatch]_vars => [Next]_vars
  <2>1. Flush /\ FlushWaitsForLatch => PacedFlush
    BY DEF Flush, FlushWaitsForLatch, PacedFlush, OnDss, OnRpi, Dss!PacedFlush,
           Rpi!PacedFlush, Rpi!NoBuf, NoBuf
  <2> QED
    BY <2>1 DEF FreeNext, Next
<1>3. IndInv /\ [Next]_vars => [Contract!Next]_(Contract!vars)
  BY StepContract
<1> QED
  BY <1>1, <1>2, <1>3, InitInv, StepInv, InitContract, ContractNoTear, PTL
     DEF Contract!Spec

=============================================================================
