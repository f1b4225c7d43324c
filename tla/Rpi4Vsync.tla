------------------------------ MODULE Rpi4Vsync ------------------------------
(***************************************************************************)
(* The predicted vsync counter of qzephyr_display_rpi4_v3d.cpp: the        *)
(* start-up calibration (median of the intervals between SET_VSYNC         *)
(* returns), vsync_now(), qzephyr_gl_wait_vsync and the resync it makes    *)
(* when one is due.  Time is in cycles; the firmware's SET_VSYNC returns   *)
(* at, or up to Jitter cycles after, some edge of a display whose period   *)
(* is TruePeriod, or fails.                                                *)
(***************************************************************************)
EXTENDS VsyncCounter, Sequences, FiniteSets

CONSTANTS
  TruePeriod, Jitter, (* of the display: external                          *)
  PeriodMin, PeriodMax, NominalPeriod,
  Samples,            (* SET_VSYNC calls of the calibration: 17            *)
  Needed,             (* intervals it needs: 8                             *)
  MaxSkips,           (* edges SET_VSYNC may skip while calibrating        *)
  ResyncAfter, FirstResync,  (* RESYNC_MS, FIRST_RESYNC_MS                 *)
  EnoughPeriods,      (* periods a correction must be measured over: 30    *)
  Tolerance,          (* an error is small below period / Tolerance: 10    *)
  MaxNow              (* bound: the clock stops here                       *)

ASSUME VsyncAssumption ==
  /\ Half >= 2
  /\ TruePeriod \in Nat \ {0} /\ Jitter \in Nat /\ Jitter < TruePeriod
  /\ NominalPeriod \in Nat \ {0} /\ PeriodMin \in Nat \ {0} /\ PeriodMax \in Nat
  /\ Samples \in Nat /\ Needed \in Nat \ {0} /\ MaxSkips \in Nat
  /\ ResyncAfter \in Nat /\ FirstResync \in Nat
  /\ EnoughPeriods \in Nat \ {0} /\ Tolerance \in Nat \ {0, 1} /\ MaxNow \in Nat

VARIABLES
  now,           (* k_cycle_get_64()                                       *)
  pc,            (* what the one thread that calls in is doing             *)
  iv,            (* the intervals of the calibration                       *)
  s_period,      (* cycles per edge, 0 before the calibration              *)
  s_edge,        (* when the anchor edge was                               *)
  s_edge_count,  (* the counter then                                       *)
  s_last_sync,   (* when SET_VSYNC was last used for a resync              *)
  s_resync_off,
  before,        (* resync(): the counter when it began                    *)
  want           (* qzephyr_gl_wait_vsync's argument                       *)

anchor == <<s_period, s_edge, s_edge_count>>
vars == <<now, pc, iv, anchor, s_last_sync, s_resync_off, before, want>>

TypeOK ==
  /\ now \in Nat
  /\ pc \in {"init", "off", "measure", "measured", "idle", "resync", "wait"}
  /\ iv \in Seq(Nat \ {0})
  /\ s_period \in Nat
  /\ s_period = 0 <=> pc \in {"init", "off", "measure", "measured"}
  /\ s_edge \in 0 .. now
  /\ s_edge_count \in Count
  /\ s_last_sync \in Int
  /\ s_resync_off \in BOOLEAN
  /\ before \in Count
  /\ want \in Count

Init ==
  /\ now = 0
  /\ pc = "init"
  /\ iv = <<>>
  /\ s_period = 0
  /\ s_edge = 0
  /\ s_edge_count = 0
  /\ s_last_sync = 0
  /\ s_resync_off = FALSE
  /\ before = 0
  /\ want = 0

-----------------------------------------------------------------------------
(* Arithmetic *)

(* C++ integer division truncates. *)
Quot(a, b) == IF a >= 0 THEN a \div b ELSE -((-a) \div b)

Magnitude(a) == IF a >= 0 THEN a ELSE -a

VsyncNow ==
  IF s_period = 0 THEN s_edge_count
  ELSE (s_edge_count + (now - s_edge) \div s_period) % Wrap

(* The mean, which one skipped edge moves.                                 *)
MedianMean(s) ==
  LET sum[i \in 0 .. Len(s)] == IF i = 0 THEN 0 ELSE sum[i - 1] + s[i]
  IN  sum[Len(s)] \div Len(s)

(* The element in the middle of the sorted intervals. *)
Median(s) ==
  LET rank(test(_)) == Cardinality({i \in DOMAIN s : test(s[i])})
  IN  CHOOSE m \in {s[i] : i \in DOMAIN s} :
        /\ rank(LAMBDA x : x < m) <= Len(s) \div 2
        /\ Len(s) \div 2 < rank(LAMBDA x : x <= m)

AtEdge == (now % TruePeriod) <= Jitter

-----------------------------------------------------------------------------
(* init() and calibrate() *)

(* The mailbox, the framebuffer, its pitch or its pixel order is refused;  *)
(* s_tried keeps init() from trying again.                                 *)
InitFails ==
  /\ pc = "init"
  /\ pc' = "off"
  /\ UNCHANGED <<now, iv, anchor, s_last_sync, s_resync_off, before, want>>

InitReady ==
  /\ pc = "init"
  /\ pc' = "measure"
  /\ UNCHANGED <<now, iv, anchor, s_last_sync, s_resync_off, before, want>>

Skipped == {i \in DOMAIN iv : iv[i] > TruePeriod + Jitter}

(* One SET_VSYNC of the calibration returns. *)
Measure ==
  LET first == s_edge = 0
      skip  == ~first /\ now - s_edge > TruePeriod + Jitter
  IN
  /\ pc = "measure"
  /\ AtEdge
  /\ now \div TruePeriod > s_edge \div TruePeriod
  /\ skip => Cardinality(Skipped) < MaxSkips
  /\ iv' = IF first THEN iv ELSE Append(iv, now - s_edge)
  /\ s_edge' = now
  /\ pc' = IF Len(iv') = Samples - 1 THEN "measured" ELSE "measure"
  /\ UNCHANGED <<now, s_period, s_edge_count, s_last_sync, s_resync_off, before, want>>

MeasureFails ==
  /\ pc = "measure"
  /\ pc' = "measured"
  /\ UNCHANGED <<now, iv, anchor, s_last_sync, s_resync_off, before, want>>

Usable == Len(iv) >= Needed /\ Median(iv) \in PeriodMin .. PeriodMax

(* The anchor put at the next predicted edge. *)
FallbackEdgeAhead == now + NominalPeriod

FallbackEdge == now

Calibrate ==
  /\ pc = "measured"
  /\ IF Usable
       THEN /\ s_period' = Median(iv)
            /\ UNCHANGED <<s_edge, s_resync_off>>
       ELSE /\ s_period' = NominalPeriod
            /\ s_edge' = FallbackEdge
            /\ s_resync_off' = TRUE
  /\ s_last_sync' = now - (ResyncAfter - FirstResync)
  /\ pc' = "idle"
  /\ iv' = <<>>
  /\ UNCHANGED <<now, s_edge_count, before, want>>

-----------------------------------------------------------------------------
(* qzephyr_gl_wait_vsync and resync() *)

(* A wait for a count not reached yet: the next edge, or the one after.    *)
(* (For a count already reached the call returns and changes nothing.)     *)
Wait ==
  /\ pc = "idle"
  /\ \E ahead \in 1 .. 2 : want' = (VsyncNow + ahead) % Wrap
  /\ ~Reached(VsyncNow, want')
  /\ IF ~s_resync_off /\ now - s_last_sync >= ResyncAfter
       THEN pc' = "resync" /\ before' = VsyncNow
       ELSE pc' = "wait" /\ UNCHANGED before
  /\ UNCHANGED <<now, iv, anchor, s_last_sync, s_resync_off>>

(* The first count ahead of the anchor, and when it is predicted. *)
Ahead     == (before + 1 - s_edge_count) % Wrap
Predicted == s_edge + Ahead * s_period

(* SET_VSYNC returned now: e cycles from the predicted edge, which is k    *)
(* whole periods and a phase error of ep.                                  *)
Error   == now - Predicted
Periods == Quot(Error + (IF Error >= 0 THEN s_period \div 2 ELSE -(s_period \div 2)), s_period)
Phase   == Error - Periods * s_period
Elapsed == Ahead + Periods
Small   == Magnitude(Phase) < s_period \div Tolerance

(* The whole phase error put into one period.                              *)
CorrectedPeriodUndivided ==
  IF Elapsed >= EnoughPeriods THEN s_period + Phase ELSE s_period

CorrectedPeriod ==
  IF Elapsed >= EnoughPeriods THEN s_period + Quot(Phase, Elapsed) ELSE s_period

(* The edge of the resync taken for the one before it. *)
ResyncedCountEarly == (before + Periods) % Wrap

ResyncedCount == (before + 1 + Periods) % Wrap

ResyncAccepted ==
  /\ pc = "resync"
  /\ AtEdge
  /\ Small
  /\ s_period' = CorrectedPeriod
  /\ s_edge' = now
  /\ s_edge_count' = ResyncedCount
  /\ s_last_sync' = now
  /\ pc' = "wait"
  /\ UNCHANGED <<now, iv, s_resync_off, before, want>>

ResyncRejected ==
  /\ pc = "resync"
  /\ AtEdge
  /\ ~Small
  /\ s_last_sync' = now
  /\ pc' = "wait"
  /\ UNCHANGED <<now, iv, anchor, s_resync_off, before, want>>

ResyncFails ==
  /\ pc = "resync"
  /\ s_last_sync' = now
  /\ s_resync_off' = TRUE
  /\ pc' = "wait"
  /\ UNCHANGED <<now, iv, anchor, before, want>>

(* Off by one edge. *)
DueAnEdgeEarly == s_edge + ((want - 1 - s_edge_count) % Wrap) * s_period

(* When the edge waited for is predicted. *)
Due == s_edge + ((want - s_edge_count) % Wrap) * s_period

(* The loop: until the counter has come, or the time of the edge has. *)
WaitReturns ==
  /\ pc = "wait"
  /\ Reached(VsyncNow, want) \/ now >= Due
  /\ pc' = "idle"
  /\ UNCHANGED <<now, iv, anchor, s_last_sync, s_resync_off, before, want>>

(* Time starts with init(), and MaxNow bounds it. *)
Tick ==
  /\ pc # "init"
  /\ now < MaxNow
  /\ now' = now + 1
  /\ UNCHANGED <<pc, iv, anchor, s_last_sync, s_resync_off, before, want>>

Next ==
  \/ InitFails \/ InitReady \/ Measure \/ MeasureFails \/ Calibrate
  \/ Wait \/ ResyncAccepted \/ ResyncRejected \/ ResyncFails \/ WaitReturns \/ Tick

Spec == Init /\ [][Next]_vars

-----------------------------------------------------------------------------
(* Once calibrated, the counter never goes back, across resyncs that move  *)
(* the anchor and change the period ("so the counter does not go back").   *)
CounterNeverGoesBack == [][s_period # 0 => Reached(VsyncNow', VsyncNow)]_vars

(* The edges of the display since the anchor, and how far the prediction   *)
(* has come away from them.                                                *)
Edges == now \div TruePeriod - s_edge \div TruePeriod
Drift == now - s_edge - Edges * s_period

(* A correction cannot know the edges of a long time more exactly than     *)
(* this: the jitter over the fewest periods, rounded up.                   *)
Precision == (Jitter + EnoughPeriods - 1) \div EnoughPeriods

(* A resync leaves the period as exact as a correction can be, or no worse *)
(* than it was: the rounding of k and the tolerance let no misjudged       *)
(* number of edges through.  Nothing can be told once the prediction has   *)
(* come away from the display by so much of a period that the edge after   *)
(* the right one looks right.                                              *)
PeriodNeverWorsens ==
  [][s_period # 0 /\ Magnitude(Drift) <= s_period - s_period \div Tolerance =>
       \/ Magnitude(s_period' - TruePeriod) <= Precision
       \/ Magnitude(s_period' - TruePeriod) <= Magnitude(s_period - TruePeriod)]_vars

(* The calibration itself, if it is usable, is as exact as two readings of *)
(* an edge are, although some edges were skipped.                          *)
CalibratedPeriod ==
  [][s_period = 0 /\ s_period' # 0 /\ ~s_resync_off' =>
       Magnitude(s_period' - TruePeriod) <= Jitter]_vars

(* "Block until the vsync counter reaches count", whichever of its two     *)
(* ways out the wait takes, while the anchor is less than half a counter   *)
(* range old: past that the counter may have come round, and the time of   *)
(* the edge, which is of 64 bits, no longer tells where it is.             *)
BlocksUntilCount ==
  [][pc = "wait" /\ pc' = "idle" /\ (now - s_edge) \div s_period < Half =>
       Reached(VsyncNow, want)]_vars

=============================================================================
