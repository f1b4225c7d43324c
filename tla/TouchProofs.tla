----------------------------- MODULE TouchProofs -----------------------------
(***************************************************************************)
(* Proofs about Touch, for every panel size, every set of points touched,  *)
(* every queue length and every number of reports and taps.                *)
(***************************************************************************)
EXTENDS Touch, SequenceTheorems, FiniteSetTheorems, TLAPS

-----------------------------------------------------------------------------
(* Events as the reporters make them: BTN_TOUCH carries the sync.          *)
Made == {e \in Events : e.sync <=> e.code = "touch"}

Moved == [type : {"press", "release", "move"}, pos : Int \X Int,
          button : BOOLEAN, at : Points]

Sequenced ==
  /\ script \in [Reporters -> Seq(Made)]
  /\ queue \in Seq(Made)
  /\ posted \in Seq(Moved)

Typed ==
  /\ rotated \in BOOLEAN /\ active \subseteq Reporters
  /\ Sequenced
  /\ finger \in Points \cup {<<>>} /\ fingered \in 0..MaxReports
  /\ tap \in Points \cup {<<>>} /\ tapped \in 0..MaxTaps
  /\ Len(queue) <= QueueLen
  /\ g_state \in [x : Coords, y : Coords, pressed : BOOLEAN, sent_press : BOOLEAN]
  /\ window \in BOOLEAN
  /\ seen \in [type : {"none", "press", "release", "move"}, button : BOOLEAN]
  /\ reports \in Nat /\ delivered \in Nat

(* The reports under way in a queue. *)
Synced(q) == {k \in DOMAIN q : q[k].sync}

Counted == Len(posted) + delivered + Cardinality(Synced(queue)) = reports

-----------------------------------------------------------------------------
LEMMA PointFacts ==
  ASSUME NEW p \in Points
  PROVE  /\ p = <<p[1], p[2]>> /\ p[1] \in Int /\ p[2] \in Int
         /\ p[1] \in Coords /\ p[2] \in Coords
         /\ p # <<>>
<1>1. p \in Int \X Int
  BY PointAssumption
<1>2. p[1] \in Coords /\ p[2] \in Coords
  BY DEF Coords
<1> QED
  BY <1>1, <1>2

LEMMA CoordFacts == Coords \subseteq Int /\ {0, 1} \subseteq Coords
<1>1. \A p \in Points : {p[1], p[2]} \subseteq Int
  BY PointFacts
<1>2. \A c \in Coords : c \in {0, 1} \/ \E p \in Points : c \in {p[1], p[2]}
  BY DEF Coords
<1>3. Coords \subseteq Int
  BY <1>1, <1>2
<1>4. {0, 1} \subseteq Coords
  BY DEF Coords
<1> QED
  BY <1>3, <1>4

LEMMA MadeFacts ==
  ASSUME NEW p \in Points
  PROVE  /\ Abs("slot", 0, p) \in Made
         /\ Abs("x", p[1], p) \in Made /\ Abs("y", p[2], p) \in Made
         /\ Btn(0, p) \in Made /\ Btn(1, p) \in Made
BY PointFacts, CoordFacts DEF Made, Events, Codes, Abs, Btn

LEMMA TapReportFacts ==
  ASSUME NEW p \in Points, NEW v \in {0, 1}
  PROVE  /\ TapReport(p, v) \in Seq(Made)
         /\ Len(TapReport(p, v)) = 3
         /\ TapReport(p, v)[1] = Abs("x", p[1], p)
         /\ TapReport(p, v)[2] = Abs("y", p[2], p)
         /\ TapReport(p, v)[3] = Btn(v, p)
BY MadeFacts DEF TapReport

LEMMA TouchReportFacts ==
  ASSUME NEW p \in Points
  PROVE  /\ TouchReport(p) \in Seq(Made)
         /\ Len(TouchReport(p)) = 4
         /\ TouchReport(p)[1] = Abs("slot", 0, p)
         /\ TouchReport(p)[2] = Abs("x", p[1], p)
         /\ TouchReport(p)[3] = Abs("y", p[2], p)
         /\ TouchReport(p)[4] = Btn(1, p)
<1> DEFINE s == <<Abs("slot", 0, p)>>
           t == TapReport(p, 1)
<1>1. s \in Seq(Made) /\ Len(s) = 1 /\ s[1] = Abs("slot", 0, p)
  BY MadeFacts
<1>2. /\ t \in Seq(Made) /\ Len(t) = 3
      /\ t[1] = Abs("x", p[1], p) /\ t[2] = Abs("y", p[2], p) /\ t[3] = Btn(1, p)
  BY TapReportFacts
<1>3. TouchReport(p) = s \o t
  BY DEF TouchReport
<1> HIDE DEF s, t
<1>4. /\ s \o t \in Seq(Made)
      /\ Len(s \o t) = 4
      /\ \A i \in 1..4 : (s \o t)[i] = IF i <= 1 THEN s[i] ELSE t[i - 1]
  <2>1. /\ s \o t \in Seq(Made)
        /\ Len(s \o t) = Len(s) + Len(t)
        /\ \A i \in 1..(Len(s) + Len(t)) :
             (s \o t)[i] = IF i <= Len(s) THEN s[i] ELSE t[i - Len(s)]
    BY <1>1, <1>2, ConcatProperties
  <2> QED
    BY <1>1, <1>2, <2>1
<1> QED
  BY <1>1, <1>2, <1>3, <1>4

LEMMA LiftReportFacts ==
  ASSUME NEW p \in Points
  PROVE  /\ LiftReport(p) \in Seq(Made)
         /\ Len(LiftReport(p)) = 1
         /\ LiftReport(p)[1] = Btn(0, p)
BY MadeFacts DEF LiftReport

(* What a queue holds after one more event, and after its first is gone.   *)
LEMMA AppendFacts ==
  ASSUME NEW S, NEW q \in Seq(S), NEW e \in S
  PROVE  /\ Append(q, e) \in Seq(S)
         /\ Len(Append(q, e)) = Len(q) + 1
         /\ \A i \in 1..Len(q) : Append(q, e)[i] = q[i]
         /\ Append(q, e)[Len(q) + 1] = e
BY AppendProperties, LenProperties

LEMMA TailFacts ==
  ASSUME NEW S, NEW q \in Seq(S), q # <<>>
  PROVE  /\ Head(q) \in S /\ Head(q) = q[1]
         /\ Tail(q) \in Seq(S)
         /\ Len(q) \in Nat /\ Len(q) > 0
         /\ Len(Tail(q)) = Len(q) - 1
         /\ \A i \in 1..(Len(q) - 1) : Tail(q)[i] = q[i + 1]
<1>1. Len(q) \in Nat \ {0}
  BY EmptySeq
<1>2. /\ Head(q) \in S /\ Tail(q) \in Seq(S) /\ Len(Tail(q)) = Len(q) - 1
      /\ \A i \in 1..Len(Tail(q)) : Tail(q)[i] = q[i + 1]
  BY HeadTailProperties
<1>3. Head(q) = q[1]
  OBVIOUS
<1> QED
  BY <1>1, <1>2, <1>3

LEMMA SyncedFinite ==
  ASSUME NEW q \in Seq(Made)
  PROVE  IsFiniteSet(Synced(q)) /\ Cardinality(Synced(q)) \in Nat
<1>1. IsFiniteSet(1..Len(q))
  BY LenProperties, FS_Interval
<1>2. Synced(q) \subseteq 1..Len(q)
  BY LenProperties DEF Synced
<1>3. IsFiniteSet(Synced(q))
  BY <1>1, <1>2, FS_Subset
<1> QED
  BY <1>3, FS_CardinalityType

LEMMA SyncedAppend ==
  ASSUME NEW q \in Seq(Made), NEW e \in Made
  PROVE  Cardinality(Synced(Append(q, e)))
           = Cardinality(Synced(q)) + (IF e.sync THEN 1 ELSE 0)
<1>1. /\ Len(q) \in Nat /\ DOMAIN q = 1..Len(q)
      /\ DOMAIN Append(q, e) = 1..(Len(q) + 1)
      /\ \A i \in 1..Len(q) : Append(q, e)[i] = q[i]
      /\ Append(q, e)[Len(q) + 1] = e
  BY AppendFacts, LenProperties
<1>2. CASE e.sync
  <2>1. Synced(Append(q, e)) = Synced(q) \cup {Len(q) + 1}
    BY <1>1, <1>2 DEF Synced
  <2>2. Len(q) + 1 \notin Synced(q)
    BY <1>1 DEF Synced
  <2> QED
    BY <1>2, <2>1, <2>2, SyncedFinite, FS_AddElement
<1>3. CASE ~e.sync
  <2>1. Synced(Append(q, e)) = Synced(q)
    BY <1>1, <1>3 DEF Synced
  <2> QED
    BY <1>3, <2>1, SyncedFinite
<1> QED
  BY <1>2, <1>3

LEMMA SyncedTail ==
  ASSUME NEW q \in Seq(Made), q # <<>>
  PROVE  Cardinality(Synced(Tail(q)))
           = Cardinality(Synced(q)) - (IF Head(q).sync THEN 1 ELSE 0)
<1>1. /\ Len(q) \in Nat /\ Len(q) > 0 /\ DOMAIN q = 1..Len(q)
      /\ DOMAIN Tail(q) = 1..(Len(q) - 1)
      /\ \A i \in 1..(Len(q) - 1) : Tail(q)[i] = q[i + 1]
      /\ Head(q) = q[1] /\ Tail(q) \in Seq(Made)
  BY TailFacts, LenProperties
<1> DEFINE T == Synced(Tail(q))
           R == Synced(q) \ {1}
           f == [k \in T |-> k + 1]
<1>2. f \in Bijection(T, R)
  <2>1. T = {k \in 1..(Len(q) - 1) : q[k + 1].sync}
    BY <1>1 DEF Synced
  <2>2. R = {k \in 2..Len(q) : q[k].sync}
    BY <1>1 DEF Synced
  <2> HIDE DEF T, R
  <2>3. f \in [T -> R]
    BY <1>1, <2>1, <2>2
  <2>4. \A a, b \in T : f[a] = f[b] => a = b
    BY <2>1
  <2>5. \A k \in R : k - 1 \in T /\ f[k - 1] = k
    BY <1>1, <2>1, <2>2
  <2> HIDE DEF f
  <2> QED
    BY <2>3, <2>4, <2>5 DEF Bijection, Injection, Surjection, IsInjective
<1>3. IsFiniteSet(R)
  BY SyncedFinite, FS_RemoveElement
<1>4. IsFiniteSet(T)
  BY <1>1, SyncedFinite
<1>5. Cardinality(R) = Cardinality(T)
  BY <1>2, <1>4, FS_Bijection DEF ExistsBijection
<1>6. Cardinality(R) = Cardinality(Synced(q)) - (IF 1 \in Synced(q) THEN 1 ELSE 0)
  <2> DEFINE C == Synced(q)
  <2>1. IsFiniteSet(C) /\ Cardinality(C) \in Nat
    BY SyncedFinite
  <2> HIDE DEF C
  <2>2. Cardinality(C \ {1}) = IF 1 \in C THEN Cardinality(C) - 1 ELSE Cardinality(C)
    BY <2>1, FS_RemoveElement
  <2>3. Cardinality(C \ {1}) = Cardinality(C) - (IF 1 \in C THEN 1 ELSE 0)
    BY <2>1, <2>2
  <2> QED
    BY <2>3 DEF C
<1>7. 1 \in Synced(q) <=> Head(q).sync
  BY <1>1 DEF Synced
<1> QED
  BY <1>5, <1>6, <1>7

-----------------------------------------------------------------------------
TypeInv == Typed /\ Counted

LEMMA TypeInit == Init => TypeInv
<1> SUFFICES ASSUME Init PROVE TypeInv
  OBVIOUS
<1>1. <<>> \in Seq(Made) /\ <<>> \in Seq(Moved) /\ Len(<<>>) = 0
  BY EmptySeq
<1>2. Typed
  <2>1. Sequenced
    BY <1>1 DEF Init, Sequenced
  <2>2. Len(queue) <= QueueLen
    BY <1>1, BoundAssumption DEF Init
  <2>3. g_state \in [x : Coords, y : Coords, pressed : BOOLEAN, sent_press : BOOLEAN]
    BY CoordFacts DEF Init
  <2>4. finger \in Points \cup {<<>>} /\ tap \in Points \cup {<<>>}
    BY Zenon DEF Init
  <2>5. rotated \in BOOLEAN /\ active \subseteq Reporters /\ window \in BOOLEAN
    BY DEF Init
  <2>6. seen \in [type : {"none", "press", "release", "move"}, button : BOOLEAN]
    BY DEF Init
  <2> QED
    BY <2>1, <2>2, <2>3, <2>4, <2>5, <2>6, BoundAssumption DEF Init, Typed
<1>3. Synced(queue) = {}
  BY DEF Init, Synced
<1>4. Cardinality(Synced(queue)) = 0
  BY <1>3, FS_EmptySet
<1>5. Len(posted) = 0 /\ delivered = 0 /\ reports = 0
  BY <1>1 DEF Init
<1> QED
  BY <1>2, <1>4, <1>5 DEF TypeInv, Counted

LEMMA ReporterType ==
  ASSUME TypeInv, Reporter
  PROVE  TypeInv'
<1> USE DEF uiVars
<1>1. /\ Typed /\ Counted
      /\ UNCHANGED <<rotated, active, queue, g_state, posted, uiVars, reports>>
  BY DEF TypeInv, Reporter
<1>2. Counted'
  BY <1>1 DEF Counted
<1>3. ASSUME NEW p \in Points, FingerAt(p) PROVE Typed'
  <2>1. TouchReport(p) \in Seq(Made)
    BY TouchReportFacts
  <2>2. script' \in [Reporters -> Seq(Made)]
    BY <1>1, <1>3, <2>1 DEF Typed, Sequenced, FingerAt
  <2>3. finger' \in Points \cup {<<>>}
    BY <1>3, Zenon DEF FingerAt
  <2>4. fingered' \in 0..MaxReports
    BY <1>1, <1>3, BoundAssumption DEF Typed, FingerAt
  <2>5. UNCHANGED <<tap, tapped>>
    BY <1>3 DEF FingerAt
  <2> QED
    BY <1>1, <2>2, <2>3, <2>4, <2>5 DEF Typed, Sequenced
<1>4. ASSUME NEW p \in Points, TapPress(p) PROVE Typed'
  <2>1. TapReport(p, 1) \in Seq(Made)
    BY TapReportFacts
  <2>2. script' \in [Reporters -> Seq(Made)]
    BY <1>1, <1>4, <2>1 DEF Typed, Sequenced, TapPress
  <2>3. tap' \in Points \cup {<<>>}
    BY <1>4, Zenon DEF TapPress
  <2>4. tapped' \in 0..MaxTaps
    BY <1>1, <1>4, BoundAssumption DEF Typed, TapPress
  <2>5. UNCHANGED <<finger, fingered>>
    BY <1>4 DEF TapPress
  <2> QED
    BY <1>1, <2>2, <2>3, <2>4, <2>5 DEF Typed, Sequenced
<1>5. CASE FingerLifts
  <2>1. finger \in Points
    BY <1>1, <1>5 DEF Typed, FingerLifts
  <2>2. LiftReport(finger) \in Seq(Made)
    BY <2>1, LiftReportFacts
  <2>3. finger' \in Points \cup {<<>>}
    BY <1>5, Zenon DEF FingerLifts
  <2> QED
    BY <1>1, <1>2, <1>5, <2>2, <2>3 DEF TypeInv, Typed, Sequenced, FingerLifts, Reporters
<1>6. CASE TapRelease
  <2>1. tap \in Points
    BY <1>1, <1>6 DEF Typed, TapRelease
  <2>2. TapReport(tap, 0) \in Seq(Made)
    BY <2>1, TapReportFacts
  <2>3. tap' \in Points \cup {<<>>}
    BY <1>6, Zenon DEF TapRelease
  <2> QED
    BY <1>1, <1>2, <1>6, <2>2, <2>3 DEF TypeInv, Typed, Sequenced, TapRelease, Reporters
<1> QED
  BY <1>2, <1>3, <1>4, <1>5, <1>6 DEF TypeInv, Reporter

LEMMA PutType ==
  ASSUME TypeInv, NEW r \in Reporters, Put(r)
  PROVE  TypeInv'
<1> USE DEF uiVars
<1> DEFINE e == Head(script[r])
<1>1. /\ Typed /\ Counted /\ script[r] \in Seq(Made) /\ script[r] # <<>>
      /\ queue \in Seq(Made) /\ script \in [Reporters -> Seq(Made)]
  BY DEF TypeInv, Typed, Sequenced, Put
<1>2. e \in Made /\ Tail(script[r]) \in Seq(Made)
  BY <1>1, TailFacts
<1>3. /\ queue' = Append(queue, e)
      /\ script' = [script EXCEPT ![r] = Tail(@)]
      /\ reports' = reports + (IF e.sync THEN 1 ELSE 0)
      /\ Len(queue) < QueueLen
      /\ UNCHANGED <<rotated, active, finger, fingered, tap, tapped, g_state, posted, uiVars>>
  BY DEF Put
<1> HIDE DEF e
<1>4. Typed'
  <2>1. queue' \in Seq(Made) /\ Len(queue') = Len(queue) + 1 /\ Len(queue) \in Nat
    BY <1>1, <1>2, <1>3, AppendFacts, LenProperties
  <2>2. script' \in [Reporters -> Seq(Made)]
    BY <1>1, <1>2, <1>3
  <2>3. reports' \in Nat
    BY <1>1, <1>3 DEF Typed
  <2> QED
    BY <1>1, <1>3, <2>1, <2>2, <2>3, BoundAssumption DEF Typed, Sequenced
<1>5. Counted'
  <2>1. Cardinality(Synced(queue')) = Cardinality(Synced(queue)) + (IF e.sync THEN 1 ELSE 0)
    BY <1>1, <1>2, <1>3, SyncedAppend
  <2>2. Cardinality(Synced(queue)) \in Nat /\ Len(posted) \in Nat
    BY <1>1, SyncedFinite, LenProperties DEF Typed, Sequenced
  <2>3. delivered \in Nat /\ reports \in Nat /\ delivered' = delivered /\ posted' = posted
    BY <1>1, <1>3 DEF Typed
  <2>4. /\ Len(posted) + delivered + Cardinality(Synced(queue)) = reports
        /\ reports' = reports + (IF e.sync THEN 1 ELSE 0)
    BY <1>1, <1>3 DEF Counted
  <2>5. Len(posted') + delivered' + Cardinality(Synced(queue')) = reports'
    BY <2>1, <2>2, <2>3, <2>4
  <2> QED
    BY <2>5 DEF Counted
<1> QED
  BY <1>4, <1>5 DEF TypeInv

(* What process_event posts. *)
Posted(e) ==
  [type |-> EventType(Accumulate(e).pressed, Accumulate(e).sent_press),
   pos |-> Position(Accumulate(e).x, Accumulate(e).y),
   button |-> Accumulate(e).pressed, at |-> e.at]

LEMMA ProcessFacts ==
  ASSUME Typed, ProcessEvent
  PROVE  /\ Head(queue) \in Made /\ queue' = Tail(queue)
         /\ Accumulate(Head(queue))
              \in [x : Coords, y : Coords, pressed : BOOLEAN, sent_press : BOOLEAN]
         /\ Accumulate(Head(queue)).sent_press = g_state.sent_press
         /\ g_state'.x = Accumulate(Head(queue)).x
         /\ g_state'.y = Accumulate(Head(queue)).y
         /\ g_state' \in [x : Coords, y : Coords, pressed : BOOLEAN, sent_press : BOOLEAN]
         /\ Head(queue).sync =>
              /\ posted' = Append(posted, Posted(Head(queue)))
              /\ g_state'.sent_press = Accumulate(Head(queue)).pressed
              /\ Posted(Head(queue)) \in Moved
         /\ ~Head(queue).sync =>
              UNCHANGED posted /\ g_state'.sent_press = g_state.sent_press
<1> DEFINE e == Head(queue)
           g == Accumulate(e)
           G == [x : Coords, y : Coords, pressed : BOOLEAN, sent_press : BOOLEAN]
<1>1. e \in Made /\ queue' = Tail(queue)
  BY TailFacts DEF Typed, Sequenced, ProcessEvent
<1>2. g \in G /\ g.sent_press = g_state.sent_press
  <2>1. g_state \in G /\ e.value \in Coords
    BY <1>1 DEF Typed, Made, Events
  <2> HIDE DEF e
  <2> QED
    BY <2>1 DEF Accumulate
<1>3. Dispatches(e) <=> e.sync
  BY <1>1 DEF Dispatches, Made, Events
<1>4. Posted(e) \in Moved
  <2>1. g.x \in Int /\ g.y \in Int /\ g.pressed \in BOOLEAN /\ e.at \in Points
    BY <1>1, <1>2, CoordFacts DEF Made, Events
  <2> HIDE DEF g, e
  <2>2. Position(g.x, g.y) \in Int \X Int
    BY <2>1, PointAssumption DEF Position
  <2>3. EventType(g.pressed, g.sent_press) \in {"press", "release", "move"}
    BY DEF EventType
  <2> QED
    BY <2>1, <2>2, <2>3 DEF Posted, Moved, g
<1>5. IF e.sync
        THEN posted' = Append(posted, Posted(e)) /\ g_state' = [g EXCEPT !.sent_press = g.pressed]
        ELSE UNCHANGED posted /\ g_state' = g
  <2>1. IF Dispatches(e)
          THEN posted' = Append(posted, Posted(e)) /\ g_state' = [g EXCEPT !.sent_press = g.pressed]
          ELSE UNCHANGED posted /\ g_state' = g
    <3>1. CASE Dispatches(e)
      BY <3>1 DEF ProcessEvent, Posted
    <3>2. CASE ~Dispatches(e)
      BY <3>2 DEF ProcessEvent, Posted
    <3> QED
      BY <3>1, <3>2
  <2> QED
    BY <1>3, <2>1
<1> HIDE DEF g, e
<1>6. /\ g_state' \in G /\ g_state'.x = g.x /\ g_state'.y = g.y
      /\ g_state'.sent_press = IF e.sync THEN g.pressed ELSE g_state.sent_press
  BY <1>2, <1>5
<1> QED
  BY <1>1, <1>2, <1>4, <1>5, <1>6 DEF g, e

LEMMA ProcessType ==
  ASSUME TypeInv, ProcessEvent
  PROVE  TypeInv'
<1> USE DEF uiVars, reporterVars
<1> DEFINE e == Head(queue)
<1>1. /\ Typed /\ Counted /\ queue \in Seq(Made) /\ queue # <<>> /\ posted \in Seq(Moved)
      /\ UNCHANGED <<rotated, active, reporterVars, uiVars, reports>>
  BY DEF TypeInv, Typed, Sequenced, ProcessEvent
<1>2. /\ e \in Made /\ queue' = Tail(queue)
      /\ g_state' \in [x : Coords, y : Coords, pressed : BOOLEAN, sent_press : BOOLEAN]
      /\ e.sync => posted' = Append(posted, Posted(e)) /\ Posted(e) \in Moved
      /\ ~e.sync => posted' = posted
  BY <1>1, ProcessFacts
<1> HIDE DEF e
<1>3. queue' \in Seq(Made) /\ Len(queue') = Len(queue) - 1 /\ Len(queue) \in Nat
  BY <1>1, <1>2, TailFacts
<1>4. /\ posted' \in Seq(Moved) /\ Len(posted) \in Nat
      /\ Len(posted') = Len(posted) + (IF e.sync THEN 1 ELSE 0)
  <2>1. Len(posted) \in Nat
    BY <1>1, LenProperties
  <2>2. CASE e.sync
    <3> DEFINE event == Posted(e)
    <3>1. posted' = Append(posted, event) /\ event \in Moved /\ posted \in Seq(Moved)
      BY <1>1, <1>2, <2>2
    <3> HIDE DEF event
    <3>2. Append(posted, event) \in Seq(Moved) /\ Len(Append(posted, event)) = Len(posted) + 1
      BY <3>1, AppendFacts
    <3> QED
      BY <2>1, <2>2, <3>1, <3>2
  <2>3. CASE ~e.sync
    BY <1>1, <1>2, <2>1, <2>3
  <2> QED
    BY <2>1, <2>2, <2>3
<1>5. Typed'
  BY <1>1, <1>2, <1>3, <1>4, BoundAssumption DEF Typed, Sequenced
<1>6. Counted'
  <2>1. Cardinality(Synced(queue')) = Cardinality(Synced(queue)) - (IF e.sync THEN 1 ELSE 0)
    BY <1>1, <1>2, SyncedTail DEF e
  <2>2. Cardinality(Synced(queue)) \in Nat
    BY <1>1, SyncedFinite
  <2> QED
    BY <1>1, <1>4, <2>1, <2>2 DEF Counted, Typed
<1> QED
  BY <1>5, <1>6 DEF TypeInv

LEMMA DrainType ==
  ASSUME TypeInv, Drain
  PROVE  TypeInv'
<1> USE DEF reporterVars
<1>1. /\ Typed /\ Counted /\ posted \in Seq(Moved) /\ posted # <<>>
      /\ posted' = Tail(posted) /\ delivered' = delivered + 1
      /\ seen' = [type |-> Head(posted).type, button |-> Head(posted).button]
      /\ UNCHANGED <<rotated, active, reporterVars, queue, g_state, window, reports>>
  BY DEF TypeInv, Typed, Sequenced, Drain
<1>2. /\ Head(posted) \in Moved /\ posted' \in Seq(Moved)
      /\ Len(posted) \in Nat /\ Len(posted') = Len(posted) - 1
  BY <1>1, TailFacts
<1>3. seen' \in [type : {"none", "press", "release", "move"}, button : BOOLEAN]
  BY <1>1, <1>2 DEF Moved
<1>4. Typed'
  BY <1>1, <1>2, <1>3 DEF Typed, Sequenced
<1>5. Counted'
  <2>1. Cardinality(Synced(queue)) \in Nat
    BY <1>1, SyncedFinite DEF Typed, Sequenced
  <2> QED
    BY <1>1, <1>2, <2>1 DEF Counted, Typed
<1> QED
  BY <1>4, <1>5 DEF TypeInv

LEMMA TypeStep == TypeInv /\ [Next]_vars => TypeInv'
<1> SUFFICES ASSUME TypeInv, [Next]_vars PROVE TypeInv'
  OBVIOUS
<1>1. CASE WindowReady
  BY <1>1 DEF WindowReady, TypeInv, Typed, Sequenced, Counted, reporterVars
<1>2. CASE UNCHANGED vars
  BY <1>2 DEF vars, uiVars, TypeInv, Typed, Sequenced, Counted, reporterVars
<1> QED
  BY <1>1, <1>2, ReporterType, PutType, ProcessType, DrainType DEF Next

LEMMA TypeInvariance == Spec => []TypeInv
BY TypeInit, TypeStep, PTL DEF Spec

(* Type correctness, and nothing a reporter put into the queue is lost on  *)
(* its way: the reports made are those in the queue, those posted and      *)
(* those the window has had.                                               *)
THEOREM TypeCorrect == Spec => []TypeOK
<1>1. TypeInv => TypeOK
  <2> SUFFICES ASSUME TypeInv PROVE TypeOK
    OBVIOUS
  <2>1. \A s \in Seq(Made) : s \in Seq(Events)
    BY SeqMonotonic DEF Made
  <2>2. script \in [Reporters -> Seq(Events)] /\ queue \in Seq(Events)
    BY <2>1 DEF TypeInv, Typed, Sequenced
  <2> QED
    BY <2>2 DEF TypeInv, Typed, Counted, Synced, TypeOK
<1> QED
  BY <1>1, TypeInvariance, PTL

-----------------------------------------------------------------------------
(* The events posted follow each other as those of one button: the state   *)
(* of the button before the i-th is what the one before it carried.        *)
ButtonBefore(i) == IF i = 1 THEN seen.button ELSE posted[i - 1].button

Chained ==
  \A i \in 1..Len(posted) :
    posted[i].type = EventType(posted[i].button, ButtonBefore(i))

(* sent_press is what the last event posted carried. *)
Remembered ==
  g_state.sent_press =
    IF Len(posted) = 0 THEN seen.button ELSE posted[Len(posted)].button

StreamInv == TypeInv /\ Chained /\ Remembered

LEMMA StreamInit == Init => StreamInv
<1> SUFFICES ASSUME Init PROVE Chained /\ Remembered
  BY TypeInit DEF StreamInv
<1>1. Len(posted) = 0
  BY EmptySeq DEF Init
<1> QED
  BY <1>1 DEF Init, Chained, Remembered

LEMMA ProcessStream ==
  ASSUME StreamInv, ProcessEvent
  PROVE  Chained' /\ Remembered'
<1> DEFINE e == Head(queue)
           p == Posted(e)
           n == Len(posted)
<1>1. /\ Typed /\ posted \in Seq(Moved) /\ n \in Nat /\ UNCHANGED seen
  BY LenProperties DEF StreamInv, TypeInv, Typed, Sequenced, ProcessEvent, uiVars
<1>2. CASE ~e.sync
  BY <1>1, <1>2, ProcessFacts DEF StreamInv, Chained, Remembered, ButtonBefore
<1>3. CASE e.sync
  <2>1. /\ p \in Moved /\ posted' = Append(posted, p)
        /\ p.type = EventType(p.button, g_state.sent_press)
        /\ g_state'.sent_press = p.button
    BY <1>1, <1>3, ProcessFacts DEF Posted
  <2> HIDE DEF p
  <2>2. /\ Len(posted') = n + 1 /\ posted'[n + 1] = p
        /\ \A i \in 1..n : posted'[i] = posted[i]
    BY <1>1, <2>1, AppendFacts
  <2> HIDE DEF n
  <2>3. Remembered'
    BY <1>1, <2>1, <2>2 DEF Remembered
  <2>4. \A i \in 1..n : ButtonBefore(i)' = ButtonBefore(i)
    BY <1>1, <2>2 DEF ButtonBefore
  <2>5. ASSUME NEW i, i = n + 1 PROVE ButtonBefore(i)' = g_state.sent_press
    BY <1>1, <2>2, <2>5 DEF ButtonBefore, StreamInv, Remembered, n
  <2>6. ASSUME NEW i \in 1..(n + 1)
        PROVE  posted'[i].type = EventType(posted'[i].button, ButtonBefore(i)')
    <3>1. CASE i \in 1..n
      BY <2>2, <2>4, <3>1 DEF StreamInv, Chained, n
    <3>2. CASE i = n + 1
      BY <2>1, <2>2, <2>5, <3>2
    <3> QED
      BY <1>1, <3>1, <3>2
  <2>7. Chained'
    BY <2>2, <2>6 DEF Chained
  <2> QED
    BY <2>3, <2>7
<1> QED
  BY <1>2, <1>3

LEMMA DrainStream ==
  ASSUME StreamInv, Drain
  PROVE  Chained' /\ Remembered'
<1> DEFINE n == Len(posted)
<1>1. /\ posted \in Seq(Moved) /\ posted # <<>> /\ posted' = Tail(posted)
      /\ seen' = [type |-> Head(posted).type, button |-> Head(posted).button]
      /\ UNCHANGED g_state
  BY DEF StreamInv, TypeInv, Typed, Sequenced, Drain
<1>2. /\ n \in Nat /\ n > 0 /\ Len(posted') = n - 1
      /\ Head(posted) = posted[1]
      /\ \A i \in 1..(n - 1) : posted'[i] = posted[i + 1]
  BY <1>1, TailFacts
<1> HIDE DEF n
<1>3. seen'.button = posted[1].button
  BY <1>1, <1>2
<1>4. Remembered'
  BY <1>1, <1>2, <1>3 DEF StreamInv, Remembered, n
<1>5. ASSUME NEW i \in 1..(n - 1) PROVE ButtonBefore(i)' = ButtonBefore(i + 1)
  BY <1>2, <1>3 DEF ButtonBefore
<1>6. Chained'
  BY <1>2, <1>5 DEF StreamInv, Chained, n
<1> QED
  BY <1>4, <1>6

LEMMA StreamStep == StreamInv /\ [Next]_vars => StreamInv'
<1> SUFFICES ASSUME StreamInv, [Next]_vars PROVE Chained' /\ Remembered'
  BY TypeStep DEF StreamInv
<1>1. CASE UNCHANGED <<posted, seen, g_state>>
  BY <1>1 DEF StreamInv, Chained, Remembered, ButtonBefore
<1>2. CASE Reporter \/ WindowReady \/ UNCHANGED vars \/ \E r \in Reporters : Put(r)
  BY <1>1, <1>2 DEF Reporter, WindowReady, Put, vars, uiVars
<1> QED
  BY <1>2, ProcessStream, DrainStream DEF Next

(* Each event drained is one step of the pointer's stream. *)
LEMMA StreamSteps ==
  ASSUME StreamInv, [Next]_vars
  PROVE  [Pointer!Press \/ Pointer!Release \/ Pointer!Move]_<<seen.button, seen.type, delivered>>
<1>1. CASE Drain
  <2>1. /\ posted \in Seq(Moved) /\ posted # <<>> /\ seen.button \in BOOLEAN
        /\ seen' = [type |-> Head(posted).type, button |-> Head(posted).button]
        /\ delivered' = delivered + 1
    BY <1>1 DEF StreamInv, TypeInv, Typed, Sequenced, Drain
  <2>2. Head(posted) \in Moved /\ Head(posted) = posted[1] /\ 1 \in 1..Len(posted)
    BY <2>1, TailFacts
  <2>3. posted[1].type = EventType(posted[1].button, seen.button)
    BY <2>2 DEF StreamInv, Chained, ButtonBefore
  <2>4. seen'.type = EventType(seen'.button, seen.button) /\ seen'.button \in BOOLEAN
    BY <2>1, <2>2, <2>3 DEF Moved
  <2>5. \/ ~seen.button /\ seen'.button = TRUE /\ seen'.type = "press"
        \/ seen.button /\ seen'.button = FALSE /\ seen'.type = "release"
        \/ seen'.button = seen.button /\ seen'.type = "move"
    BY <2>1, <2>4 DEF EventType
  <2> QED
    BY <2>1, <2>5
       DEF Pointer!Press, Pointer!Release, Pointer!Move, Pointer!Event
<1>2. CASE ~Drain
  BY <1>2 DEF Next, Reporter, WindowReady, Put, ProcessEvent, vars, uiVars
<1> QED
  BY <1>1, <1>2

(* Whoever reports and however two reports interleave in the queue, the    *)
(* window gets presses and releases strictly in turn, moves that leave the *)
(* button as it is, and each event carries the button it leaves.           *)
THEOREM PointerStreamDelivered == Spec => DeliversPointerStream
<1>1. Spec => []StreamInv
  BY StreamInit, StreamStep, PTL DEF Spec
<1>2. Init => Pointer!Init
  BY DEF Init, Pointer!Init
<1>3. StreamInv /\ [Next]_vars =>
        [Pointer!Press \/ Pointer!Release \/ Pointer!Move]_<<seen.button, seen.type, delivered>>
  BY StreamSteps
<1> QED
  BY <1>1, <1>2, <1>3, PTL DEF Spec, DeliversPointerStream, Pointer!Spec

-----------------------------------------------------------------------------
(* Only one of the two reports: what it has under way is the queue and the *)
(* rest of its report, one sequence, whatever has been put so far.         *)
UnderWay(r) == Len(queue) + Len(script[r])

Coming(r, i) == IF i <= Len(queue) THEN queue[i] ELSE script[r][i - Len(queue)]

(* A coordinate is of the point the report is about. *)
OnPlace(e) ==
  /\ e.code = "x" => e.value = e.at[1]
  /\ e.code = "y" => e.value = e.at[2]

(* f directly after e: Y after the X of the same point, the button after   *)
(* the Y of its point, or alone, about the point of the button before it.  *)
MayFollow(e, f) ==
  /\ f.code = "y" => e.code = "x" /\ e.at = f.at
  /\ f.code = "touch" => e.code \in {"y", "touch"} /\ e.at = f.at

(* What g_state has to hold when f is the next event. *)
MayComeNext(f) ==
  /\ f.code = "y" => g_state.x = f.at[1]
  /\ f.code = "touch" => g_state.x = f.at[1] /\ g_state.y = f.at[2]

(* The last report of a finger that is down was about where it is. *)
FingerKnown(r) ==
  r = "finger" /\ finger # <<>> =>
    /\ UnderWay(r) = 0 => g_state.x = finger[1] /\ g_state.y = finger[2]
    /\ \A i \in 1..UnderWay(r) :
         i = UnderWay(r) => Coming(r, i).code = "touch" /\ Coming(r, i).at = finger

OneByOne(r) ==
  /\ \A i \in 1..UnderWay(r) : OnPlace(Coming(r, i))
  /\ \A i \in 1..(UnderWay(r) - 1) : MayFollow(Coming(r, i), Coming(r, i + 1))
  /\ UnderWay(r) > 0 => MayComeNext(Coming(r, 1))
  /\ FingerKnown(r)

(* A reporter that is not there reports nothing. *)
Silent ==
  /\ active # {}
  /\ "finger" \notin active => script["finger"] = <<>> /\ finger = <<>>
  /\ "tap" \notin active => script["tap"] = <<>> /\ tap = <<>>

(* While one of the two reports, no event posted combines the coordinates  *)
(* of two reports: turned back, it has those that were reported.           *)
Unmixed ==
  active # Reporters =>
    \A i \in DOMAIN posted : PanelPointOf(posted[i].pos) = posted[i].at

AimInv ==
  /\ TypeInv /\ Silent
  /\ \A r \in Reporters : active = {r} => OneByOne(r)
  /\ Unmixed

LEMMA AimInit == Init => AimInv
<1> SUFFICES ASSUME Init PROVE AimInv
  OBVIOUS
<1>1. Len(<<>>) = 0
  BY EmptySeq
<1>2. Silent
  BY Zenon DEF Init, Silent, Reporters
<1>3. ASSUME NEW r \in Reporters PROVE OneByOne(r)
  <2>1. UnderWay(r) = 0 /\ finger = <<>>
    BY <1>1 DEF Init, UnderWay
  <2> QED
    BY <2>1 DEF OneByOne, FingerKnown
<1>4. Unmixed
  <2>1. DOMAIN posted = {}
    BY DEF Init
  <2> QED
    BY <2>1 DEF Unmixed
<1> QED
  BY <1>2, <1>3, <1>4, TypeInit DEF AimInv

LEMMA SilentStep ==
  ASSUME Silent, TypeInv, [Next]_vars
  PROVE  Silent'
<1> USE DEF vars, reporterVars, uiVars
<1>1. CASE UNCHANGED <<active, script, finger, tap>>
  BY <1>1 DEF Silent
<1>2. CASE WindowReady \/ ProcessEvent \/ Drain \/ UNCHANGED vars
  BY <1>1, <1>2 DEF WindowReady, ProcessEvent, Drain
<1>3. ASSUME NEW r \in Reporters, Put(r) PROVE Silent'
  BY <1>3 DEF Put, Silent, TypeInv, Typed, Sequenced, Reporters
<1>4. CASE Reporter
  BY <1>4 DEF Reporter, FingerAt, FingerLifts, TapPress, TapRelease, Silent, TypeInv, Typed,
              Sequenced, Reporters
<1> QED
  BY <1>2, <1>3, <1>4 DEF Next

(* A report begins after everything that was under way has been put.       *)
LEMMA NewReport ==
  ASSUME TypeInv, NEW r \in Reporters, OneByOne(r),
         NEW s \in Seq(Made), NEW n \in Nat, Len(s) = n, n > 0,
         script[r] = <<>>, script'[r] = s, UNCHANGED <<queue, g_state>>,
         \A i \in 1..n : OnPlace(s[i]),
         \A i \in 1..(n - 1) : MayFollow(s[i], s[i + 1]),
         \/ s[1].code \in {"slot", "x"}
         \/ r = "finger" /\ finger # <<>> /\ s[1].code = "touch" /\ s[1].at = finger,
         r = "finger" /\ finger' # <<>> => s[n].code = "touch" /\ s[n].at = finger'
  PROVE  OneByOne(r)'
<1>1. Len(queue) \in Nat /\ Len(<<>>) = 0
  BY LenProperties, EmptySeq DEF TypeInv, Typed, Sequenced
<1>2. PICK m \in Nat : m = Len(queue)
  BY <1>1
<1>3. UnderWay(r) = m /\ UnderWay(r)' = m + n
  BY <1>1, <1>2 DEF UnderWay
<1>4. ASSUME NEW i \in 1..m PROVE Coming(r, i) = queue[i] /\ Coming(r, i)' = queue[i]
  BY <1>2 DEF Coming
<1>5. ASSUME NEW i \in (m + 1)..(m + n) PROVE Coming(r, i)' = s[i - m]
  BY <1>2 DEF Coming
<1>6. /\ \A i \in 1..m : OnPlace(queue[i])
      /\ \A i \in 1..(m - 1) : MayFollow(queue[i], queue[i + 1])
      /\ m > 0 => MayComeNext(queue[1])
      /\ r = "finger" /\ finger # <<>> =>
           /\ m = 0 => g_state.x = finger[1] /\ g_state.y = finger[2]
           /\ m > 0 => queue[m].code = "touch" /\ queue[m].at = finger
  BY <1>3, <1>4 DEF OneByOne, FingerKnown
<1>7. \A i \in 1..(m + n) : OnPlace(Coming(r, i)')
  BY <1>4, <1>5, <1>6
<1>8. ASSUME NEW i \in 1..(m + n - 1) PROVE MayFollow(Coming(r, i)', Coming(r, i + 1)')
  <2>1. CASE i < m
    BY <1>4, <1>6, <2>1
  <2>2. CASE i = m
    <3>1. Coming(r, i)' = queue[m] /\ Coming(r, i + 1)' = s[1]
      BY <1>4, <1>5, <2>2
    <3> QED
      BY <1>6, <2>2, <3>1 DEF MayFollow
  <2>3. CASE i > m
    <3>1. Coming(r, i)' = s[i - m] /\ Coming(r, i + 1)' = s[(i - m) + 1]
      BY <1>5, <2>3
    <3> QED
      BY <2>3, <3>1
  <2> QED
    BY <2>1, <2>2, <2>3
<1>9. MayComeNext(Coming(r, 1))'
  <2>1. CASE m > 0
    BY <1>4, <1>6, <2>1 DEF MayComeNext
  <2>2. CASE m = 0
    BY <1>5, <1>6, <2>2 DEF MayComeNext
  <2> QED
    BY <2>1, <2>2
<1>10. FingerKnown(r)'
  BY <1>3, <1>5 DEF FingerKnown
<1> QED
  BY <1>3, <1>7, <1>8, <1>9, <1>10 DEF OneByOne

(* The reports the code makes. *)
LEMMA ReporterOne ==
  ASSUME AimInv, Reporter, NEW r \in Reporters, active = {r}
  PROVE  OneByOne(r)'
<1> USE DEF OnPlace, MayFollow, Abs, Btn
<1>1. TypeInv /\ Silent /\ OneByOne(r) /\ UNCHANGED <<queue, g_state>>
  BY DEF AimInv, Reporter
<1>2. script \in [Reporters -> Seq(Made)] /\ r \in {"finger", "tap"}
  BY <1>1 DEF TypeInv, Typed, Sequenced, Reporters
<1>3. ASSUME NEW p \in Points, FingerAt(p) PROVE OneByOne(r)'
  <2>1. r = "finger" /\ script[r] = <<>> /\ script'[r] = TouchReport(p) /\ finger' = p
    BY <1>2, <1>3 DEF FingerAt
  <2> DEFINE s == TouchReport(p)
             n == 4
  <2>2. /\ s \in Seq(Made) /\ Len(s) = n
        /\ s[1] = Abs("slot", 0, p) /\ s[2] = Abs("x", p[1], p)
        /\ s[3] = Abs("y", p[2], p) /\ s[4] = Btn(1, p)
    BY TouchReportFacts
  <2> HIDE DEF s
  <2>3. \A i \in 1..n : OnPlace(s[i])
    BY <2>2
  <2>4. \A i \in 1..(n - 1) : MayFollow(s[i], s[i + 1])
    BY <2>2
  <2>5. s[1].code \in {"slot", "x"} /\ s[n].code = "touch" /\ s[n].at = finger'
    BY <2>1, <2>2
  <2>6. script'[r] = s /\ n \in Nat /\ n > 0
    BY <2>1 DEF s
  <2> HIDE DEF OnPlace, MayFollow, n
  <2> QED
    BY <1>1, <2>1, <2>2, <2>3, <2>4, <2>5, <2>6, NewReport
<1>4. ASSUME NEW p \in Points, NEW v \in {0, 1},
             script["tap"] = <<>>, script' = [script EXCEPT !["tap"] = TapReport(p, v)],
             r = "tap"
      PROVE  OneByOne(r)'
  <2> DEFINE s == TapReport(p, v)
             n == 3
  <2>1. /\ s \in Seq(Made) /\ Len(s) = n
        /\ s[1] = Abs("x", p[1], p) /\ s[2] = Abs("y", p[2], p) /\ s[3] = Btn(v, p)
    BY ONLY TapReportFacts, <1>4
  <2>2. script[r] = <<>> /\ script'[r] = s /\ n \in Nat /\ n > 0
    BY <1>2, <1>4
  <2> HIDE DEF s
  <2>3. \A i \in 1..n : OnPlace(s[i])
    BY <2>1
  <2>4. \A i \in 1..(n - 1) : MayFollow(s[i], s[i + 1])
    BY <2>1
  <2>5. s[1].code \in {"slot", "x"} /\ r # "finger"
    BY <1>4, <2>1
  <2> HIDE DEF OnPlace, MayFollow, n
  <2> QED
    BY <1>1, <2>1, <2>2, <2>3, <2>4, <2>5, NewReport
<1>5. ASSUME NEW p \in Points, TapPress(p) PROVE OneByOne(r)'
  BY <1>2, <1>4, <1>5 DEF TapPress
<1>6. CASE TapRelease
  <2>1. tap \in Points /\ r = "tap"
    BY <1>1, <1>2, <1>6 DEF TapRelease, TypeInv, Typed, Silent
  <2> QED
    BY <1>4, <1>6, <2>1 DEF TapRelease
<1>7. CASE FingerLifts
  <2>1. finger \in Points /\ r = "finger" /\ finger' = <<>>
    BY <1>1, <1>2, <1>7 DEF FingerLifts, TypeInv, Typed, Silent
  <2>2. PICK p \in Points : p = finger
    BY <2>1
  <2> DEFINE s == LiftReport(p)
             n == 1
  <2>3. script[r] = <<>> /\ script'[r] = s
    BY <1>2, <1>7, <2>1, <2>2 DEF FingerLifts
  <2>4. s \in Seq(Made) /\ Len(s) = n /\ n \in Nat /\ n > 0 /\ s[1] = Btn(0, p)
    BY <2>1, LiftReportFacts
  <2>5. finger # <<>>
    BY <2>1, PointFacts
  <2> HIDE DEF s
  <2>6. \A i \in 1..n : OnPlace(s[i])
    BY <2>4
  <2>7. \A i \in 1..(n - 1) : MayFollow(s[i], s[i + 1])
    OBVIOUS
  <2>8. s[1].code = "touch" /\ s[1].at = finger
    BY <2>2, <2>4
  <2> HIDE DEF OnPlace, MayFollow, n
  <2> QED
    BY <1>1, <2>1, <2>3, <2>4, <2>5, <2>6, <2>7, <2>8, NewReport
<1> QED
  BY <1>3, <1>5, <1>6, <1>7 DEF Reporter

LEMMA PutOne ==
  ASSUME AimInv, NEW q \in Reporters, Put(q), NEW r \in Reporters, active = {r}
  PROVE  OneByOne(r)'
<1>1. /\ TypeInv /\ Silent /\ OneByOne(r)
      /\ script \in [Reporters -> Seq(Made)] /\ queue \in Seq(Made)
      /\ UNCHANGED <<g_state, finger>>
  BY DEF AimInv, TypeInv, Typed, Sequenced, Put
<1>2. q = r
  BY <1>1 DEF Put, Silent, Reporters
<1>3. /\ script[r] # <<>> /\ script'[r] = Tail(script[r])
      /\ queue' = Append(queue, Head(script[r]))
  BY <1>1, <1>2 DEF Put
<1>4. PICK m \in Nat, n \in Nat : m = Len(queue) /\ n = Len(script[r])
  BY <1>1, LenProperties
<1>5. /\ Head(script[r]) = script[r][1] /\ Head(script[r]) \in Made
      /\ n > 0 /\ Len(script'[r]) = n - 1
      /\ \A i \in 1..(n - 1) : script'[r][i] = script[r][i + 1]
  BY <1>1, <1>3, <1>4, TailFacts
<1>6. /\ Len(queue') = m + 1 /\ queue'[m + 1] = script[r][1]
      /\ \A i \in 1..m : queue'[i] = queue[i]
  BY <1>1, <1>3, <1>4, <1>5, AppendFacts
<1>7. UnderWay(r)' = UnderWay(r) /\ UnderWay(r) = m + n
  <2>1. UnderWay(r)' = Len(queue') + Len(script'[r])
    BY DEF UnderWay
  <2>2. UnderWay(r) = m + n
    BY <1>4 DEF UnderWay
  <2> QED
    BY <1>5, <1>6, <2>1, <2>2
<1>8. ASSUME NEW i \in 1..(m + n) PROVE Coming(r, i)' = Coming(r, i)
  <2>1. CASE i <= m
    BY <1>4, <1>6, <2>1 DEF Coming
  <2>2. CASE i = m + 1
    BY <1>4, <1>6, <2>2 DEF Coming
  <2>3. CASE i > m + 1
    <3>1. Coming(r, i) = script[r][i - m]
      BY <1>4, <2>3 DEF Coming
    <3>2. Coming(r, i)' = script'[r][i - (m + 1)]
      BY <1>6, <2>3 DEF Coming
    <3>3. i - (m + 1) \in 1..(n - 1) /\ (i - (m + 1)) + 1 = i - m
      BY <2>3
    <3> QED
      BY <1>5, <3>1, <3>2, <3>3
  <2> QED
    BY <2>1, <2>2, <2>3
<1>9. /\ \A i \in 1..(m + n) : OnPlace(Coming(r, i)')
      /\ \A i \in 1..(m + n - 1) : MayFollow(Coming(r, i)', Coming(r, i + 1)')
  BY <1>1, <1>7, <1>8 DEF OneByOne
<1>10. m + n > 0 => MayComeNext(Coming(r, 1))'
  BY <1>1, <1>7, <1>8 DEF OneByOne, MayComeNext
<1>11. FingerKnown(r)'
  BY <1>1, <1>7, <1>8 DEF OneByOne, FingerKnown
<1> QED
  BY <1>7, <1>9, <1>10, <1>11 DEF OneByOne

(* process_event takes a coordinate, or has both for the button's sync.    *)
LEMMA TakenOnPlace ==
  ASSUME NEW e \in Made, OnPlace(e), MayComeNext(e), Typed
  PROVE  /\ e.code = "x" => Accumulate(e).x = e.at[1]
         /\ e.code \in {"y", "touch"} =>
              Accumulate(e).x = e.at[1] /\ Accumulate(e).y = e.at[2]
BY DEF OnPlace, MayComeNext, Typed, Accumulate

LEMMA PosteriorPlace ==
  ASSUME Typed, NEW e \in Made, NEW g, g.x = e.at[1], g.y = e.at[2]
  PROVE  PanelPointOf(Position(g.x, g.y)) = e.at
<1>1. e.at \in Points
  BY DEF Made, Events
<1>2. e.at = <<e.at[1], e.at[2]>> /\ e.at[1] \in Int /\ e.at[2] \in Int
  BY <1>1, PointFacts
<1> QED
  BY <1>2, PointAssumption DEF PanelPointOf, Position

LEMMA ProcessOne ==
  ASSUME AimInv, ProcessEvent, NEW r \in Reporters, active = {r}
  PROVE  /\ OneByOne(r)'
         /\ Head(queue).sync => PanelPointOf(Posted(Head(queue)).pos) = Head(queue).at
<1> DEFINE e == Head(queue)
           a == Accumulate(e)
<1>1. /\ TypeInv /\ Typed /\ OneByOne(r)
      /\ script \in [Reporters -> Seq(Made)] /\ queue \in Seq(Made) /\ queue # <<>>
      /\ UNCHANGED <<script, finger>>
  BY DEF AimInv, TypeInv, Typed, Sequenced, ProcessEvent, reporterVars
<1>2. PICK m \in Nat, n \in Nat : m = Len(queue) /\ n = Len(script[r])
  BY <1>1, LenProperties
<1>3. /\ e = queue[1] /\ e \in Made /\ m > 0
      /\ queue' = Tail(queue) /\ Len(queue') = m - 1
      /\ \A i \in 1..(m - 1) : queue'[i] = queue[i + 1]
  BY <1>1, <1>2, TailFacts DEF ProcessEvent
<1>4. g_state'.x = a.x /\ g_state'.y = a.y
  BY <1>1, ProcessFacts
<1>5. UnderWay(r) = m + n /\ UnderWay(r)' = m + n - 1
  BY <1>1, <1>2, <1>3 DEF UnderWay
<1>6. Coming(r, 1) = e
  BY <1>2, <1>3 DEF Coming
<1>7. ASSUME NEW i \in 1..(m + n - 1) PROVE Coming(r, i)' = Coming(r, i + 1)
  <2>1. CASE i <= m - 1
    BY <1>2, <1>3, <2>1 DEF Coming
  <2>2. CASE i > m - 1
    <3>1. Coming(r, i + 1) = script[r][(i + 1) - m]
      BY <1>2, <2>2 DEF Coming
    <3>2. Coming(r, i)' = script[r][i - (m - 1)]
      BY <1>1, <1>3, <2>2 DEF Coming
    <3> QED
      BY <3>1, <3>2
  <2> QED
    BY <2>1, <2>2
<1> HIDE DEF e
<1>8. OnPlace(e) /\ MayComeNext(e)
  BY <1>1, <1>3, <1>5, <1>6 DEF OneByOne
<1>9. /\ e.code = "x" => a.x = e.at[1]
      /\ e.code \in {"y", "touch"} => a.x = e.at[1] /\ a.y = e.at[2]
  BY <1>1, <1>3, <1>8, TakenOnPlace
<1> HIDE DEF a
<1>10. /\ \A i \in 1..(m + n - 1) : OnPlace(Coming(r, i)')
       /\ \A i \in 1..(m + n - 2) : MayFollow(Coming(r, i)', Coming(r, i + 1)')
  <2>1. \A i \in 1..(m + n - 1) : OnPlace(Coming(r, i + 1))
    BY <1>1, <1>5 DEF OneByOne
  <2>2. \A i \in 1..(m + n - 2) : MayFollow(Coming(r, i + 1), Coming(r, (i + 1) + 1))
    BY <1>1, <1>5 DEF OneByOne
  <2> QED
    BY <1>7, <2>1, <2>2
<1>11. m + n - 1 > 0 => MayComeNext(Coming(r, 1))'
  <2> SUFFICES ASSUME m + n - 1 > 0 PROVE MayComeNext(Coming(r, 1))'
    OBVIOUS
  <2>1. Coming(r, 1)' = Coming(r, 2)
    BY <1>7
  <2>2. MayFollow(e, Coming(r, 2))
    BY <1>1, <1>5, <1>6 DEF OneByOne
  <2> QED
    BY <1>4, <1>9, <2>1, <2>2 DEF MayComeNext, MayFollow
<1>12. FingerKnown(r)'
  <2> SUFFICES ASSUME r = "finger", finger # <<>> PROVE FingerKnown(r)'
    BY <1>1 DEF FingerKnown
  <2>1. CASE m + n - 1 = 0
    <3>1. e.code = "touch" /\ e.at = finger
      BY <1>1, <1>5, <1>6, <2>1 DEF OneByOne, FingerKnown
    <3> QED
      BY <1>1, <1>4, <1>5, <1>9, <2>1, <3>1 DEF FingerKnown
  <2>2. CASE m + n - 1 > 0
    <3>1. \A i \in 1..(m + n - 1) :
            i = m + n - 1 => Coming(r, i)'.code = "touch" /\ Coming(r, i)'.at = finger
      BY <1>1, <1>5, <1>7, <2>2 DEF OneByOne, FingerKnown
    <3> QED
      BY <1>1, <1>5, <2>2, <3>1 DEF FingerKnown
  <2> QED
    BY <1>2, <1>3, <2>1, <2>2
<1>13. e.sync => PanelPointOf(Posted(e).pos) = e.at
  <2> SUFFICES ASSUME e.sync PROVE PanelPointOf(Posted(e).pos) = e.at
    OBVIOUS
  <2>1. a.x = e.at[1] /\ a.y = e.at[2]
    BY <1>3, <1>9 DEF Made
  <2>2. Posted(e).pos = Position(a.x, a.y)
    BY DEF Posted, a
  <2> QED
    BY <1>1, <1>3, <2>1, <2>2, PosteriorPlace
<1> QED
  BY <1>5, <1>10, <1>11, <1>12, <1>13 DEF OneByOne, e

LEMMA AimHits ==
  ASSUME AimInv, [Next]_vars
  PROVE  Unmixed'
<1>1. /\ TypeInv /\ Typed /\ Unmixed /\ posted \in Seq(Moved)
      /\ Silent /\ active \subseteq Reporters
      /\ UNCHANGED <<active, rotated>>
  BY DEF AimInv, TypeInv, Typed, Sequenced, Next, vars, Reporter, Put, ProcessEvent,
         WindowReady, Drain
<1>2. \A p : PanelPointOf(p)' = PanelPointOf(p)
  BY <1>1 DEF PanelPointOf
<1>a. CASE UNCHANGED posted
  BY <1>1, <1>2, <1>a DEF Unmixed
<1>3. CASE Drain
  <2>1. /\ posted # <<>> /\ posted' = Tail(posted)
    BY <1>3 DEF Drain
  <2>2. /\ Tail(posted) \in Seq(Moved) /\ Len(posted) \in Nat
        /\ Len(Tail(posted)) = Len(posted) - 1
        /\ \A i \in 1..(Len(posted) - 1) : Tail(posted)[i] = posted[i + 1]
    BY <1>1, <2>1, TailFacts
  <2>3. DOMAIN posted = 1..Len(posted) /\ DOMAIN posted' = 1..(Len(posted) - 1)
    BY <1>1, <2>1, <2>2, LenProperties
  <2> QED
    BY <1>1, <1>2, <2>1, <2>2, <2>3 DEF Unmixed
<1>4. CASE ProcessEvent
  <2> SUFFICES ASSUME active # Reporters, NEW i \in DOMAIN posted'
               PROVE  PanelPointOf(posted'[i].pos) = posted'[i].at
    BY <1>1, <1>2 DEF Unmixed
  <2>1. PICK r \in Reporters : active = {r}
    BY <1>1 DEF Silent, Reporters
  <2>2. CASE ~Head(queue).sync
    BY <1>1, <1>4, <2>2, ProcessFacts DEF Unmixed
  <2>3. CASE Head(queue).sync
    <3> DEFINE p == Posted(Head(queue))
    <3>1. p \in Moved /\ posted' = Append(posted, p)
      BY <1>1, <1>4, <2>3, ProcessFacts
    <3>2. PanelPointOf(p.pos) = p.at
      BY <1>4, <2>1, <2>3, ProcessOne DEF Posted
    <3> HIDE DEF p
    <3>3. /\ Append(posted, p) \in Seq(Moved)
          /\ Len(Append(posted, p)) = Len(posted) + 1
          /\ \A k \in 1..Len(posted) : Append(posted, p)[k] = posted[k]
          /\ Append(posted, p)[Len(posted) + 1] = p
      BY <1>1, <3>1, AppendFacts
    <3>4. /\ Len(posted) \in Nat /\ DOMAIN posted = 1..Len(posted)
          /\ i \in 1..(Len(posted) + 1)
      BY <1>1, <3>1, <3>3, LenProperties
    <3> QED
      BY <1>1, <3>1, <3>2, <3>3, <3>4 DEF Unmixed
  <2> QED
    BY <2>2, <2>3
<1> QED
  BY <1>3, <1>4, <1>a DEF Next, vars, Reporter, Put, WindowReady

LEMMA AimStep == AimInv /\ [Next]_vars => AimInv'
<1> SUFFICES ASSUME AimInv, [Next]_vars PROVE AimInv'
  OBVIOUS
<1>1. TypeInv' /\ Silent' /\ Unmixed'
  BY TypeStep, SilentStep, AimHits DEF AimInv
<1>2. ASSUME NEW r \in Reporters, active' = {r} PROVE OneByOne(r)'
  <2>1. active = {r} /\ OneByOne(r)
    BY <1>2 DEF AimInv, Next, vars, Reporter, Put, ProcessEvent, WindowReady, Drain
  <2>2. CASE UNCHANGED <<queue, script, finger, g_state>>
    <3>1. UnderWay(r)' = UnderWay(r)
      BY <2>2 DEF UnderWay
    <3>2. \A i : Coming(r, i)' = Coming(r, i)
      BY <2>2 DEF Coming
    <3>3. /\ \A i : OnPlace(Coming(r, i))' <=> OnPlace(Coming(r, i))
          /\ \A i : MayFollow(Coming(r, i), Coming(r, i + 1))'
                      <=> MayFollow(Coming(r, i), Coming(r, i + 1))
          /\ MayComeNext(Coming(r, 1))' <=> MayComeNext(Coming(r, 1))
      BY <2>2, <3>2 DEF OnPlace, MayFollow, MayComeNext
    <3>4. FingerKnown(r)' <=> FingerKnown(r)
      BY <2>2, <3>1, <3>2 DEF FingerKnown
    <3> QED
      BY <2>1, <3>1, <3>3, <3>4 DEF OneByOne
  <2>3. CASE WindowReady \/ Drain \/ UNCHANGED vars
    BY <2>2, <2>3 DEF WindowReady, Drain, vars, reporterVars
  <2> QED
    BY <2>1, <2>3, ReporterOne, PutOne, ProcessOne DEF Next
<1> QED
  BY <1>1, <1>2 DEF AimInv

(* On any panel, rotated or not, each mouse event of a finger lands at the *)
(* panel point the finger is at, the release of one that lifted included,  *)
(* as long as no tap is reported; and each event of a tap lands at the     *)
(* point asked for, on a board that does not rotate and while no finger is *)
(* there.                                                                  *)
THEOREM HitsTheTarget == Spec => []HitsWhatIsSeen
<1>1. Spec => []AimInv
  BY AimInit, AimStep, PTL DEF Spec
<1>2. AimInv => HitsWhatIsSeen
  <2> SUFFICES ASSUME AimInv, active = {"finger"} \/ (active = {"tap"} /\ ~rotated)
               PROVE  \A i \in DOMAIN posted : PanelPointOf(posted[i].pos) = posted[i].at
    BY DEF HitsWhatIsSeen
  <2>1. active # Reporters
    BY DEF Reporters
  <2> QED
    BY <2>1 DEF AimInv, Unmixed
<1> QED
  BY <1>1, <1>2, PTL

=============================================================================
