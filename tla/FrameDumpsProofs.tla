--------------------------- MODULE FrameDumpsProofs ---------------------------
(***************************************************************************)
(* Proofs about FrameDumps and DebugTimer, for any number of buffers,      *)
(* presents, rows and calls, and any delays.                               *)
(***************************************************************************)
EXTENDS FrameDumps, WellFoundedInduction, TLAPS

(* s_dumping says whether one of the two threads is inside a dump.         *)
DumpingSaysSo == s_dumping <=> main # "loop" \/ idle = "print"

DumpInv == DumpingSaysSo /\ OneDumpAtATime

(* A call that turns the dump off has turned off what it has come past;    *)
(* one that turns it on starts the timer last.                             *)
SettingOff ==
  setting # <<>> =>
    /\ setting \in BOOLEAN \X {"attrib", "timer"}
    /\ ~setting[1] => debugOpt = FALSE
    /\ ~setting[1] /\ setting[2] = "timer" => attribDump = FALSE

TimerInv == SettingOff /\ DumpIsBounded

LEMMA DumpInitInv == Init => DumpInv
BY DEF Init, DumpInv, DumpingSaysSo, OneDumpAtATime

LEMMA DumpNextInv ==
  ASSUME DumpInv, [Next]_vars
  PROVE  DumpInv'
<1> USE DEF DumpInv, DumpingSaysSo, OneDumpAtATime
<1>1. CASE Render
  BY <1>1 DEF Render, idleVars
<1>2. CASE Present
  BY <1>2 DEF Present, Samples, MainBlocked, idleVars
<1>3. CASE SampleEnds
  BY <1>3 DEF SampleEnds, DumpDone, idleVars
<1>4. CASE IdleTest
  BY <1>4 DEF IdleTest, mainVars
<1>5. CASE IdleSet
  BY <1>5 DEF IdleSet, mainVars
<1>6. CASE IdleCall
  BY <1>6 DEF IdleCall, MainBlocked, mainVars
<1>7. CASE IdlePrint
  <2>1. main = "loop" /\ main' = "loop" /\ idle = "print"
    BY <1>7 DEF IdlePrint, MainBlocked, mainVars
  <2>2. CASE row \in {ThumbRows, ThumbRows + CropRows}
    BY <1>7, <2>1, <2>2 DEF IdlePrint, DumpDone
  <2>3. CASE row \notin {ThumbRows, ThumbRows + CropRows}
    BY <1>7, <2>1, <2>3 DEF IdlePrint
  <2> QED
    BY <2>2, <2>3
<1>8. CASE Tick
  BY <1>8 DEF Tick, mainVars
<1>9. CASE DebugStep
  BY <1>9 DEF DebugStep, mainVars, idleVars
<1>10. CASE UNCHANGED vars
  BY <1>10 DEF vars, mainVars, idleVars
<1> QED
  BY <1>1, <1>2, <1>3, <1>4, <1>5, <1>6, <1>7, <1>8, <1>9, <1>10 DEF Next, IdleWatch

(* The row buffer print_row shares is never used by two dumps at a time.   *)
THEOREM OneDump == Spec => []OneDumpAtATime
<1>1. Init => DumpInv
  BY DumpInitInv
<1>2. DumpInv /\ [Next]_vars => DumpInv'
  BY DumpNextInv
<1>3. DumpInv => OneDumpAtATime
  BY DEF DumpInv
<1> QED
  BY <1>1, <1>2, <1>3, PTL DEF Spec

-----------------------------------------------------------------------------
LEMMA TimerInitInv == Init => TimerInv
BY DEF Init, DebugInit, TimerInv, SettingOff, DumpIsBounded

LEMMA SetterStep ==
  ASSUME TimerInv, SetAttrib \/ SetTimer \/ Expired \/ \E on \in BOOLEAN : DebugSet(on)
  PROVE  TimerInv'
<1> USE DEF TimerInv, SettingOff, DumpIsBounded
<1>1. CASE SetAttrib
  BY <1>1 DEF SetAttrib
<1>2. CASE SetTimer
  BY <1>2 DEF SetTimer
<1>3. CASE Expired
  BY <1>3 DEF Expired
<1>4. ASSUME NEW on \in BOOLEAN, DebugSet(on) PROVE TimerInv'
  BY <1>4 DEF DebugSet
<1> QED
  BY <1>1, <1>2, <1>3, <1>4

LEMMA TimerNextInv ==
  ASSUME TimerInv, [Next]_vars
  PROVE  TimerInv'
<1>1. CASE DebugStep
  BY <1>1, SetterStep DEF DebugStep, DebugCall
<1>2. CASE UNCHANGED debugVars
  BY <1>2 DEF debugVars, TimerInv, SettingOff, DumpIsBounded
<1>3. Next => DebugStep \/ UNCHANGED debugVars
  BY DEF Next, Render, Present, SampleEnds, IdleWatch, IdleTest, IdleSet, IdleCall,
         IdlePrint, Tick
<1> QED
  BY <1>1, <1>2, <1>3 DEF vars

(* No interleaving of the timer interrupt with qzephyr_gl_debug_set leaves *)
(* one of the backend's switches on with nothing to turn it off.           *)
THEOREM DumpBounded == Spec => []DumpIsBounded
<1>1. Init => TimerInv
  BY TimerInitInv
<1>2. TimerInv /\ [Next]_vars => TimerInv'
  BY TimerNextInv
<1>3. TimerInv => DumpIsBounded
  BY DEF TimerInv
<1> QED
  BY <1>1, <1>2, <1>3, PTL DEF Spec

-----------------------------------------------------------------------------
(* What a buffer holds.  The last frame rendered into it exists because    *)
(* the numbers up to `submitted` are well-founded.                         *)
Less == {ss \in Nat \X Nat : ss[1] < ss[2]}

LEMMA LessWellFounded == IsWellFoundedOn(Less, Nat)
BY NatLessThanWellFounded, Zenon DEF OpToRel, Less

LEMMA Largest ==
  ASSUME NEW n \in Nat, NEW T, T \subseteq 1..n, T # {}
  PROVE  \E x \in T : \A y \in T : y <= x
<1> DEFINE Left == {n - y : y \in T}
<1>0. \A y \in T : n - y \in Nat
  OBVIOUS
<1>1. Left \subseteq Nat /\ Left # {}
  <2>1. PICK y \in T : TRUE
    OBVIOUS
  <2>2. n - y \in Left
    OBVIOUS
  <2> QED
    BY <1>0, <2>2
<1>2. PICK m \in Left : \A k \in Left : ~(<<k, m>> \in Less)
  <2> HIDE DEF Left
  <2> QED
    BY <1>1, LessWellFounded, WFMin
<1>3. \A k \in Left : m <= k
  <2> HIDE DEF Left
  <2> SUFFICES ASSUME NEW k \in Left PROVE m <= k
    OBVIOUS
  <2>1. m \in Nat /\ k \in Nat /\ ~(<<k, m>> \in Less)
    BY <1>1, <1>2
  <2> QED
    BY <2>1 DEF Less
<1>4. PICK x \in T : m = n - x
  BY <1>2
<1>5. \A y \in T : n - x <= n - y
  BY <1>3, <1>4
<1>6. \A y \in T : y <= x
  <2> SUFFICES ASSUME NEW y \in T PROVE y <= x
    OBVIOUS
  <2>1. n - x <= n - y /\ x \in 1..n /\ y \in 1..n
    BY <1>5
  <2> QED
    BY <2>1
<1> QED
  BY <1>6

LEMMA HoldsType ==
  ASSUME NEW b, submitted \in Nat
  PROVE  Holds(b) \in 0..submitted
<1> DEFINE frames == {f \in 1..submitted : BufOf(f) = b}
<1>1. CASE frames = {}
  BY <1>1 DEF Holds
<1>2. CASE frames # {}
  <2>1. \E f \in frames : \A g \in frames : g <= f
    <3>1. frames \subseteq 1..submitted
      OBVIOUS
    <3> HIDE DEF frames
    <3> QED
      BY <1>2, <3>1, Largest
  <2>2. (CHOOSE f \in frames : \A g \in frames : g <= f) \in frames
    <3> HIDE DEF frames
    <3> QED
      BY <2>1
  <2>3. Holds(b) = CHOOSE f \in frames : \A g \in frames : g <= f
    BY <1>2 DEF Holds
  <2> QED
    BY <2>2, <2>3
<1> QED
  BY <1>1, <1>2

(* Two frames less than NBuf apart are in different buffers. *)
LEMMA BuffersDiffer ==
  ASSUME NEW f \in Nat, NEW d \in 1..2
  PROVE  BufOf(f + d) # BufOf(f)
<1> DEFINE q == f \div NBuf
           p == (f + d) \div NBuf
           r == f % NBuf
<1>1. /\ q \in Int /\ r \in 0..(NBuf - 1) /\ f = NBuf * q + r
      /\ p \in Int /\ f + d = NBuf * p + ((f + d) % NBuf)
  BY BufferAssumption, SMT
<1>2. ASSUME (f + d) % NBuf = r PROVE FALSE
  <2>1. f + d = NBuf * p + r
    BY <1>1, <1>2
  <2> HIDE DEF q, p, r
  <2>2. NBuf * p = NBuf * q + d
    BY <1>1, <2>1, BufferAssumption
  <2>3. CASE p <= q
    <3>1. NBuf * p <= NBuf * q
      BY <1>1, <2>3, BufferAssumption
    <3> QED
      BY <1>1, <2>2, <3>1, BufferAssumption
  <2>4. CASE p > q
    <3>1. NBuf * q + NBuf <= NBuf * p
      BY <1>1, <2>4, BufferAssumption
    <3> QED
      BY <1>1, <2>2, <3>1, BufferAssumption
  <2> QED
    BY <1>1, <2>3, <2>4
<1> QED
  BY <1>2 DEF BufOf

(* The buffer on screen still holds the frame that was presented: the two  *)
(* frames rendered ahead of it went elsewhere.                             *)
LEMMA HoldsPresented ==
  ASSUME presents \in Nat \ {0}, submitted \in presents..(presents + 2)
  PROVE  Holds(BufOf(presents)) = presents
<1> DEFINE frames == {f \in 1..submitted : BufOf(f) = BufOf(presents)}
<1>1. presents \in frames
  OBVIOUS
<1>2. \A g \in frames : g <= presents
  <2> SUFFICES ASSUME NEW g \in frames, g > presents PROVE FALSE
    OBVIOUS
  <2>1. BufOf(g) = BufOf(presents) /\ g - presents \in 1..2 /\ g = presents + (g - presents)
    OBVIOUS
  <2> QED
    BY <2>1, BuffersDiffer
<1>3. (CHOOSE f \in frames : \A g \in frames : g <= f) = presents
  <2>1. \A f \in frames : (\A g \in frames : g <= f) => f = presents
    BY <1>1, <1>2
  <2> HIDE DEF frames
  <2> QED
    BY <1>1, <1>2, <2>1
<1> QED
  BY <1>1, <1>3 DEF Holds

-----------------------------------------------------------------------------
(* The index kept for idle_watch is the buffer on screen; a dump begins    *)
(* with something on screen; and while the mark is set nothing has been    *)
(* presented since, so that every row printed shows the present frame.     *)
Indexed == s_idle_index = IF presents = 0 THEN -1 ELSE BufOf(presents)

Underway ==
  /\ submitted <= MaxPresents
  /\ idle # "sleep" => presents > 0
  /\ idle \in {"call", "print"} => row \in Rows

Decoded ==
  s_idle_dumped =>
    /\ presents > 0
    /\ idle # "set"
    /\ idle = "print" => index = BufOf(presents)
    /\ \A r \in Rows : idle = "sleep" \/ r < row => picture[r] = presents

PictureInv == TypeOK /\ Indexed /\ Underway /\ Decoded

LEMMA BufOfType ==
  ASSUME NEW f \in Nat
  PROVE  BufOf(f) \in Buf /\ BufOf(f) # -1
BY BufferAssumption, SMT DEF BufOf, Buf

LEMMA DebugTyped ==
  ASSUME DebugTypeOK, SetAttrib \/ SetTimer \/ Expired \/ \E on \in BOOLEAN : DebugSet(on)
  PROVE  DebugTypeOK'
<1> USE DEF DebugTypeOK
<1>1. CASE SetAttrib
  BY <1>1 DEF SetAttrib
<1>2. CASE SetTimer
  BY <1>2 DEF SetTimer
<1>3. CASE Expired
  BY <1>3 DEF Expired
<1>4. ASSUME NEW on \in BOOLEAN, DebugSet(on) PROVE DebugTypeOK'
  BY <1>4, CallAssumption DEF DebugSet
<1> QED
  BY <1>1, <1>2, <1>3, <1>4

LEMMA PictureInit == Init => PictureInv
<1> SUFFICES ASSUME Init PROVE PictureInv
  OBVIOUS
<1>1. DebugTypeOK
  <2>1. {debugOpt, attribDump, timer} \subseteq BOOLEAN
    BY Zenon DEF Init, DebugInit
  <2>2. setting = <<>> /\ calls \in 0..MaxCalls
    BY CallAssumption DEF Init, DebugInit
  <2> QED
    BY <2>1, <2>2 DEF DebugTypeOK
<1>2. {s_dumping, s_idle_dumped} \subseteq BOOLEAN
  BY Zenon DEF Init
<1>3. /\ presents \in 0..MaxPresents /\ submitted \in presents..(presents + 2)
      /\ s_idle_index \in Buf \cup {-1} /\ index \in Buf
      /\ sincePresent \in 0..IdleAfter /\ sinceDump \in 0..RedumpAfter
      /\ submitted <= MaxPresents
  BY BufferAssumption, TimeAssumption, PresentAssumption DEF Init, Buf
<1>4. picture \in [Rows -> 0..(MaxPresents + 2)]
  BY PresentAssumption DEF Init
<1>5. TypeOK
  BY <1>1, <1>2, <1>3, <1>4 DEF Init, TypeOK
<1> QED
  BY <1>3, <1>5 DEF Init, PictureInv, Indexed, Underway, Decoded

LEMMA PictureMain ==
  ASSUME PictureInv, Render \/ Present \/ SampleEnds \/ Tick \/ DebugStep
  PROVE  PictureInv'
<1> USE DEF PictureInv, TypeOK, Indexed, Underway, Decoded
<1>1. CASE Render
  BY <1>1, PresentAssumption DEF Render, debugVars, idleVars, DebugTypeOK
<1>2. CASE Present
  <2>1. presents + 1 \in 1..MaxPresents /\ submitted \in (presents + 1)..(presents + 1 + 2)
    BY <1>2, PresentAssumption DEF Present
  <2>2. BufOf(presents + 1) \in Buf
    BY BufOfType, PresentAssumption
  <2>3. DebugTypeOK'
    BY <1>2 DEF Present, debugVars, DebugTypeOK
  <2>4. main' \in {"loop", "thumb", "crop"} /\ {s_dumping', s_idle_dumped'} \subseteq BOOLEAN
    BY <1>2 DEF Present, FrameChanged
  <2>5. sincePresent' \in 0..IdleAfter
    BY <1>2, TimeAssumption DEF Present, FrameChanged
  <2> QED
    BY <1>2, <2>1, <2>2, <2>3, <2>4, <2>5 DEF Present, FrameChanged, idleVars
<1>3. CASE SampleEnds
  <2>1. DebugTypeOK'
    BY <1>3 DEF SampleEnds, debugVars, DebugTypeOK
  <2>2. main' \in {"loop", "thumb", "crop"} /\ s_dumping' \in BOOLEAN
    BY <1>3 DEF SampleEnds, DumpDone
  <2>3. sincePresent' \in 0..IdleAfter
    BY <1>3, TimeAssumption DEF SampleEnds
  <2> QED
    BY <1>3, <2>1, <2>2, <2>3 DEF SampleEnds, idleVars
<1>4. CASE Tick
  BY <1>4, TimeAssumption DEF Tick, Older, debugVars, mainVars, DebugTypeOK
<1>5. CASE DebugStep
  <2>1. DebugTypeOK'
    BY <1>5, DebugTyped DEF DebugStep, DebugCall
  <2> QED
    BY <1>5, <2>1 DEF DebugStep, mainVars, idleVars
<1> QED
  BY <1>1, <1>2, <1>3, <1>4, <1>5

LEMMA PictureIdle ==
  ASSUME PictureInv, IdleWatch
  PROVE  PictureInv'
<1> USE DEF PictureInv, TypeOK, Indexed, Underway, Decoded
<1>0. DebugTypeOK'
  BY DEF IdleWatch, IdleTest, IdleSet, IdleCall, IdlePrint, debugVars, DebugTypeOK
<1>1. CASE IdleTest
  BY <1>0, <1>1, TimeAssumption DEF IdleTest, mainVars
<1>2. CASE IdleSet
  <2>1. 1 \in Rows /\ \A r \in Rows : ~(r < 1)
    BY RowAssumption DEF Rows
  <2> QED
    BY <1>0, <1>2, <2>1 DEF IdleSet, mainVars
<1>3. CASE IdleCall
  <2>1. presents > 0 /\ s_idle_index = BufOf(presents) /\ s_idle_index \in Buf
    BY <1>3, BufOfType, PresentAssumption DEF IdleCall
  <2> QED
    BY <1>0, <1>3, <2>1 DEF IdleCall, mainVars
<1>4. CASE IdlePrint
  <2>1. row \in Rows /\ presents > 0
    BY <1>4 DEF IdlePrint
  <2>2. /\ submitted \in Nat /\ presents \in Nat /\ submitted <= MaxPresents + 2
        /\ Holds(index) \in 0..(MaxPresents + 2)
    BY HoldsType, PresentAssumption
  <2>3. picture' \in [Rows -> 0..(MaxPresents + 2)]
    BY <1>4, <2>1, <2>2 DEF IdlePrint
  <2>4. s_idle_dumped => Holds(index) = presents
    BY <1>4, <2>1, <2>2, HoldsPresented DEF IdlePrint
  <2>5. CASE row = ThumbRows + CropRows
    <3>1. row' = 0 /\ idle' = "sleep" /\ row # ThumbRows
      BY <1>4, <2>5, RowAssumption DEF IdlePrint, RowAfter
    <3>2. \A r \in Rows : r = row \/ r < row
      BY <2>5, RowAssumption DEF Rows
    <3>3. Decoded'
      BY <1>4, <2>1, <2>4, <3>1, <3>2 DEF IdlePrint, mainVars
    <3> QED
      BY <1>0, <1>4, <2>1, <2>3, <2>5, <3>1, <3>3 DEF IdlePrint, DumpDone, mainVars
  <2>6. CASE row # ThumbRows + CropRows
    <3>1. row' = row + 1 /\ row' \in Rows /\ \A r \in Rows : r < row' => r = row \/ r < row
      BY <1>4, <2>1, <2>6, RowAssumption DEF IdlePrint, RowAfter, Rows
    <3>2. idle' \in {"call", "print"} /\ s_dumping' \in BOOLEAN
      BY <1>4, <2>6 DEF IdlePrint, DumpDone
    <3>3. Decoded'
      BY <1>4, <2>1, <2>4, <3>1, <3>2 DEF IdlePrint, mainVars
    <3> QED
      BY <1>0, <1>4, <2>1, <2>3, <3>1, <3>2, <3>3 DEF IdlePrint, mainVars
  <2> QED
    BY <2>5, <2>6
<1> QED
  BY <1>1, <1>2, <1>3, <1>4 DEF IdleWatch

LEMMA PictureNext ==
  ASSUME PictureInv, [Next]_vars
  PROVE  PictureInv'
<1>1. CASE UNCHANGED vars
  BY <1>1 DEF vars, debugVars, mainVars, idleVars, PictureInv, TypeOK, DebugTypeOK, Indexed,
              Underway, Decoded
<1> QED
  BY <1>1, PictureMain, PictureIdle DEF Next

LEMMA PictureInvariant == Spec => []PictureInv
<1>1. Init => PictureInv
  BY PictureInit
<1>2. PictureInv /\ [Next]_vars => PictureInv'
  BY PictureNext
<1> QED
  BY <1>1, <1>2, PTL DEF Spec

(* Every variable keeps its type: rows and buffers are addressed within    *)
(* the dump and the ring, the GPU is at most two frames ahead.             *)
THEOREM TypeCorrect == Spec => []TypeOK
<1>1. PictureInv => TypeOK
  BY DEF PictureInv
<1> QED
  BY <1>1, PictureInvariant, PTL

(* However presents, renders and rows interleave, and however many rows a  *)
(* dump has: between idle dumps with the mark set, every row the host has  *)
(* decoded is of the frame on screen.                                      *)
THEOREM Redumped == Spec => []StaleIsRedumped
<1>1. PictureInv => StaleIsRedumped
  BY DEF PictureInv, Decoded, StaleIsRedumped
<1> QED
  BY <1>1, PictureInvariant, PTL

=============================================================================
