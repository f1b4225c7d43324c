------------------------------ MODULE FrameDumps ------------------------------
(***************************************************************************)
(* The frame dumps of the AM62P glue (CONFIG_QT_DEBUG_LOG): sample_frame,  *)
(* on the main thread with every present, and idle_watch, a thread of the  *)
(* lowest priority that dumps the frame on screen when nothing is          *)
(* presented any more.  One core: idle_watch runs only while the main      *)
(* thread is blocked, and is preempted between any two of its steps.       *)
(*                                                                         *)
(* Frame f is rendered into buffer f % NBuf, at most two frames ahead of   *)
(* the present (SwapChain).  A row of a dump prints what the buffer holds  *)
(* then; the host (fbdump2png.py) keeps the last print of each row.        *)
(* Times are in ticks, kept as ages that stop at the largest one compared. *)
(***************************************************************************)
EXTENDS DebugTimer, Integers

CONSTANTS
  NBuf,          (* CONFIG_QT_SCANOUT_BUFFERS                              *)
  MaxPresents,   (* bound: presents                                        *)
  ThumbAt,       (* presents that dump a thumbnail: 31 and 331             *)
  CropAt,        (* presents that dump a crop too: 31                      *)
  IdleAfter,     (* 3 s                                                    *)
  RedumpAfter,   (* 10 s                                                   *)
  ThumbRows,     (* rows of a thumbnail                                    *)
  CropRows       (* rows of a crop                                         *)

(* The swap chain needs three buffers; both dumps have rows.               *)
ASSUME BufferAssumption == NBuf \in Nat /\ NBuf >= 3
ASSUME RowAssumption    == ThumbRows \in Nat \ {0} /\ CropRows \in Nat \ {0}
ASSUME TimeAssumption   == IdleAfter \in Nat /\ RedumpAfter \in Nat
ASSUME PresentAssumption == MaxPresents \in Nat

VARIABLES
  presents, submitted,  (* frames presented, frames handed to the GPU      *)
  s_dumping, s_idle_index, s_idle_dumped,
  sincePresent,  (* now - s_last_present_ms                                *)
  sinceDump,     (* now - s_last_idle_dump_ms                              *)
  main,          (* "loop", or the dump sample_frame is printing           *)
  idle,          (* what idle_watch is doing                               *)
  row, index,    (* the next row of its dump, and of which buffer          *)
  picture        (* row -> frame, as decoded from the idle dumps           *)

mainVars == <<presents, submitted, s_idle_index, main>>
idleVars == <<sinceDump, idle, row, index, picture>>
vars == <<debugVars, mainVars, idleVars, s_dumping, s_idle_dumped, sincePresent>>

Rows == 1..(ThumbRows + CropRows)
Buf  == 0..(NBuf - 1)

TypeOK ==
  /\ DebugTypeOK
  /\ presents \in 0..MaxPresents /\ submitted \in presents..(presents + 2)
  /\ {s_dumping, s_idle_dumped} \subseteq BOOLEAN
  /\ s_idle_index \in Buf \cup {-1} /\ index \in Buf
  /\ sincePresent \in 0..IdleAfter /\ sinceDump \in 0..RedumpAfter
  /\ main \in {"loop", "thumb", "crop"}
  /\ idle \in {"sleep", "set", "call", "print"}
  /\ row \in Rows \cup {0}
  /\ picture \in [Rows -> 0..(MaxPresents + 2)]

Init ==
  /\ DebugInit
  /\ presents = 0 /\ submitted = 0
  /\ s_dumping = FALSE /\ s_idle_dumped = FALSE
  /\ s_idle_index = -1 /\ index = 0
  /\ sincePresent = IdleAfter /\ sinceDump = RedumpAfter
  /\ main = "loop" /\ idle = "sleep"
  /\ row = 0
  /\ picture = [r \in Rows |-> 0]

MainBlocked == main = "loop" /\ setting = <<>>

BufOf(f) == f % NBuf

(* The frame a buffer holds: the last one rendered into it, or none. *)
Holds(b) ==
  LET frames == {f \in 1..submitted : BufOf(f) = b}
  IN IF frames = {} THEN 0 ELSE CHOOSE f \in frames : \A g \in frames : g <= f

(* eglSwapBuffers: the GPU writes the next frame's buffer. *)
Render ==
  /\ MainBlocked
  /\ submitted < presents + 2
  /\ submitted < MaxPresents
  /\ submitted' = submitted + 1
  /\ UNCHANGED <<debugVars, idleVars, presents, s_idle_index, main,
                 s_dumping, s_idle_dumped, sincePresent>>

(* s_dumping not looked at. *)
SamplesAnyway(n) == n \in ThumbAt

(* Whether a present prints: not while an idle dump does. *)
Samples(n) == n \in ThumbAt /\ ~s_dumping

(* The mark of the idle dump left in place. *)
PresentNoted == sincePresent' = 0 /\ UNCHANGED s_idle_dumped

(* What every present notes for idle_watch. *)
FrameChanged == sincePresent' = 0 /\ s_idle_dumped' = FALSE

(* s_dumping not cleared. *)
DumpLeft == UNCHANGED s_dumping

(* The end of dump_thumbnail and of dump_crop. *)
DumpDone == s_dumping' = FALSE

(* qzephyr_gl_present: sample_frame up to its first dump. *)
Present ==
  /\ MainBlocked
  /\ presents < submitted
  /\ presents' = presents + 1
  /\ s_idle_index' = BufOf(presents + 1)
  /\ FrameChanged
  /\ IF Samples(presents + 1)
       THEN main' = "thumb" /\ s_dumping' = TRUE
       ELSE UNCHANGED <<main, s_dumping>>
  /\ UNCHANGED <<debugVars, idleVars, submitted>>

(* The end of dump_thumbnail or dump_crop, and of sample_frame after it.   *)
SampleEnds ==
  /\ main # "loop"
  /\ IF main = "thumb" /\ presents \in CropAt
       THEN main' = "crop" /\ s_dumping' = TRUE /\ UNCHANGED sincePresent
       ELSE main' = "loop" /\ DumpDone /\ sincePresent' = 0
  /\ UNCHANGED <<debugVars, idleVars, presents, submitted, s_idle_index, s_idle_dumped>>

(* idle_watch wakes and its test succeeds; a test that fails changes       *)
(* nothing.  `now` is the time of this step.                               *)
IdleTest ==
  /\ MainBlocked
  /\ idle = "sleep"
  /\ ~s_idle_dumped /\ s_idle_index >= 0 /\ ~s_dumping
  /\ sincePresent >= IdleAfter
  /\ sinceDump >= RedumpAfter
  /\ sinceDump' = 0
  /\ idle' = "set"
  /\ UNCHANGED <<debugVars, mainVars, row, index, picture, s_dumping, s_idle_dumped, sincePresent>>

IdleSet ==
  /\ MainBlocked
  /\ idle = "set"
  /\ s_idle_dumped' = TRUE
  /\ idle' = "call"
  /\ row' = 1
  /\ UNCHANGED <<debugVars, mainVars, sinceDump, index, picture, s_dumping, sincePresent>>

(* dump_thumbnail, then dump_crop, called with s_idle_index as it is now.  *)
IdleCall ==
  /\ MainBlocked
  /\ idle = "call"
  /\ index' = s_idle_index
  /\ s_dumping' = TRUE
  /\ idle' = "print"
  /\ UNCHANGED <<debugVars, mainVars, sinceDump, row, picture, s_idle_dumped, sincePresent>>

(* The crop run over its last row. *)
RowAfterNoEnd(r) == r + 1

RowAfter(r) == IF r = ThumbRows + CropRows THEN 0 ELSE r + 1

(* print_row, and after the last row of either dump its return.            *)
IdlePrint ==
  /\ MainBlocked
  /\ idle = "print"
  /\ picture' = [picture EXCEPT ![row] = Holds(index)]
  /\ row' = RowAfter(row)
  /\ IF row \in {ThumbRows, ThumbRows + CropRows}
       THEN DumpDone /\ idle' = (IF row = ThumbRows THEN "call" ELSE "sleep")
       ELSE UNCHANGED <<s_dumping, idle>>
  /\ UNCHANGED <<debugVars, mainVars, sinceDump, index, s_idle_dumped, sincePresent>>

Older(age, most) == IF age < most THEN age + 1 ELSE age

Tick ==
  /\ sincePresent' = Older(sincePresent, IdleAfter)
  /\ sinceDump' = Older(sinceDump, RedumpAfter)
  /\ UNCHANGED <<debugVars, mainVars, idle, row, index, picture, s_dumping, s_idle_dumped>>

(* The QPA calls qzephyr_gl_debug_set between frames. *)
DebugCall == main = "loop" /\ \E on \in BOOLEAN : DebugSet(on)

DebugStep ==
  /\ DebugCall \/ SetAttrib \/ SetTimer \/ Expired
  /\ UNCHANGED <<mainVars, idleVars, s_dumping, s_idle_dumped, sincePresent>>

IdleWatch == IdleTest \/ IdleSet \/ IdleCall \/ IdlePrint

Next == Render \/ Present \/ SampleEnds \/ IdleWatch \/ Tick \/ DebugStep

(* The main thread need not render, present or call debug_set again, but   *)
(* finishes what it began; the dumping thread runs while it is blocked.    *)
Spec ==
  /\ Init /\ [][Next]_vars
  /\ WF_vars(SampleEnds)
  /\ WF_vars((SetAttrib \/ SetTimer) /\ UNCHANGED <<mainVars, idleVars, s_dumping, s_idle_dumped, sincePresent>>)
  /\ WF_vars(IdleWatch)
  /\ WF_vars(Tick)

-----------------------------------------------------------------------------
(* print_row's static row buffer: "one dump at a time (s_dumping)".  The   *)
(* main thread does not start a dump between two rows of an idle dump, and *)
(* no idle dump starts between its rows.                                   *)
OneDumpAtATime == main # "loop" => idle # "print"

(* "The picture changed: the next idle dumps it again": between idle dumps *)
(* the decoded picture is the whole frame on screen, or idle_watch still   *)
(* has to dump, wherever in its dump the last present came.                *)
StaleIsRedumped ==
  idle = "sleep" /\ s_idle_dumped => \A r \in Rows : picture[r] = presents

(* "Every idle period dumps again": once the scene stops, the picture the  *)
(* host ends up with is its last frame, every row of it.                   *)
LastFrameIsDumped ==
  <>[](presents > 0 => \A r \in Rows : picture[r] = presents)

=============================================================================
