-------------------------------- MODULE Touch --------------------------------
(***************************************************************************)
(* Touch input: the touch controller's driver and, with                    *)
(* CONFIG_QT_DEBUG_LOG, tap_thread report events on one device into        *)
(* Zephyr's input queue; the input thread runs process_event on each and   *)
(* posts mouse events; the main thread drains them                         *)
(* (qzephyr_drain_qpa_events).                                             *)
(*                                                                         *)
(* A report of the driver is X, Y and BTN_TOUCH = 1 with sync, after the   *)
(* slot of a multi-touch driver (a code process_event does not know), or   *)
(* BTN_TOUCH = 0 alone when the finger lifts.  `at`, in an event, is not   *)
(* data of the program: the point its reporter means.  A finger is at a    *)
(* point of the panel; a tap is asked for at a point of the screen, and    *)
(* its coordinates are reported as they stand in QZEPHYR_TAPS.             *)
(***************************************************************************)
EXTENDS Integers, Sequences, FiniteSets

CONSTANTS
  PanelMaxX,     (* kPanelMaxX: 719                                        *)
  Points,        (* points touched, of the panel or of the screen          *)
  QueueLen,      (* slots of the input queue                               *)
  MaxReports,    (* bound: reports of the finger                           *)
  MaxTaps        (* entries of QZEPHYR_TAPS                                *)

ASSUME PointAssumption == PanelMaxX \in Int /\ Points \subseteq Int \X Int

ASSUME BoundAssumption == QueueLen \in Nat /\ MaxReports \in Nat /\ MaxTaps \in Nat

VARIABLES
  rotated,       (* a board whose image is rotated (not the AM62P)         *)
  active,        (* who reports: "finger", "tap" or both                   *)
  script,        (* reporter -> the events of its report still to be put   *)
  finger,        (* <<>>, or where the finger is                           *)
  fingered,      (* reports of the finger so far                           *)
  tap,           (* <<>>, or the point tap_thread holds pressed            *)
  tapped,        (* taps so far                                            *)
  queue,         (* Zephyr's input queue                                   *)
  g_state,       (* x, y, pressed, sent_press and, for the properties, at  *)
  posted,        (* the QPA event queue                                    *)
  window,        (* the application has its window and runs its event loop *)
  seen,          (* type and button of the last event the window got       *)
  reports, delivered

reporterVars == <<script, finger, fingered, tap, tapped>>
uiVars == <<window, seen, delivered>>
vars == <<rotated, active, reporterVars, queue, g_state, posted, uiVars, reports>>

Reporters == {"finger", "tap"}

Abs(code, v, p) == [code |-> code, value |-> v, sync |-> FALSE, at |-> p]
Btn(v, p) == [code |-> "touch", value |-> v, sync |-> TRUE, at |-> p]

(* input_report_abs twice and input_report_key. *)
TapReport(p, v) == <<Abs("x", p[1], p), Abs("y", p[2], p), Btn(v, p)>>

TouchReport(p) == <<Abs("slot", 0, p)>> \o TapReport(p, 1)
LiftReport(p)  == <<Btn(0, p)>>

Codes  == {"slot", "x", "y", "touch"}
Coords == (UNION {{p[1], p[2]} : p \in Points}) \cup {0, 1}
Events == [code : Codes, value : Coords, sync : BOOLEAN, at : Points]

TypeOK ==
  /\ rotated \in BOOLEAN /\ active \subseteq Reporters
  /\ script \in [Reporters -> Seq(Events)]
  /\ finger \in Points \cup {<<>>} /\ fingered \in 0..MaxReports
  /\ tap \in Points \cup {<<>>} /\ tapped \in 0..MaxTaps
  /\ queue \in Seq(Events) /\ Len(queue) <= QueueLen
  /\ g_state \in [x : Coords, y : Coords, pressed : BOOLEAN, sent_press : BOOLEAN]
  /\ window \in BOOLEAN
  /\ seen \in [type : {"none", "press", "release", "move"}, button : BOOLEAN]
  /\ Len(posted) + delivered + Cardinality({k \in DOMAIN queue : queue[k].sync}) = reports

Init ==
  /\ rotated \in BOOLEAN
  /\ active \in (SUBSET Reporters) \ {{}}
  /\ script = [r \in Reporters |-> <<>>]
  /\ finger = <<>> /\ fingered = 0
  /\ tap = <<>> /\ tapped = 0
  /\ queue = <<>>
  /\ g_state = [x |-> 0, y |-> 0, pressed |-> FALSE, sent_press |-> FALSE]
  /\ posted = <<>>
  /\ window = FALSE /\ seen = [type |-> "none", button |-> FALSE]
  /\ reports = 0 /\ delivered = 0

(* The controller sees a finger at p, put down or moved. *)
FingerAt(p) ==
  /\ "finger" \in active /\ script["finger"] = <<>>
  /\ fingered < MaxReports
  /\ fingered' = fingered + 1
  /\ finger' = p
  /\ script' = [script EXCEPT !["finger"] = TouchReport(p)]
  /\ UNCHANGED <<tap, tapped>>

FingerLifts ==
  /\ script["finger"] = <<>>
  /\ finger # <<>>
  /\ finger' = <<>>
  /\ script' = [script EXCEPT !["finger"] = LiftReport(finger)]
  /\ UNCHANGED <<fingered, tap, tapped>>

(* tap_thread: the press, and 120 ms later the release. *)
TapPress(p) ==
  /\ "tap" \in active /\ script["tap"] = <<>>
  /\ tap = <<>> /\ tapped < MaxTaps
  /\ tap' = p
  /\ tapped' = tapped + 1
  /\ script' = [script EXCEPT !["tap"] = TapReport(p, 1)]
  /\ UNCHANGED <<finger, fingered>>

TapRelease ==
  /\ script["tap"] = <<>>
  /\ tap # <<>>
  /\ tap' = <<>>
  /\ script' = [script EXCEPT !["tap"] = TapReport(tap, 0)]
  /\ UNCHANGED <<tapped, finger, fingered>>

Reporter ==
  /\ \/ \E p \in Points : FingerAt(p) \/ TapPress(p)
     \/ FingerLifts
     \/ TapRelease
  /\ UNCHANGED <<rotated, active, queue, g_state, posted, uiVars, reports>>

(* input_report with K_NO_WAIT: the event is lost when the queue is full.  *)
PutNoWait(r) ==
  /\ script[r] # <<>>
  /\ queue' = IF Len(queue) < QueueLen THEN Append(queue, Head(script[r])) ELSE queue
  /\ script' = [script EXCEPT ![r] = Tail(@)]
  /\ reports' = reports + (IF Head(script[r]).sync THEN 1 ELSE 0)
  /\ UNCHANGED <<rotated, active, finger, fingered, tap, tapped, g_state, posted, uiVars>>

(* input_report with K_FOREVER: waits for a slot of the queue. *)
Put(r) ==
  /\ script[r] # <<>>
  /\ Len(queue) < QueueLen
  /\ queue' = Append(queue, Head(script[r]))
  /\ script' = [script EXCEPT ![r] = Tail(@)]
  /\ reports' = reports + (IF Head(script[r]).sync THEN 1 ELSE 0)
  /\ UNCHANGED <<rotated, active, finger, fingered, tap, tapped, g_state, posted, uiVars>>

-----------------------------------------------------------------------------
(* Every report taken for news of the button. *)
EventTypeByState(pressed, was) == IF pressed THEN "press" ELSE "release"

EventType(pressed, was) ==
  CASE pressed /\ ~was -> "press"
    [] ~pressed /\ was -> "release"
    [] OTHER           -> "move"

(* The rotation the wrong way round. *)
Clockwise(x, y) == IF rotated THEN <<PanelMaxX - y, x>> ELSE <<x, y>>

(* The inverse of the image's rotation, on boards that rotate it. *)
Position(x, y) == IF rotated THEN <<y, PanelMaxX - x>> ELSE <<x, y>>

(* What an event makes of g_state, before sent_press. *)
Accumulate(e) ==
  CASE e.code = "x"     -> [g_state EXCEPT !.x = e.value]
    [] e.code = "y"     -> [g_state EXCEPT !.y = e.value]
    [] e.code = "touch" -> [g_state EXCEPT !.pressed = (e.value # 0)]
    [] OTHER            -> g_state

(* Taken for dispatched before it is complete. *)
DispatchesAll(e) == e.code # "slot"

(* An unknown code returns before its sync is looked at. *)
Dispatches(e) == e.code # "slot" /\ e.sync

(* process_event, on the input thread.  The target is the application's    *)
(* window, or none before there is one: both are drained to it.            *)
ProcessEvent ==
  /\ queue # <<>>
  /\ queue' = Tail(queue)
  /\ LET e == Head(queue)
         g == Accumulate(e)
     IN IF Dispatches(e)
          THEN /\ posted' = Append(posted,
                    [type |-> EventType(g.pressed, g.sent_press),
                     pos |-> Position(g.x, g.y), button |-> g.pressed, at |-> e.at])
               /\ g_state' = [g EXCEPT !.sent_press = g.pressed]
          ELSE UNCHANGED posted /\ g_state' = g
  /\ UNCHANGED <<rotated, active, reporterVars, uiVars, reports>>

(* The application creates its window, then runs its event loop. *)
WindowReady ==
  /\ ~window
  /\ window' = TRUE
  /\ UNCHANGED <<rotated, active, reporterVars, queue, g_state, posted, seen, delivered, reports>>

(* qzephyr_drain_qpa_events: everything posted, in order.  One event to a  *)
(* step: the input thread may post while it drains.                        *)
Drain ==
  /\ window
  /\ posted # <<>>
  /\ posted' = Tail(posted)
  /\ seen' = [type |-> Head(posted).type, button |-> Head(posted).button]
  /\ delivered' = delivered + 1
  /\ UNCHANGED <<rotated, active, reporterVars, queue, g_state, window, reports>>

Next ==
  \/ Reporter
  \/ \E r \in Reporters : Put(r)
  \/ ProcessEvent
  \/ WindowReady
  \/ Drain

(* A finger need not move or lift; threads run when they can. *)
Spec ==
  /\ Init /\ [][Next]_vars
  /\ \A r \in Reporters : WF_vars(Put(r))
  /\ WF_vars(ProcessEvent) /\ WF_vars(WindowReady) /\ WF_vars(Drain)
  /\ WF_vars(TapRelease /\ UNCHANGED <<rotated, active, queue, g_state, posted, uiVars, reports>>)

-----------------------------------------------------------------------------
(* Presses and releases reach the window strictly in turn and agree with   *)
(* the button each event carries, whoever reports and however the events  *)
(* of two reports interleave in the queue.                                 *)
Pointer == INSTANCE PointerStream WITH down <- seen.button, last <- seen.type, n <- delivered
DeliversPointerStream == Pointer!Spec

(* Where the image rotated by 90 degrees shows a point of the screen.      *)
PanelPointOf(p) == IF rotated THEN <<PanelMaxX - p[2], p[1]>> ELSE p

(* "The QMouseEvent lands at the position the user sees", the release of a *)
(* finger that lifted included: with only the finger at work, on any       *)
(* board, or only taps, on a board that does not rotate (panel and screen  *)
(* are one there), every event posted has both coordinates of the point    *)
(* that was meant.  (On the others the code turns the screen point of a    *)
(* tap as if it were a panel point: nothing is claimed of them.)           *)
HitsWhatIsSeen ==
  active = {"finger"} \/ (active = {"tap"} /\ ~rotated) =>
    \A i \in DOMAIN posted : PanelPointOf(posted[i].pos) = posted[i].at

(* Every report becomes one event and reaches the window, also through a   *)
(* full queue and before there is a window, and the window is left with    *)
(* the button as it was last reported.                                     *)
ReportsAreDelivered ==
  <>[](/\ delivered = reports
       /\ \A r \in Reporters : script[r] = <<>>
       /\ seen.button = g_state.pressed)

=============================================================================
