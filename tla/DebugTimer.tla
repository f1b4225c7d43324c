------------------------------ MODULE DebugTimer ------------------------------
(***************************************************************************)
(* The command-stream dump of CONFIG_QT_DEBUG_LOG: qzephyr_gl_debug_set,   *)
(* called by the QPA on the main thread, against the timer that ends the   *)
(* dump (debug_dump_expired), which interrupts it between any two calls.   *)
(* The QPA turns the dump on before its first frame and off after the      *)
(* second; here it calls in any order, on after on included.               *)
(***************************************************************************)
EXTENDS Naturals, Sequences

CONSTANT MaxCalls      (* bound: calls of qzephyr_gl_debug_set             *)

ASSUME CallAssumption == MaxCalls \in Nat

VARIABLES
  debugOpt,    (* PVR_BACKEND_OPT_DEBUG                                    *)
  attribDump,  (* gl_debug_set_attrib_dump's switch                        *)
  timer,       (* s_debug_timer is running                                 *)
  setting,     (* <<>>, or <<on, what debug_set does next>>                *)
  calls        (* calls so far                                             *)

debugVars == <<debugOpt, attribDump, timer, setting, calls>>

DebugTypeOK ==
  /\ {debugOpt, attribDump, timer} \subseteq BOOLEAN
  /\ setting \in {<<>>} \cup (BOOLEAN \X {"attrib", "timer"})
  /\ calls \in 0..MaxCalls

DebugInit ==
  /\ debugOpt = FALSE /\ attribDump = FALSE /\ timer = FALSE
  /\ setting = <<>>
  /\ calls = 0

DebugSet(on) ==
  /\ setting = <<>>
  /\ calls < MaxCalls
  /\ calls' = calls + 1
  /\ debugOpt' = on
  /\ setting' = <<on, "attrib">>
  /\ UNCHANGED <<attribDump, timer>>

SetAttrib ==
  /\ setting # <<>>
  /\ setting[2] = "attrib"
  /\ attribDump' = setting[1]
  /\ setting' = <<setting[1], "timer">>
  /\ UNCHANGED <<debugOpt, timer, calls>>

(* The timer left running from an earlier call. *)
TimerKept ==
  /\ setting # <<>>
  /\ setting[2] = "timer"
  /\ setting' = <<>>
  /\ UNCHANGED <<debugOpt, attribDump, timer, calls>>

(* k_timer_start, or k_timer_stop when the dump is turned off. *)
SetTimer ==
  /\ setting # <<>>
  /\ setting[2] = "timer"
  /\ timer' = setting[1]
  /\ setting' = <<>>
  /\ UNCHANGED <<debugOpt, attribDump, calls>>

(* debug_dump_expired, in the timer interrupt. *)
Expired ==
  /\ timer
  /\ timer' = FALSE
  /\ debugOpt' = FALSE
  /\ attribDump' = FALSE
  /\ UNCHANGED <<setting, calls>>

-----------------------------------------------------------------------------
(* "The dump also ends" some time after it started, "whatever the frame    *)
(* count": between calls no switch is on without the timer that will turn  *)
(* it off, also when an earlier dump expires while the next is turned on.  *)
DumpIsBounded == setting = <<>> /\ (debugOpt \/ attribDump) => timer

=============================================================================
