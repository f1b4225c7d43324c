----------------------------- MODULE VsyncCounter -----------------------------
(***************************************************************************)
(* The unsigned vsync counter of qzephyr_gl_vsync_count, and the signed    *)
(* difference all the glues compare it with.                               *)
(***************************************************************************)
EXTENDS Integers

CONSTANT Half   (* half the range of the counter: 2^31 in the code *)

ASSUME HalfAssumption == Half \in Nat \ {0}

Wrap  == 2 * Half
Count == 0 .. Wrap - 1

(* counter + 1 in unsigned arithmetic *)
CountSucc(c) == IF c = Wrap - 1 THEN 0 ELSE c + 1

(* A plain comparison of the two counters, the bug the cast avoids. *)
ReachedUnsigned(now, count) == now >= count

(* int(now - count) >= 0: the unsigned difference, read as signed. *)
Reached(now, count) ==
  IF now >= count THEN now - count < Half ELSE now - count + Wrap < Half

=============================================================================
