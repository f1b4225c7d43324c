---------------------------- MODULE PointerStream ----------------------------
(***************************************************************************)
(* What a window is owed by its touch input: events in which a left button *)
(* is pressed only when it is up and released only when it is down, and    *)
(* moves leave it as it is; each event says how it leaves the button.      *)
(***************************************************************************)
EXTENDS Naturals

VARIABLES down, last, n   (* the button and type of the n-th event *)

Init == down = FALSE /\ last = "none" /\ n = 0

Event(type, button) == down' = button /\ last' = type /\ n' = n + 1

Press   == ~down /\ Event("press", TRUE)
Release == down /\ Event("release", FALSE)
Move    == Event("move", down)

Spec == Init /\ [][Press \/ Release \/ Move]_<<down, last, n>>
=============================================================================
