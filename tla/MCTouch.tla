------------------------------- MODULE MCTouch -------------------------------
(* An instance of Touch: two points of a panel that is 3 wide and 3 high,  *)
(* which are points of its screen too, whether the board rotates or not.   *)
EXTENDS Touch

TwoPoints == {<<0, 1>>, <<2, 2>>}
=============================================================================
