---------------------------- MODULE ScanoutBuffers ----------------------------
(***************************************************************************)
(* The scan-out buffers all three display glues of zephyr-module/src own.  *)
(***************************************************************************)
EXTENDS VsyncCounter

CONSTANT NBuf   (* CONFIG_QT_SCANOUT_BUFFERS, 1 to 3 *)

ASSUME NBufAssumption == NBuf \in Nat \ {0}

Buf   == 0 .. NBuf - 1
NoBuf == -1

(* The remainder forgotten. *)
NextBufUnwrapped(b) == b + 1

(* (b + 1) % FB_COUNT *)
NextBuf(b) == IF b = NBuf - 1 THEN 0 ELSE b + 1

=============================================================================
