--------------------------- MODULE ScanoutContract ---------------------------
(***************************************************************************)
(* What a scan-out display owes the two producers of qt6-for-zephyr (the   *)
(* GPU through the qzephyr QPA, and QPainter through the raster backing    *)
(* store): a panel that is always reading one buffer, at most one buffer   *)
(* queued for the next vertical sync, and producers that only ever write   *)
(* into a buffer that is neither.  The three display glues (DSS, i.MX8MP,  *)
(* Raspberry Pi 4) are each shown to implement it.                         *)
(***************************************************************************)
EXTENDS Integers

CONSTANTS
  Buf,     (* the scan-out buffers                                         *)
  NoBuf    (* "none": nothing scanned yet, nothing queued                  *)

VARIABLES
  scan,    (* the buffer the panel is reading                              *)
  queued,  (* the complete frame the panel turns to at its next sync       *)
  writing  (* the buffers a producer is writing into                       *)

vars == <<scan, queued, writing>>

TypeOK ==
  /\ scan \in Buf \cup {NoBuf}
  /\ queued \in Buf \cup {NoBuf}
  /\ writing \subseteq Buf

Init ==
  /\ scan \in Buf \cup {NoBuf}
  /\ queued = NoBuf
  /\ writing = {}

BeginWrite(b) ==
  /\ b \notin writing \cup {scan, queued}
  /\ writing' = writing \cup {b}
  /\ UNCHANGED <<scan, queued>>

EndWrite(b) ==
  /\ b \in writing
  /\ writing' = writing \ {b}
  /\ UNCHANGED <<scan, queued>>

(* A flip names a complete frame; it replaces one not yet latched.         *)
Flip(b) ==
  /\ b \notin writing
  /\ queued' = b
  /\ UNCHANGED <<scan, writing>>

Sync ==
  /\ queued # NoBuf
  /\ scan' = queued
  /\ queued' = NoBuf
  /\ UNCHANGED writing

(* A cold panel comes up on a complete frame. *)
PowerUp(b) ==
  /\ scan = NoBuf
  /\ b \notin writing
  /\ scan' = b
  /\ UNCHANGED <<queued, writing>>

Next ==
  \/ \E b \in Buf : BeginWrite(b) \/ EndWrite(b) \/ Flip(b) \/ PowerUp(b)
  \/ Sync

Spec == Init /\ [][Next]_vars

(* The promise: nobody writes what the panel reads or is about to read.    *)
NoTear == {scan, queued} \cap writing = {}

=============================================================================
