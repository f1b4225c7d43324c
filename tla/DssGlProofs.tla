----------------------------- MODULE DssGlProofs -----------------------------
(***************************************************************************)
(* Proofs about DssGl: with a driver that does not fail and a display that *)
(* keeps syncing, for every number of buffers from three up, every counter *)
(* width and every length of the wait's guard.                             *)
(***************************************************************************)
EXTENDS DssGl, TLAPS

(* Where the ring's roles stand: what is shown, pending and recorded are   *)
(* consecutive buffers.                                                    *)
Ring ==
  /\ pending # NoBuf => NextBuf(pending) = cur
  /\ qshown # NoBuf => NextBuf(qshown) = IF pending = NoBuf THEN cur ELSE pending

(* The render thread's place. *)
Place ==
  /\ pc \in {"wait", "submit", "complete"} => swapping
  /\ pc = "record" => ~swapping
  /\ pc \in {"complete", "present"} => pending # NoBuf
  /\ call # "idle" => pc = "present" /\ target = pending
  /\ call # "failed"
  /\ ~stalled
  /\ pc # "wait" => polls = 0

(* What the GPU may be writing. *)
Writes ==
  /\ rendering \subseteq {pending, cur}
  /\ cur \in rendering => swapping /\ pc \in {"complete", "present"}
  /\ pc = "present" => pending \notin rendering

(* show() has told the display about pending. *)
Told == call \in {"plane", "ok"}

(* The display's registers follow the QPA's bookkeeping. *)
Registers ==
  /\ shOn = s_plane_on
  /\ s_plane_on => out
  /\ shBuf = IF Told THEN pending ELSE qshown
  /\ qshown # NoBuf \/ call = "ok" => shOn
  /\ call \in {"output", "plane"} => ~s_plane_on
  /\ call \in {"buffer", "plane"} => out
  /\ IF shOn THEN shBuf # NoBuf /\ (go \/ scan = shBuf) ELSE scan = NoBuf

(* A buffer the panel still reads although it was flipped away will be     *)
(* left at the next sync, and its stamp says so.                           *)
Leaving ==
  scan \notin {NoBuf, qshown, shBuf} => go /\ stamp[scan] = CountSucc(vsyncs)

(* Where the panel is not. *)
Elsewhere ==
  /\ pc \in {"submit", "complete", "present"} /\ swapping => scan # cur
  /\ pending # NoBuf /\ ~Told => scan # pending
  /\ pc = "wait" /\ scan = cur => polls <= sincePolls

IndInv ==
  TypeOK /\ Ring /\ Place /\ Writes /\ Registers /\ Leaving /\ Elsewhere

-----------------------------------------------------------------------------
(* Lemmas about the ring and the counter *)

(* Three consecutive buffers are different when there are at least three.  *)
LEMMA NextBufFacts ==
  ASSUME NEW b \in Buf
  PROVE  /\ NextBuf(b) \in Buf
         /\ NextBuf(b) # b
         /\ NextBuf(NextBuf(b)) # b
BY NBufAssumption, RingAssumption DEF Buf, NextBuf

(* The next count has not been reached, also where the counter wraps.      *)
LEMMA CountFacts ==
  ASSUME NEW c \in Count
  PROVE  /\ CountSucc(c) \in Count
         /\ ~Reached(c, CountSucc(c))
BY HalfAssumption DEF Count, CountSucc, Reached, Wrap

(* "None" is not a buffer.                                               *)
LEMMA NoBufFact == NoBuf \notin Buf
BY DEF NoBuf, Buf

-----------------------------------------------------------------------------
(* The invariant is inductive *)

(* The start of the swap chain satisfies the invariant.                    *)
LEMMA InitInv == Init => IndInv
<1> SUFFICES ASSUME Init PROVE IndInv
  OBVIOUS
<1>1. 0 \in Buf /\ 0 \in Count
  BY NBufAssumption, HalfAssumption DEF Buf, Count, Wrap
<1>2. GlueTypeOK
  BY <1>1 DEF Init, GlueInit, GlueTypeOK, Call
<1>3. SwapTypeOK
  BY <1>1 DEF Init, SwapInit, SwapTypeOK, PC
<1>4. polls = 0 /\ sincePolls = 0 /\ stalled \in BOOLEAN
  BY DEF Init
<1>5. polls \in 0 .. GuardPolls /\ sincePolls \in 0 .. PollsPerSync
  BY <1>4, PollsAssumption
<1>6. Ring /\ Place /\ Writes /\ Registers /\ Leaving /\ Elsewhere
  BY DEF Init, GlueInit, SwapInit, Ring, Place, Writes, Registers, Told, Leaving,
     Elsewhere
<1> QED
  BY <1>2, <1>3, <1>4, <1>5, <1>6 DEF IndInv, TypeOK

(* Every step of a healthy system keeps it: one case per action, and under *)
(* it one step per part of the invariant that the action disturbs.         *)
LEMMA StepInv == IndInv /\ [HealthyNext]_vars => IndInv'
<1> SUFFICES ASSUME IndInv, [HealthyNext]_vars PROVE IndInv'
  OBVIOUS
<1>1. CASE Swap
  <2>1. TypeOK'
    BY <1>1, PollsAssumption
       DEF Swap, SwapBegin, IndInv, TypeOK, GlueTypeOK, SwapTypeOK, PC, glueVars,
           dispVars
  <2>2. Place'
    BY <1>1 DEF Swap, SwapBegin, IndInv, Place, glueVars
  <2>3. Elsewhere'
    BY <1>1, PollsAssumption DEF Swap, SwapBegin, IndInv, TypeOK, Place, Elsewhere, Told, glueVars, dispVars
  <2>4. Ring' /\ Writes' /\ Registers' /\ Leaving'
    BY <1>1
       DEF Swap, SwapBegin, IndInv, Ring, Writes, Registers, Leaving, Told,
           glueVars, dispVars
  <2> QED BY <2>1, <2>2, <2>3, <2>4 DEF IndInv
<1>2. CASE IdlePresent
  <2>1. TypeOK'
    BY <1>2
       DEF IdlePresent, FenceSignalled, IndInv, TypeOK, glueVars, dispVars,
           GlueTypeOK, SwapTypeOK, PC
  <2>2. Place'
    BY <1>2 DEF IdlePresent, FenceSignalled, IndInv, Place, glueVars
  <2>3. Writes'
    BY <1>2 DEF IdlePresent, FenceSignalled, IndInv, Writes
  <2>4. Elsewhere'
    BY <1>2 DEF IdlePresent, FenceSignalled, IndInv, Place, Elsewhere, Told, dispVars
  <2>5. Ring' /\ Registers' /\ Leaving'
    BY <1>2
       DEF IdlePresent, FenceSignalled, IndInv, Ring, Registers, Leaving, Told,
           glueVars, dispVars
  <2> QED BY <2>1, <2>2, <2>3, <2>4, <2>5 DEF IndInv
<1>3. CASE WaitReached
  <2>1. TypeOK'
    BY <1>3, PollsAssumption
       DEF WaitReached, WaitEnds, WaitReturned, IndInv, TypeOK, glueVars, dispVars,
           GlueTypeOK, SwapTypeOK, PC
  <2>2. Place'
    BY <1>3 DEF WaitReached, WaitEnds, WaitReturned, IndInv, Place, glueVars
  <2>3. Writes'
    BY <1>3 DEF WaitReached, WaitEnds, WaitReturned, IndInv, Writes
  <2>4. Elsewhere'
    BY <1>3, NextBufFacts, CountFacts, NoBufFact
       DEF WaitReached, WaitEnds, WaitReturned, IndInv, TypeOK, Ring, Registers, Leaving,
           Elsewhere, GlueTypeOK, SwapTypeOK, Told, glueVars, dispVars
  <2>5. Ring' /\ Registers' /\ Leaving'
    BY <1>3
       DEF WaitReached, WaitEnds, WaitReturned, IndInv, Ring, Registers, Leaving, Told,
           glueVars, dispVars
  <2> QED BY <2>1, <2>2, <2>3, <2>4, <2>5 DEF IndInv
<1>4. CASE Poll
  <2>1. TypeOK'
    <3>1. GlueTypeOK'
      BY <1>4, CountFacts DEF Poll, IndInv, TypeOK, GlueTypeOK, glueVars, dispVars
    <3>2. SwapTypeOK'
      BY <1>4 DEF Poll, IndInv, TypeOK, SwapTypeOK, swapVars
    <3>3. /\ polls' \in 0 .. GuardPolls
          /\ sincePolls' \in 0 .. PollsPerSync
          /\ stalled' \in BOOLEAN
      BY <1>4, PollsAssumption DEF Poll, IndInv, TypeOK
    <3> QED BY <3>1, <3>2, <3>3 DEF TypeOK
  <2>2. Elsewhere'
    BY <1>4, NoBufFact
       DEF Poll, IndInv, TypeOK, Place, Registers, Elsewhere, SwapTypeOK, Told,
           swapVars, dispVars
  <2>3. Ring' /\ Place' /\ Writes' /\ Registers' /\ Leaving'
    BY <1>4
       DEF Poll, IndInv, Ring, Place, Writes, Registers, Leaving, Told, swapVars,
           glueVars, dispVars
  <2> QED BY <2>1, <2>2, <2>3 DEF IndInv
<1>5. CASE GiveUp
  <2>1. TypeOK'
    BY <1>5, PollsAssumption
       DEF GiveUp, WaitEnds, WaitReturned, IndInv, TypeOK, glueVars, dispVars, GlueTypeOK,
           SwapTypeOK, PC
  <2>2. Place'
    BY <1>5 DEF GiveUp, WaitEnds, WaitReturned, IndInv, Place, glueVars
  <2>3. Writes'
    BY <1>5 DEF GiveUp, WaitEnds, WaitReturned, IndInv, Writes
  <2>4. Elsewhere'
    BY <1>5, PollsAssumption
       DEF GiveUp, WaitEnds, WaitReturned, IndInv, TypeOK, Elsewhere, Told, glueVars, dispVars
  <2>5. Ring' /\ Registers' /\ Leaving'
    BY <1>5
       DEF GiveUp, WaitEnds, WaitReturned, IndInv, Ring, Registers, Leaving, Told, glueVars,
           dispVars
  <2> QED BY <2>1, <2>2, <2>3, <2>4, <2>5 DEF IndInv
<1>6. CASE SwapSubmit
  <2>1. TypeOK'
    <3>1. GlueTypeOK'
      BY <1>6 DEF SwapSubmit, IndInv, TypeOK, GlueTypeOK, glueVars, dispVars
    <3>2. SwapTypeOK'
      BY <1>6, NextBufFacts
         DEF SwapSubmit, Submit, Rotate, IndInv, TypeOK, Place, SwapTypeOK, PC
    <3>3. polls' \in 0 .. GuardPolls /\ sincePolls' \in 0 .. PollsPerSync /\ stalled' \in BOOLEAN
      BY <1>6 DEF SwapSubmit, IndInv, TypeOK
    <3> QED BY <3>1, <3>2, <3>3 DEF TypeOK
  <2>2. Ring'
    BY <1>6, NoBufFact DEF SwapSubmit, Submit, Rotate, IndInv, TypeOK, Ring, SwapTypeOK
  <2>3. Place'
    BY <1>6 DEF SwapSubmit, Submit, IndInv, Place, glueVars
  <2>4. Writes'
    BY <1>6, NextBufFacts, NoBufFact
       DEF SwapSubmit, Submit, Rotate, IndInv, TypeOK, Place, Writes, SwapTypeOK
  <2>5. Registers'
    BY <1>6 DEF SwapSubmit, Submit, IndInv, Place, Registers, Told, glueVars, dispVars
  <2>6. Leaving'
    BY <1>6 DEF SwapSubmit, Submit, IndInv, Leaving, dispVars
  <2>7. Elsewhere'
    BY <1>6 DEF SwapSubmit, Submit, Rotate, IndInv, Place, Elsewhere, Told, dispVars
  <2> QED BY <2>1, <2>2, <2>3, <2>4, <2>5, <2>6, <2>7 DEF IndInv
<1>7. CASE SwapComplete
  <2>1. TypeOK'
    BY <1>7
       DEF SwapComplete, Completed, IndInv, TypeOK, glueVars, dispVars, GlueTypeOK,
           SwapTypeOK, PC
  <2>2. Place'
    BY <1>7 DEF SwapComplete, Completed, IndInv, Place, glueVars
  <2>3. Writes'
    BY <1>7 DEF SwapComplete, Completed, IndInv, Writes
  <2>4. Elsewhere'
    BY <1>7 DEF SwapComplete, Completed, IndInv, Elsewhere, Told, glueVars, dispVars
  <2>5. Ring' /\ Registers' /\ Leaving'
    BY <1>7
       DEF SwapComplete, Completed, IndInv, Ring, Registers, Leaving, Told,
           glueVars, dispVars
  <2> QED BY <2>1, <2>2, <2>3, <2>4, <2>5 DEF IndInv
<1>8. CASE Present
  <2>1. TypeOK'
    BY <1>8
       DEF Present, ShowBegin, CallAfter, IndInv, TypeOK, Place, GlueTypeOK,
           SwapTypeOK, Call, swapVars, dispVars
  <2>2. Place'
    BY <1>8 DEF Present, ShowBegin, CallAfter, IndInv, Place, swapVars
  <2>3. Registers'
    BY <1>8
       DEF Present, ShowBegin, CallAfter, IndInv, Registers, Told, swapVars,
           dispVars
  <2>4. Leaving'
    BY <1>8 DEF Present, ShowBegin, IndInv, Leaving, swapVars, dispVars
  <2>5. Elsewhere'
    BY <1>8 DEF Present, ShowBegin, IndInv, Elsewhere, Told, swapVars, dispVars
  <2>6. Ring' /\ Writes'
    BY <1>8 DEF Present, IndInv, Ring, Writes, swapVars
  <2> QED BY <2>1, <2>2, <2>3, <2>4, <2>5, <2>6 DEF IndInv
<1>9. CASE ShowStep
  <2>1. TypeOK'
    <3>1. GlueTypeOK'
      BY <1>9
         DEF ShowStep, OutputEnable, SetAppBuffer, EnableAppPlane, CallAfter, IndInv,
             TypeOK, Place, GlueTypeOK, Call
    <3>2. SwapTypeOK'
      BY <1>9 DEF ShowStep, IndInv, TypeOK, SwapTypeOK, swapVars
    <3>3. polls' \in 0 .. GuardPolls /\ sincePolls' \in 0 .. PollsPerSync /\ stalled' \in BOOLEAN
      BY <1>9 DEF ShowStep, IndInv, TypeOK
    <3> QED BY <3>1, <3>2, <3>3 DEF TypeOK
  <2>2. Place'
    BY <1>9
       DEF ShowStep, OutputEnable, SetAppBuffer, EnableAppPlane, CallAfter, IndInv,
           Place, swapVars
  <2>3. Registers'
    <3>1. CASE OutputEnable
      BY <1>9, <3>1, NoBufFact
         DEF ShowStep, OutputEnable, CallAfter, Registers, Told, IndInv, Place,
             swapVars
    <3>2. CASE SetAppBuffer
      BY <1>9, <3>2, NoBufFact
         DEF ShowStep, SetAppBuffer, CallAfter, Registers, Told, IndInv, Place,
             swapVars
    <3>3. CASE EnableAppPlane
      BY <1>9, <3>3, NoBufFact
         DEF ShowStep, EnableAppPlane, CallAfter, Registers, Told, IndInv, Place,
             swapVars
    <3> QED BY <1>9, <3>1, <3>2, <3>3 DEF ShowStep
  <2>4. Leaving'
    BY <1>9
       DEF ShowStep, OutputEnable, SetAppBuffer, EnableAppPlane, IndInv, Registers,
           Leaving, Told, swapVars
  <2>5. Elsewhere'
    BY <1>9
       DEF ShowStep, OutputEnable, SetAppBuffer, EnableAppPlane, CallAfter, IndInv,
           Elsewhere, Told, swapVars
  <2>6. Ring' /\ Writes'
    BY <1>9 DEF ShowStep, IndInv, Ring, Writes, swapVars
  <2> QED BY <2>1, <2>2, <2>3, <2>4, <2>5, <2>6 DEF IndInv
<1>10. CASE Presented
  <2>1. TypeOK'
    <3>1. GlueTypeOK'
      BY <1>10
         DEF Presented, ShowReturned, IndInv, TypeOK, GlueTypeOK, Call, dispVars
    <3>2. SwapTypeOK'
      BY <1>10, NextBufFacts, CountFacts
         DEF Presented, Released, Rotate, IndInv, TypeOK, GlueTypeOK, SwapTypeOK, PC
    <3>3. polls' \in 0 .. GuardPolls /\ sincePolls' \in 0 .. PollsPerSync /\ stalled' \in BOOLEAN
      BY <1>10 DEF Presented, IndInv, TypeOK
    <3> QED BY <3>1, <3>2, <3>3 DEF TypeOK
  <2>2. Ring'
    BY <1>10, NoBufFact
       DEF Presented, Released, Rotate, IndInv, TypeOK, Ring, SwapTypeOK
  <2>3. Place'
    BY <1>10 DEF Presented, ShowReturned, Released, IndInv, Place
  <2>4. Writes'
    BY <1>10, NextBufFacts
       DEF Presented, Released, Rotate, IndInv, TypeOK, Writes, SwapTypeOK
  <2>5. Registers'
    BY <1>10
       DEF Presented, ShowReturned, Released, IndInv, Place, Registers, Told,
           dispVars
  <2>6. Leaving'
    BY <1>10
       DEF Presented, ShowReturned, Released, IndInv, TypeOK, Registers, Leaving,
           GlueTypeOK, dispVars
  <2>7. Elsewhere'
    BY <1>10 DEF Presented, ShowReturned, Released, Rotate, IndInv, Elsewhere, dispVars
  <2> QED BY <2>1, <2>2, <2>3, <2>4, <2>5, <2>6, <2>7 DEF IndInv
<1>11. CASE Gpu
  <2>1. TypeOK'
    BY <1>11
       DEF Gpu, GpuDone, IndInv, TypeOK, glueVars, dispVars, GlueTypeOK, SwapTypeOK
  <2>2. Writes'
    BY <1>11 DEF Gpu, GpuDone, IndInv, Writes
  <2>3. Ring' /\ Place' /\ Registers' /\ Leaving' /\ Elsewhere'
    BY <1>11
       DEF Gpu, GpuDone, IndInv, Ring, Place, Registers, Leaving, Elsewhere, Told,
           glueVars, dispVars
  <2> QED BY <2>1, <2>2, <2>3 DEF IndInv
<1>12. CASE Sync
  <2>1. TypeOK'
    <3>1. GlueTypeOK'
      BY <1>12, CountFacts
         DEF Sync, Vsync, IndInv, TypeOK, GlueTypeOK, glueVars, dispVars
    <3>2. SwapTypeOK'
      BY <1>12 DEF Sync, Vsync, IndInv, TypeOK, SwapTypeOK, swapVars
    <3>3. /\ polls' \in 0 .. GuardPolls
          /\ sincePolls' \in 0 .. PollsPerSync
          /\ stalled' \in BOOLEAN
      BY <1>12, PollsAssumption DEF Sync, Vsync, IndInv, TypeOK
    <3> QED BY <3>1, <3>2, <3>3 DEF TypeOK
  <2>2. Registers'
    BY <1>12 DEF Sync, Vsync, IndInv, Registers, Told, swapVars, glueVars
  <2>3. Leaving'
    BY <1>12 DEF Sync, Vsync, IndInv, Leaving, swapVars
  <2>4. Elsewhere'
    BY <1>12, NextBufFacts, NoBufFact
       DEF Sync, Vsync, IndInv, TypeOK, Ring, Registers, Elsewhere, SwapTypeOK,
           Told, swapVars, glueVars
  <2>5. Ring' /\ Place' /\ Writes'
    BY <1>12 DEF Sync, Vsync, IndInv, Ring, Place, Writes, swapVars, glueVars
  <2> QED BY <2>1, <2>2, <2>3, <2>4, <2>5 DEF IndInv
<1>13. CASE UNCHANGED vars
  BY <1>13
     DEF IndInv, TypeOK, GlueTypeOK, SwapTypeOK, Ring, Place, Writes, Registers, Told,
       Leaving, Elsewhere, vars, glueVars, dispVars, swapVars
<1> QED
  BY <1>1, <1>2, <1>3, <1>4, <1>5, <1>6, <1>7, <1>8, <1>9, <1>10, <1>11, <1>12, <1>13
     DEF HealthyNext, Render

(* IndInv holds in every reachable state of the healthy system.            *)
THEOREM Invariance == HealthySpec => []IndInv
BY InitInv, StepInv, PTL DEF HealthySpec

-----------------------------------------------------------------------------
(* Type correctness: every variable of the glue, of the display and of the *)
(* swap chain stays in its range; the guard never counts past its bound.   *)
THEOREM TypeCorrect == HealthySpec => []TypeOK
<1>1. IndInv => TypeOK
  BY DEF IndInv
<1> QED
  BY <1>1, Invariance, PTL

(* The GPU never writes the buffer the panel reads or turns to next.       *)
THEOREM NoTearing == HealthySpec => []NoTear
<1>1. IndInv => NoTear
  BY NextBufFacts, NoBufFact
     DEF NoTear, Queued, IndInv, TypeOK, Ring, Place, Writes, Registers, Elsewhere,
         SwapTypeOK, Told
<1> QED
  BY <1>1, Invariance, PTL

(* The initial states are initial states of the contract.                  *)
LEMMA InitContract == Init => Contract!Init
BY NoBufFact DEF Init, GlueInit, SwapInit, Contract!Init, Queued

(* Each step is a step of the contract or leaves its variables alone:      *)
(* SwapSubmit begins a write, Gpu ends one, the driver call that commits   *)
(* with the plane on is the flip, and a sync that latches is its Sync.     *)
LEMMA StepContract ==
  ASSUME IndInv, IndInv', [HealthyNext]_vars
  PROVE  [Contract!Next]_(Contract!vars)
<1>1. CASE Swap
  BY <1>1 DEF Swap, SwapBegin, Contract!vars, Queued, swapVars, glueVars, dispVars
<1>2. CASE IdlePresent
  BY <1>2
     DEF IdlePresent, FenceSignalled, Contract!vars, Queued, swapVars, glueVars,
         dispVars
<1>3. CASE WaitReached
  BY <1>3
     DEF WaitReached, WaitEnds, WaitReturned, Contract!vars, Queued, swapVars, glueVars,
         dispVars
<1>4. CASE Poll
  BY <1>4 DEF Poll, Contract!vars, Queued, swapVars, glueVars, dispVars
<1>5. CASE GiveUp
  BY <1>5 DEF GiveUp, WaitEnds, WaitReturned, Contract!vars, Queued, swapVars, glueVars, dispVars
<1>6. CASE SwapSubmit
  <2>1. cur \in Buf /\ Contract!BeginWrite(cur)
    BY <1>6, NextBufFacts, NoBufFact
       DEF SwapSubmit, Submit, Contract!BeginWrite, Queued, IndInv, TypeOK, Ring,
           Place, Writes, Registers, Elsewhere, SwapTypeOK, Told, dispVars
  <2> QED BY <2>1 DEF Contract!Next
<1>7. CASE SwapComplete
  BY <1>7
     DEF SwapComplete, Completed, Contract!vars, Queued, swapVars, glueVars, dispVars
<1>8. CASE Present
  BY <1>8
     DEF Present, ShowBegin, CallAfter, Contract!vars, Queued, swapVars, glueVars,
         dispVars
<1>9. CASE ShowStep
  <2>1. CASE OutputEnable
    BY <1>9, <2>1 DEF ShowStep, OutputEnable, Contract!vars, Queued, swapVars
  <2>2. CASE SetAppBuffer /\ ~shOn
    BY <1>9, <2>2 DEF ShowStep, SetAppBuffer, Contract!vars, Queued, swapVars
  <2>3. CASE SetAppBuffer /\ shOn
    <3>1. Contract!Flip(target)
      BY <1>9, <2>3
         DEF ShowStep, SetAppBuffer, Contract!Flip, Queued, IndInv, Place, Writes,
             Registers, swapVars
    <3>2. target \in Buf
      BY DEF IndInv, TypeOK, GlueTypeOK
    <3> QED BY <3>1, <3>2 DEF Contract!Next
  <2>4. CASE EnableAppPlane
    <3>1. Contract!Flip(target)
      BY <1>9, <2>4
         DEF ShowStep, EnableAppPlane, Contract!Flip, Queued, IndInv, Place,
             Writes, Registers, swapVars
    <3>2. target \in Buf
      BY DEF IndInv, TypeOK, GlueTypeOK
    <3> QED BY <3>1, <3>2 DEF Contract!Next
  <2> QED BY <1>9, <2>1, <2>2, <2>3, <2>4 DEF ShowStep
<1>10. CASE Presented
  BY <1>10
     DEF Presented, ShowReturned, Released, Rotate, Contract!vars, Queued, swapVars,
         glueVars, dispVars
<1>11. CASE Gpu
  <2>1. PICK b \in Buf : GpuDone(b)
    BY <1>11 DEF Gpu
  <2>2. Contract!EndWrite(b)
    BY <1>11, <2>1 DEF Gpu, GpuDone, Contract!EndWrite, Queued, glueVars, dispVars
  <2> QED BY <2>2 DEF Contract!Next
<1>12. CASE Sync
  <2>1. CASE go /\ shOn
    <3>1. Contract!Sync
      BY <1>12, <2>1 DEF Sync, Vsync, Contract!Sync, Queued, IndInv, Registers, swapVars
    <3> QED BY <3>1 DEF Contract!Next
  <2>2. CASE ~(go /\ shOn)
    BY <1>12, <2>2 DEF Sync, Vsync, Contract!vars, Queued, IndInv, Registers, swapVars
  <2> QED BY <2>1, <2>2
<1>13. CASE UNCHANGED vars
  BY <1>13 DEF Contract!vars, Queued, vars, dispVars, swapVars
<1> QED
  BY <1>1, <1>2, <1>3, <1>4, <1>5, <1>6, <1>7, <1>8, <1>9, <1>10, <1>11, <1>12, <1>13
     DEF HealthyNext, Render

(* The swap chain over the DSS glue implements the scan-out contract: the  *)
(* GPU writes free buffers only, and the panel turns to complete frames    *)
(* that were flipped to.                                                   *)
THEOREM ContractImplemented == HealthySpec => ImplementsContract
BY InitContract, StepContract, Invariance, PTL
   DEF HealthySpec, ImplementsContract, Contract!Spec

-----------------------------------------------------------------------------
(* With driver calls that fail and a display that stops                    *)

(* The render thread's place, whatever show() returned. *)
Track ==
  /\ pc \in {"wait", "submit", "complete"} => swapping
  /\ pc = "record" => ~swapping
  /\ pc \in {"complete", "present"} => pending # NoBuf
  /\ call # "idle" => pc = "present" /\ target = pending
  /\ pc # "wait" => polls = 0

(* The QPA's own bookkeeping. *)
Books == TypeOK /\ Ring /\ Track /\ Writes

(* The display does what that bookkeeping says. *)
Agrees ==
  Registers /\ Leaving /\ Elsewhere /\ call # "failed" /\ ~stalled

(* The invariant of the healthy system is the two together. *)
LEMMA IndInvParts == IndInv <=> Books /\ Agrees
BY DEF IndInv, Books, Agrees, Place, Track

(* A step of the render thread's swap that leaves the glue alone keeps the *)
(* bookkeeping.                                                            *)
LEMMA SwapKeepsBooks ==
  Books /\ (Swap \/ IdlePresent \/ WaitReached \/ Poll \/ GiveUp \/ SwapSubmit
              \/ SwapComplete \/ Gpu) => Books'
<1> SUFFICES ASSUME Books,
                    Swap \/ IdlePresent \/ WaitReached \/ Poll \/ GiveUp
                      \/ SwapSubmit \/ SwapComplete \/ Gpu
             PROVE  Books'
  OBVIOUS
<1>1. GlueTypeOK'
  BY DEF Books, TypeOK, GlueTypeOK, glueVars, dispVars, Swap, IdlePresent,
         WaitReached, Poll, GiveUp, WaitEnds, SwapSubmit, SwapComplete, Gpu
<1>2. /\ polls' \in 0 .. GuardPolls
      /\ sincePolls' \in 0 .. PollsPerSync
      /\ stalled' \in BOOLEAN
  BY PollsAssumption
     DEF Books, TypeOK, Swap, IdlePresent, WaitReached, Poll, GiveUp, WaitEnds,
         SwapSubmit, SwapComplete, Gpu
<1>3. CASE Swap
  BY <1>1, <1>2, <1>3
     DEF Books, TypeOK, SwapTypeOK, PC, Ring, Track, Writes, Swap, SwapBegin, glueVars
<1>4. CASE IdlePresent
  BY <1>1, <1>2, <1>4
     DEF Books, TypeOK, SwapTypeOK, PC, Ring, Track, Writes, IdlePresent,
         FenceSignalled, glueVars
<1>5. CASE WaitReached \/ GiveUp
  BY <1>1, <1>2, <1>5
     DEF Books, TypeOK, SwapTypeOK, PC, Ring, Track, Writes, WaitReached, GiveUp,
         WaitEnds, WaitReturned, glueVars
<1>6. CASE Poll
  BY <1>1, <1>2, <1>6
     DEF Books, TypeOK, SwapTypeOK, Ring, Track, Writes, Poll, swapVars, glueVars
<1>7. CASE SwapSubmit
  <2>1. SwapTypeOK'
    BY <1>7, NextBufFacts
       DEF Books, TypeOK, SwapTypeOK, PC, SwapSubmit, Submit, Rotate
  <2>2. Ring'
    BY <1>7, NoBufFact
       DEF Books, TypeOK, SwapTypeOK, Ring, SwapSubmit, Submit, Rotate
  <2>3. Track'
    BY <1>7 DEF Books, Track, SwapSubmit, Submit, glueVars
  <2>4. Writes'
    BY <1>7, NextBufFacts, NoBufFact
       DEF Books, TypeOK, SwapTypeOK, Track, Writes, SwapSubmit, Submit, Rotate
  <2> QED
    BY <1>1, <1>2, <2>1, <2>2, <2>3, <2>4 DEF Books, TypeOK
<1>8. CASE SwapComplete
  BY <1>1, <1>2, <1>8
     DEF Books, TypeOK, SwapTypeOK, PC, Ring, Track, Writes, SwapComplete, Completed,
         glueVars
<1>9. CASE Gpu
  BY <1>1, <1>2, <1>9
     DEF Books, TypeOK, SwapTypeOK, Ring, Track, Writes, Gpu, GpuDone, glueVars
<1> QED
  BY <1>3, <1>4, <1>5, <1>6, <1>7, <1>8, <1>9

(* So does a present, whether its driver calls succeed or not.             *)
LEMMA PresentKeepsBooks ==
  Books /\ (Present \/ ShowStep \/ ShowFails \/ Presented) => Books'
<1> SUFFICES ASSUME Books, Present \/ ShowStep \/ ShowFails \/ Presented
             PROVE  Books'
  OBVIOUS
<1>1. CASE Present
  BY <1>1
     DEF Present, ShowBegin, CallAfter, Books, TypeOK, GlueTypeOK, SwapTypeOK, Call,
         Ring, Track, Writes, swapVars, dispVars
<1>2. CASE ShowStep
  <2>1. TypeOK'
    <3>1. GlueTypeOK'
      BY <1>2
         DEF ShowStep, OutputEnable, SetAppBuffer, EnableAppPlane, CallAfter, Books,
             TypeOK, Track, GlueTypeOK, Call
    <3>2. SwapTypeOK'
      BY <1>2 DEF ShowStep, Books, TypeOK, SwapTypeOK, swapVars
    <3>3. polls' \in 0 .. GuardPolls /\ sincePolls' \in 0 .. PollsPerSync /\ stalled' \in BOOLEAN
      BY <1>2 DEF ShowStep, Books, TypeOK
    <3> QED BY <3>1, <3>2, <3>3 DEF TypeOK
  <2>2. Track'
    BY <1>2
       DEF ShowStep, OutputEnable, SetAppBuffer, EnableAppPlane, CallAfter, Books,
           Track, swapVars
  <2>3. Ring' /\ Writes'
    BY <1>2 DEF ShowStep, Books, Ring, Writes, swapVars
  <2> QED
    BY <2>1, <2>2, <2>3 DEF Books
<1>3. CASE ShowFails
  BY <1>3
     DEF ShowFails, DriverFails, Books, TypeOK, GlueTypeOK, SwapTypeOK, Call, Ring,
         Track, Writes, swapVars, dispVars
<1>4. CASE Presented
  <2>1. TypeOK'
    <3>1. GlueTypeOK'
      BY <1>4
         DEF Presented, ShowReturned, Books, TypeOK, GlueTypeOK, Call, dispVars
    <3>2. SwapTypeOK'
      BY <1>4, NextBufFacts, CountFacts
         DEF Presented, Released, Rotate, Books, TypeOK, GlueTypeOK, SwapTypeOK, PC
    <3>3. polls' \in 0 .. GuardPolls /\ sincePolls' \in 0 .. PollsPerSync /\ stalled' \in BOOLEAN
      BY <1>4 DEF Presented, Books, TypeOK
    <3> QED BY <3>1, <3>2, <3>3 DEF TypeOK
  <2>2. Ring'
    BY <1>4, NoBufFact
       DEF Presented, Released, Rotate, Books, TypeOK, Ring, SwapTypeOK
  <2>3. Track'
    BY <1>4 DEF Presented, ShowReturned, Released, Books, Track
  <2>4. Writes'
    BY <1>4, NextBufFacts
       DEF Presented, Released, Rotate, Books, TypeOK, Writes, SwapTypeOK
  <2> QED
    BY <2>1, <2>2, <2>3, <2>4 DEF Books
<1> QED
  BY <1>1, <1>2, <1>3, <1>4

(* And the display, while it syncs and when it stops.                      *)
LEMMA DisplayKeepsBooks == Books /\ (Sync \/ Stall) => Books'
<1> SUFFICES ASSUME Books, Sync \/ Stall PROVE Books'
  OBVIOUS
<1>1. CASE Sync
  <2>1. GlueTypeOK'
    BY <1>1, CountFacts
       DEF Sync, Vsync, Books, TypeOK, GlueTypeOK, glueVars
  <2>2. /\ polls' \in 0 .. GuardPolls
        /\ sincePolls' \in 0 .. PollsPerSync
        /\ stalled' \in BOOLEAN
    BY <1>1, PollsAssumption DEF Sync, Books, TypeOK
  <2>3. SwapTypeOK' /\ Ring' /\ Track' /\ Writes'
    BY <1>1
       DEF Sync, Vsync, Books, TypeOK, SwapTypeOK, Ring, Track, Writes, swapVars,
           glueVars
  <2> QED
    BY <2>1, <2>2, <2>3 DEF Books, TypeOK
<1>2. CASE Stall
  BY <1>2
     DEF Stall, Books, TypeOK, GlueTypeOK, SwapTypeOK, Ring, Track, Writes, swapVars,
         glueVars, dispVars
<1> QED
  BY <1>1, <1>2

(* The bookkeeping is kept by every step, with or without faults.          *)
LEMMA BooksInvariance == Spec => []Books
<1>1. Init => Books
  BY InitInv, IndInvParts
<1>2. Books /\ [Next]_vars => Books'
  <2> SUFFICES ASSUME Books, [Next]_vars PROVE Books'
    OBVIOUS
  <2>1. CASE UNCHANGED vars
    BY <2>1
       DEF Books, TypeOK, GlueTypeOK, SwapTypeOK, Ring, Track, Writes, vars, glueVars,
           dispVars, swapVars
  <2> QED
    BY <2>1, SwapKeepsBooks, PresentKeepsBooks, DisplayKeepsBooks
       DEF Next, HealthyNext, Render
<1> QED
  BY <1>1, <1>2, PTL DEF Spec

(* The buffers the QPA distinguishes stay distinct: whatever the driver    *)
(* returns and whether the display syncs or not, the GPU never writes the  *)
(* buffer the QPA believes is on screen, nor the one it is presenting, and *)
(* the guard never counts past its bound.  What a failed show() or a dead  *)
(* display can make wrong is the belief, not the bookkeeping.              *)
THEOREM BeliefNeverTorn ==
  Spec => [](/\ TypeOK
             /\ qshown \notin rendering
             /\ pc = "present" => pending \notin rendering)
<1>1. Books => /\ TypeOK
               /\ qshown \notin rendering
               /\ pc = "present" => pending \notin rendering
  BY NextBufFacts, NoBufFact DEF Books, TypeOK, SwapTypeOK, Ring, Writes
<1> QED
  BY <1>1, BooksInvariance, PTL

(* With faults anywhere in the past: while the display does what the QPA's *)
(* bookkeeping says, nothing tears.                                        *)
THEOREM AgreementIsSafe == Spec => [](Agrees => NoTear)
<1>1. Books => (Agrees => NoTear)
  BY NextBufFacts, NoBufFact
     DEF NoTear, Queued, Books, Agrees, TypeOK, Ring, Track, Writes, Registers,
         Elsewhere, SwapTypeOK, Told
<1> QED
  BY <1>1, BooksInvariance, PTL

(* And it stops doing so in two ways only: a driver call of show() fails,  *)
(* or the display stops.  No interleaving of swaps, waits that give up,    *)
(* presents from the event loop, GPU and syncs loses the agreement, not    *)
(* after earlier failures either, once it is regained.                     *)
THEOREM OnlyFaultsDisagree ==
  Spec => [][Agrees /\ ~Agrees' => ShowFails \/ Stall]_vars
<1>1. Books /\ [Next]_vars => (Agrees /\ ~Agrees' => ShowFails \/ Stall)
  <2> SUFFICES ASSUME Books, [Next]_vars, Agrees, ~ShowFails, ~Stall
               PROVE  Agrees'
    OBVIOUS
  <2>1. IndInv /\ [HealthyNext]_vars
    BY IndInvParts DEF Next
  <2>2. IndInv'
    BY <2>1, StepInv
  <2> QED
    BY <2>2 DEF IndInv, Agrees, Place
<1> QED
  BY <1>1, BooksInvariance, PTL DEF Spec

(* The registers and show()'s place in its calls, whatever fails. *)
Panel ==
  /\ shOn = s_plane_on
  /\ s_plane_on \/ call \in {"buffer", "plane", "ok"} => out
  /\ scan # NoBuf \/ call = "ok" => s_plane_on
  /\ call \in {"output", "plane"} => ~s_plane_on
  /\ Told => shBuf = target
  /\ call = "ok" => go \/ scan = shBuf

(* Every step keeps them.                                                  *)
LEMMA PanelInvariance == Spec => []Panel
<1>1. Init => Panel
  BY DEF Init, GlueInit, Panel, Told
<1>2. Panel /\ [Next]_vars => Panel'
  <2> SUFFICES ASSUME Panel, [Next]_vars PROVE Panel'
    OBVIOUS
  <2>1. CASE UNCHANGED <<glueVars, dispVars>>
    BY <2>1 DEF Panel, Told, glueVars, dispVars
  <2>2. CASE Present
    BY <2>2 DEF Panel, Told, Present, ShowBegin, CallAfter, dispVars
  <2>3. CASE OutputEnable
    BY <2>3 DEF Panel, Told, OutputEnable, CallAfter
  <2>4. CASE SetAppBuffer
    BY <2>4 DEF Panel, Told, SetAppBuffer, CallAfter
  <2>5. CASE EnableAppPlane
    BY <2>5 DEF Panel, Told, EnableAppPlane, CallAfter
  <2>6. CASE Presented
    BY <2>6 DEF Panel, Told, Presented, ShowReturned, dispVars
  <2>7. CASE ShowFails
    BY <2>7 DEF Panel, Told, ShowFails, DriverFails, dispVars
  <2>8. CASE Sync
    BY <2>8 DEF Panel, Told, Sync, Vsync, glueVars
  <2> QED
    BY <2>1, <2>2, <2>3, <2>4, <2>5, <2>6, <2>7, <2>8
       DEF Next, HealthyNext, Render, Swap, IdlePresent, WaitReached, Poll, GiveUp,
           WaitEnds, SwapSubmit, SwapComplete, Gpu, ShowStep, Stall, vars
<1> QED
  BY <1>1, <1>2, PTL DEF Spec

(* How it is regained.  A flip that succeeds leaves the display committed  *)
(* to the buffer the QPA then believes is on screen, whatever failed       *)
(* before it, the first show() of a cold display included: the plane is    *)
(* on, and the panel reads that buffer or turns to it at the next sync.    *)
THEOREM GoodFlipCommits ==
  Spec => [][Presented /\ call = "ok" =>
               /\ s_plane_on' /\ out'
               /\ shBuf' = qshown'
               /\ Queued' = qshown' \/ scan' = qshown']_vars
<1>1. Books /\ Panel /\ [Next]_vars =>
        (Presented /\ call = "ok" =>
           /\ s_plane_on' /\ out'
           /\ shBuf' = qshown'
           /\ Queued' = qshown' \/ scan' = qshown')
  BY DEF Books, Track, Panel, Told, Presented, ShowReturned, Released, Queued, dispVars
<1> QED
  BY <1>1, BooksInvariance, PanelInvariance, PTL DEF Spec

(* And once the panel reads what the QPA believes is on screen, between    *)
(* two flips and with no other buffer in the plane's register, the two     *)
(* agree again, although no stamp taken while they did not has been        *)
(* corrected: the bookkeeping heals without being told.                    *)
THEOREM AgreementRegained ==
  Spec => [](/\ call = "idle" /\ ~stalled
             /\ qshown # NoBuf /\ scan = qshown /\ shBuf = qshown
             => Agrees)
<1>1. Books /\ Panel =>
        (/\ call = "idle" /\ ~stalled
         /\ qshown # NoBuf /\ scan = qshown /\ shBuf = qshown
         => Agrees)
  BY NextBufFacts, NoBufFact
     DEF Books, TypeOK, SwapTypeOK, Ring, Track, Panel, Told, Agrees, Registers,
         Leaving, Elsewhere
<1> QED
  BY <1>1, BooksInvariance, PanelInvariance, PTL

-----------------------------------------------------------------------------
(* What the contract is worth: its variables here stand for any display    *)
(* and any set of buffers, finite or not.                                  *)
CONSTANTS AnyBuf, NoneOfThem
VARIABLES read, next, written

Promise ==
  INSTANCE ScanoutContract
    WITH Buf <- AnyBuf, NoBuf <- NoneOfThem,
         scan <- read, queued <- next, writing <- written

(* No producer of a display that keeps the contract ever writes the buffer *)
(* the panel reads or the one queued for its next sync, whatever the       *)
(* buffers are and provided "none" is not one of them.  With the           *)
(* ContractImplemented of the three glues: none of them tears.             *)
THEOREM ContractNoTear ==
  ASSUME NoneOfThem \notin AnyBuf
  PROVE  Promise!Spec => []Promise!NoTear
<1> DEFINE Inv == Promise!TypeOK /\ Promise!NoTear
<1> USE DEF Promise!TypeOK, Promise!NoTear
<1>1. Promise!Init => Inv
  BY DEF Promise!Init
<1>2. Inv /\ [Promise!Next]_(Promise!vars) => Inv'
  <2> SUFFICES ASSUME Inv, [Promise!Next]_(Promise!vars) PROVE Inv'
    OBVIOUS
  <2>1. ASSUME NEW b \in AnyBuf, Promise!BeginWrite(b) PROVE Inv'
    BY <2>1 DEF Promise!BeginWrite
  <2>2. ASSUME NEW b \in AnyBuf, Promise!EndWrite(b) PROVE Inv'
    BY <2>2 DEF Promise!EndWrite
  <2>3. ASSUME NEW b \in AnyBuf, Promise!Flip(b) PROVE Inv'
    BY <2>3 DEF Promise!Flip
  <2>4. ASSUME NEW b \in AnyBuf, Promise!PowerUp(b) PROVE Inv'
    BY <2>4 DEF Promise!PowerUp
  <2>5. CASE Promise!Sync
    BY <2>5 DEF Promise!Sync
  <2>6. CASE UNCHANGED Promise!vars
    BY <2>6 DEF Promise!vars
  <2> QED
    BY <2>1, <2>2, <2>3, <2>4, <2>5, <2>6 DEF Promise!Next
<1>3. Inv => Promise!NoTear
  OBVIOUS
<1> QED
  BY <1>1, <1>2, <1>3, PTL DEF Promise!Spec
=============================================================================
