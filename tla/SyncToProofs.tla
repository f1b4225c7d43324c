----------------------------- MODULE SyncToProofs -----------------------------
(***************************************************************************)
(* Proofs about SyncTo and the walk it makes, for any set of repositories, *)
(* finite or not, any commits, and anything their dependencies.yaml files  *)
(* may say, cycles and pins that disagree included.                        *)
(***************************************************************************)
EXTENDS SyncTo, SequenceTheorems, FiniteSetTheorems, WellFoundedInduction, TLAPS

Frame == [pin : Pin, at : Nat \ {0}]

LEMMA FileType ==
  ASSUME TypeOK, NEW m \in Module
  PROVE  File(m) \in Seq(Pin)
<1>1. pins \in [Module -> [Rev -> Seq(Pin)]]
  BY HistoryAssumption DEF TypeOK
<1>2. CASE work[m] = Absent
  BY <1>2, EmptySeq DEF File
<1>3. CASE work[m] # Absent
  <2>1. work[m] \in Rev
    BY <1>3 DEF TypeOK
  <2> QED
    BY <1>1, <1>3, <2>1 DEF File
<1> QED
  BY <1>2, <1>3

LEMMA FilePin ==
  ASSUME TypeOK, NEW m \in Module, NEW k \in 1..Len(File(m))
  PROVE  /\ File(m)[k] \in Pin /\ File(m)[k].mod \in Module
         /\ k \in DOMAIN File(m)
<1>1. File(m) \in Seq(Pin)
  BY FileType
<1>2. File(m)[k] \in Pin /\ k \in DOMAIN File(m)
  BY <1>1, ElementOfSeq, LenProperties
<1> QED
  BY <1>2 DEF Pin

-----------------------------------------------------------------------------
(* The topmost call *)

LEMMA TopType ==
  ASSUME TypeOK, pc = "walk"
  PROVE  /\ Len(frames) \in Nat \ {0} /\ DOMAIN frames = 1..Len(frames)
         /\ Len(frames) \in DOMAIN frames
         /\ \A d \in DOMAIN frames : frames[d] \in Frame
         /\ Top = frames[Len(frames)] /\ Top \in Frame /\ Top.pin \in Pin
         /\ Top.pin.mod \in Module
<1>1. frames \in Seq(Frame) /\ frames # <<>>
  BY DEF TypeOK, Frame
<1>2. Len(frames) \in Nat /\ Len(frames) # 0 /\ DOMAIN frames = 1..Len(frames)
  BY <1>1, LenProperties, EmptySeq
<1>3. \A d \in DOMAIN frames : frames[d] \in Frame
  BY <1>1, <1>2, ElementOfSeq
<1> QED
  BY <1>2, <1>3 DEF Top, Frame, Pin

LEMMA AdvancedFacts ==
  ASSUME TypeOK, pc = "walk"
  PROVE  /\ Advanced \in Seq(Frame) /\ Len(Advanced) = Len(frames)
         /\ DOMAIN Advanced = DOMAIN frames
         /\ \A d \in DOMAIN frames :
              /\ Advanced[d].pin = frames[d].pin
              /\ Advanced[d].at = IF d = Len(frames) THEN frames[d].at + 1 ELSE frames[d].at
<1> DEFINE n == Len(frames)
<1>1. /\ n \in Nat \ {0} /\ DOMAIN frames = 1..n /\ frames \in Seq(Frame)
      /\ \A d \in 1..n : frames[d] \in Frame
  BY TopType DEF TypeOK, Frame
<1>2. [frames[n] EXCEPT !.at = @ + 1] \in Frame
  BY <1>1 DEF Frame
<1>3. Advanced = [frames EXCEPT ![n] = [frames[n] EXCEPT !.at = @ + 1]]
  BY DEF Advanced
<1>4. Advanced \in Seq(Frame) /\ Len(Advanced) = n
  BY <1>1, <1>2, <1>3, ExceptSeq
<1>5. DOMAIN Advanced = 1..n
  BY <1>4, LenProperties
<1>6. ASSUME NEW d \in 1..n
      PROVE  /\ Advanced[d].pin = frames[d].pin
             /\ Advanced[d].at = IF d = n THEN frames[d].at + 1 ELSE frames[d].at
  <2>1. frames[d] \in Frame
    BY <1>1
  <2>2. Advanced[d] = IF d = n THEN [frames[n] EXCEPT !.at = @ + 1] ELSE frames[d]
    BY <1>1, <1>3
  <2> QED
    BY <2>1, <2>2 DEF Frame
<1> QED
  BY <1>1, <1>4, <1>5, <1>6

(* The three steps of the walk, in terms of the calls under way. *)
LEMMA SkipFacts ==
  ASSUME TypeOK, pc = "walk", SkipSeen(File(Top.pin.mod))
  PROVE  /\ frames' = Advanced /\ UNCHANGED <<seen, dependencies>>
         /\ File(Top.pin.mod)[Top.at].mod \in seen
BY DEF SkipSeen

LEMMA DescendFacts ==
  ASSUME TypeOK, pc = "walk", Descend(File(Top.pin.mod)),
         NEW q, q = File(Top.pin.mod)[Top.at]
  PROVE  /\ q \in Pin /\ q.mod \in Module /\ q.mod \notin seen
         /\ Top.at \in DOMAIN File(Top.pin.mod)
         /\ Needs(Top.pin.mod, q.mod)
         /\ seen' = seen \cup {q.mod} /\ dependencies' = dependencies
         /\ frames' \in Seq(Frame) /\ Len(frames') = Len(frames) + 1
         /\ DOMAIN frames' = 1..(Len(frames) + 1)
         /\ \A d \in 1..Len(frames) : frames'[d] = Advanced[d]
         /\ frames'[Len(frames) + 1] = Call(q)
<1>1. /\ Top.pin.mod \in Module /\ Top.at \in Nat \ {0} /\ Len(frames) \in Nat
  BY TopType DEF Frame
<1>2. File(Top.pin.mod) \in Seq(Pin) /\ Top.at \in 1..Len(File(Top.pin.mod))
  <2>1. File(Top.pin.mod) \in Seq(Pin)
    BY <1>1, FileType
  <2>2. Len(File(Top.pin.mod)) \in Nat
    BY <2>1, LenProperties
  <2>3. Top.at <= Len(File(Top.pin.mod))
    BY DEF Descend
  <2> QED
    BY <1>1, <2>1, <2>2, <2>3
<1>3. q \in Pin /\ q.mod \in Module /\ Top.at \in DOMAIN File(Top.pin.mod)
  BY <1>1, <1>2, FilePin
<1>4. q.mod \notin seen /\ seen' = seen \cup {q.mod} /\ dependencies' = dependencies
  BY DEF Descend
<1>5. Needs(Top.pin.mod, q.mod)
  BY <1>2 DEF Needs, ModulesOf
<1>6. Call(q) \in Frame
  BY <1>3 DEF Call, Frame
<1>7. /\ frames' \in Seq(Frame) /\ Len(frames') = Len(Advanced) + 1
      /\ \A d \in 1..Len(Advanced) : frames'[d] = Advanced[d]
      /\ frames'[Len(Advanced) + 1] = Call(q)
  <2>1. frames' = Append(Advanced, Call(q))
    BY DEF Descend
  <2>2. Advanced \in Seq(Frame)
    BY AdvancedFacts
  <2> QED
    BY <1>6, <2>1, <2>2, AppendProperties
<1>8. Len(Advanced) = Len(frames) /\ DOMAIN frames' = 1..Len(frames')
  BY <1>7, AdvancedFacts, LenProperties
<1> QED
  BY <1>1, <1>3, <1>4, <1>5, <1>7, <1>8

LEMMA ReturnFacts ==
  ASSUME TypeOK, pc = "walk", Return(File(Top.pin.mod))
  PROVE  /\ seen' = seen
         /\ dependencies' \in Seq(Pin)
         /\ DOMAIN dependencies = 1..Len(dependencies)
         /\ Len(dependencies) \in Nat /\ Len(dependencies') = Len(dependencies) + 1
         /\ DOMAIN dependencies' = 1..(Len(dependencies) + 1)
         /\ \A j \in 1..Len(dependencies) : dependencies'[j] = dependencies[j]
         /\ dependencies'[Len(dependencies) + 1] = Top.pin
         /\ frames' \in Seq(Frame) /\ Len(frames') = Len(frames) - 1
         /\ DOMAIN frames' = 1..(Len(frames) - 1)
         /\ \A d \in 1..(Len(frames) - 1) : frames'[d] = frames[d]
         /\ \A k \in DOMAIN File(Top.pin.mod) : k < Top.at
<1>1. /\ Top.pin \in Pin /\ Top.pin.mod \in Module /\ Len(frames) \in Nat \ {0}
      /\ frames \in Seq(Frame) /\ dependencies \in Seq(Pin) /\ Top.at \in Nat
  BY TopType DEF TypeOK, Frame
<1>2. seen' = seen
  BY DEF Return
<1>3. dependencies' = Append(dependencies, Top.pin)
  BY DEF Return, Listed
<1>4. /\ dependencies' \in Seq(Pin) /\ Len(dependencies') = Len(dependencies) + 1
      /\ \A j \in 1..Len(dependencies) : dependencies'[j] = dependencies[j]
      /\ dependencies'[Len(dependencies) + 1] = Top.pin
  BY <1>1, <1>3, AppendProperties
<1>5. /\ DOMAIN dependencies = 1..Len(dependencies) /\ Len(dependencies) \in Nat
      /\ DOMAIN dependencies' = 1..(Len(dependencies) + 1)
  BY <1>1, <1>4, LenProperties
<1>6. /\ frames' \in Seq(Frame) /\ Len(frames') = Len(frames) - 1
      /\ \A d \in 1..(Len(frames) - 1) : frames'[d] = frames[d]
  <2>1. frames' = SubSeq(frames, 1, Len(frames) - 1)
    BY DEF Return
  <2> DEFINE n == Len(frames) - 1
             below == SubSeq(frames, 1, n)
  <2>2. n \in Nat /\ \A d \in 1..n : frames[d] \in Frame
    BY <1>1, TopType
  <2> HIDE DEF n
  <2>3. /\ below \in Seq(Frame) /\ Len(below) = (IF 1 <= n THEN n - 1 + 1 ELSE 0)
        /\ \A d \in 1..(n - 1 + 1) : below[d] = frames[1 + d - 1]
    BY <2>2, SubSeqProperties
  <2> HIDE DEF below
  <2>4. below \in Seq(Frame) /\ Len(below) = n /\ \A d \in 1..n : below[d] = frames[d]
    BY <2>2, <2>3
  <2> QED
    BY <2>1, <2>4 DEF n, below
<1>7. DOMAIN frames' = 1..(Len(frames) - 1)
  BY <1>6, LenProperties
<1>8. \A k \in DOMAIN File(Top.pin.mod) : k < Top.at
  <2>1. File(Top.pin.mod) \in Seq(Pin) /\ Top.at > Len(File(Top.pin.mod))
    BY <1>1, FileType DEF Return
  <2>2. DOMAIN File(Top.pin.mod) = 1..Len(File(Top.pin.mod)) /\ Len(File(Top.pin.mod)) \in Nat
    BY <2>1, LenProperties
  <2> QED
    BY <1>1, <2>1, <2>2
<1> QED
  BY <1>2, <1>4, <1>5, <1>6, <1>7, <1>8

-----------------------------------------------------------------------------
(* Type correctness *)

LEMMA TypeInit == Init => TypeOK
<1> SUFFICES ASSUME Init PROVE TypeOK
  OBVIOUS
<1>1. frames = <<>> /\ dependencies = <<>> /\ seen = {}
  BY DEF Init, NoWalk
<1>2. Len(dependencies) = 0
  BY <1>1, EmptySeq
<1>3. frames \in Seq(Frame) /\ dependencies \in Seq(Pin)
  BY <1>1, EmptySeq
<1> QED
  <2>1. frames \in Seq([pin : Pin, at : Nat \ {0}]) /\ (frames = <<>> <=> pc # "walk")
    BY <1>1, <1>3 DEF Init, Frame
  <2>2. i \in 0..Len(dependencies) /\ stops \in 0..MaxStops
    BY <1>2, StopAssumption DEF Init
  <2> QED
    BY <1>1, <1>3, <2>1, <2>2 DEF Init, TypeOK

LEMMA TypeStep == TypeOK /\ [Next]_vars => TypeOK'
<1> SUFFICES ASSUME TypeOK, [Next]_vars PROVE TypeOK'
  OBVIOUS
<1>0. /\ dependencies \in Seq(Pin) /\ Len(dependencies) \in Nat /\ i \in 0..Len(dependencies)
      /\ Main \in Module
  BY LenProperties DEF TypeOK, Module
<1>1. CASE AcquireMain
  BY <1>0, <1>1 DEF AcquireMain, TypeOK, input, loopVars, walkVars
<1>2. CASE CheckoutMain
  BY <1>0, <1>2 DEF CheckoutMain, Checkout, TypeOK, input, loopVars, walkVars
<1>3. CASE Resolve
  <2>1. [mod |-> Main, rev |-> HEAD] \in Pin
    BY <1>0 DEF Pin
  <2>2. Call([mod |-> Main, rev |-> HEAD]) \in Frame
    BY <2>1 DEF Call, Frame
  <2>3. /\ frames' = <<Call([mod |-> Main, rev |-> HEAD])>> /\ seen' = {Main}
        /\ dependencies' = <<>> /\ i' = 0 /\ visit' = FALSE /\ pc' = "walk"
        /\ UNCHANGED <<input, work, stops>>
    BY <1>3 DEF Resolve, WalkFrom
  <2>4. frames' \in Seq(Frame) /\ frames' # <<>>
    BY <2>2, <2>3
  <2>5. dependencies' \in Seq(Pin) /\ Len(dependencies') = 0
    BY <2>3, EmptySeq
  <2> QED
    <3>1. frames' \in Seq([pin : Pin, at : Nat \ {0}]) /\ (frames' = <<>> <=> pc' # "walk")
      BY <2>3, <2>4 DEF Frame
    <3>2. seen' \subseteq Module /\ i' \in 0..Len(dependencies')
      BY <1>0, <2>3, <2>5
    <3> QED
      BY <2>3, <2>5, <3>1, <3>2 DEF TypeOK, input
<1>4. CASE WalkOn
  <2>1. pc = "walk" /\ UNCHANGED <<input, work, pc, i, visit, stops>>
    BY <1>4 DEF WalkOn
  <2>2. /\ frames' \in Seq(Frame) /\ frames' # <<>> /\ seen' \subseteq Module
        /\ dependencies' = dependencies
    <3>1. CASE SkipSeen(File(Top.pin.mod))
      BY <2>1, <3>1, SkipFacts, AdvancedFacts, TopType, EmptySeq DEF TypeOK
    <3>2. CASE Descend(File(Top.pin.mod))
      <4> DEFINE q == File(Top.pin.mod)[Top.at]
      <4>1. /\ q.mod \in Module /\ seen' = seen \cup {q.mod} /\ dependencies' = dependencies
            /\ frames' \in Seq(Frame) /\ Len(frames') = Len(frames) + 1
        BY <2>1, <3>2, DescendFacts
      <4>2. seen' \subseteq Module
        <5>1. seen \subseteq Module
          BY DEF TypeOK
        <5> QED
          BY <4>1, <5>1
      <4>3. frames' # <<>>
        <5>1. Len(frames) \in Nat
          BY <2>1, TopType
        <5>2. Len(frames') # 0
          BY <4>1, <5>1
        <5> QED
          BY <5>2, EmptySeq
      <4> QED
        BY <4>1, <4>2, <4>3
    <3> QED
      BY <1>4, <3>1, <3>2 DEF WalkOn
  <2> QED
    BY <2>1, <2>2 DEF TypeOK, Frame, input
<1>5. CASE WalkReturns
  <2>1. /\ pc = "walk" /\ Return(File(Top.pin.mod)) /\ UNCHANGED <<input, work, visit, stops>>
        /\ IF Len(frames) = 1 THEN pc' = "visit" /\ i' = Len(dependencies')
                              ELSE UNCHANGED <<pc, i>>
    BY <1>5 DEF WalkReturns, LastIndex
  <2>2. /\ frames' \in Seq(Frame) /\ seen' \subseteq Module /\ dependencies' \in Seq(Pin)
        /\ Len(dependencies') = Len(dependencies) + 1
        /\ Len(frames') = Len(frames) - 1 /\ Len(frames) \in Nat \ {0}
    BY <2>1, ReturnFacts, TopType DEF TypeOK
  <2>3. frames' = <<>> <=> Len(frames) = 1
    <3>1. frames' = <<>> <=> Len(frames') = 0
      BY <2>2, EmptySeq
    <3> QED
      BY <2>2, <3>1
  <2>4. pc' = IF Len(frames) = 1 THEN "visit" ELSE "walk"
    BY <2>1
  <2>5. frames' \in Seq([pin : Pin, at : Nat \ {0}]) /\ (frames' = <<>> <=> pc' # "walk")
    BY <2>2, <2>3, <2>4 DEF Frame
  <2>6. i' \in 0..Len(dependencies')
    <3>1. Len(dependencies) \in Nat /\ i \in 0..Len(dependencies)
      BY <1>0 DEF TypeOK
    <3> QED
      BY <2>1, <2>2, <3>1
  <2> QED
    BY <2>1, <2>2, <2>4, <2>5, <2>6 DEF TypeOK, input
<1>6. CASE SkipHead \/ AlreadyThere
  BY <1>0, <1>6 DEF SkipHead, AlreadyThere, Continue, Visiting, TypeOK, input, walkVars
<1>7. CASE GetDependency
  BY <1>0, <1>7 DEF GetDependency, Visiting, RevisitAfterGet, TypeOK, input, walkVars
<1>8. CASE CheckoutDependency
  <2>1. pin \in Pin
    BY <1>0, <1>8, ElementOfSeq DEF CheckoutDependency, Visiting, pin
  <2>2. Checkout(pin.mod, pin.rev) \in Rev
    BY <1>8, <2>1 DEF CheckoutDependency, Checkout, LeftAlone, Pin
  <2> QED
    BY <1>0, <1>8, <2>2 DEF CheckoutDependency, Visiting, TypeOK, input, walkVars
<1>9. CASE Visited
  BY <1>0, <1>9 DEF Visited, TypeOK, input, loopVars, walkVars
<1>10. CASE Stop
  <2>1. /\ frames' = <<>> /\ dependencies' = <<>> /\ seen' = {} /\ i' = 0
        /\ pc' = "stopped" /\ visit' = FALSE /\ stops' = stops + 1 /\ stops < MaxStops
        /\ UNCHANGED <<input, work>>
    BY <1>10 DEF Stop
  <2>2. Len(dependencies') = 0
    BY <2>1, EmptySeq
  <2>3. frames' \in Seq(Frame) /\ dependencies' \in Seq(Pin)
    BY <2>1, EmptySeq
  <2>4. frames' \in Seq([pin : Pin, at : Nat \ {0}]) /\ (frames' = <<>> <=> pc' # "walk")
    BY <2>1, <2>3 DEF Frame
  <2>5. i' \in 0..Len(dependencies') /\ stops' \in 0..MaxStops
    BY <2>1, <2>2, StopAssumption DEF TypeOK
  <2> QED
    BY <2>1, <2>3, <2>4, <2>5 DEF TypeOK, input
<1>11. CASE RunAgain
  BY <1>0, <1>11 DEF RunAgain, TypeOK, input, loopVars, walkVars
<1>12. CASE UNCHANGED vars
  BY <1>12 DEF vars, TypeOK, input, loopVars, walkVars
<1> QED
  BY <1>1, <1>2, <1>3, <1>4, <1>5, <1>6, <1>7, <1>8, <1>9, <1>10, <1>11, <1>12 DEF Next, Script

(* Type correctness: the position in the list stays within it, through     *)
(* repeated walks, failures and new runs; a call is under way exactly      *)
(* while the walk is.                                                      *)
THEOREM TypeCorrect == Spec => []TypeOK
BY TypeInit, TypeStep, PTL DEF Spec

-----------------------------------------------------------------------------
(* What a walk has found, while nothing changes under it.                  *)

(* Listed are the modules seen whose call has returned. *)
Met == seen = ModulesOf(dependencies) \cup {frames[d].pin.mod : d \in DOMAIN frames}

(* Nothing is visited twice. *)
Once ==
  /\ \A c, d \in DOMAIN frames : frames[c].pin.mod = frames[d].pin.mod => c = d
  /\ \A j, k \in 1..Len(dependencies) : dependencies[j].mod = dependencies[k].mod => j = k
  /\ \A d \in DOMAIN frames : frames[d].pin.mod \notin ModulesOf(dependencies)

(* A call is for something the calls below it need. *)
Chain ==
  \A c, d \in DOMAIN frames : c < d => Reaches(frames[c].pin.mod, frames[d].pin.mod)

(* What the file of a module says, up to where its call is, has been seen. *)
Explored ==
  /\ \A d \in DOMAIN frames : \A k \in DOMAIN File(frames[d].pin.mod) :
       k < frames[d].at => File(frames[d].pin.mod)[k].mod \in seen
  /\ \A m \in ModulesOf(dependencies), n \in Module : Needs(m, n) => n \in seen

(* What a listed module needs is listed by then, or needs it in turn. *)
Ordered ==
  \A j \in 1..Len(dependencies), n \in Module :
    Needs(dependencies[j].mod, n) =>
      \/ \E k \in 1..j : dependencies[k].mod = n
      \/ Reaches(n, dependencies[j].mod)

Within == Main \in seen /\ seen \subseteq Needed

(* Every module but Main is asked for as a file of one of them says. *)
Pinned(p) ==
  p.mod # Main => \E m \in seen : \E k \in DOMAIN File(m) : File(m)[k] = p

AskedFor ==
  /\ \A d \in DOMAIN frames : Pinned(frames[d].pin)
  /\ \A j \in 1..Len(dependencies) : Pinned(dependencies[j])

Found == Met /\ Once /\ Chain /\ Explored /\ Ordered /\ Within /\ AskedFor

(* Main is the starting point, asked for at HEAD, and where it should be.  *)
MainFirst ==
  /\ \A d \in DOMAIN frames : frames[d].pin.mod = Main => frames[d].pin.rev = HEAD
  /\ \A j \in 1..Len(dependencies) : dependencies[j].mod = Main => dependencies[j].rev = HEAD
  /\ pc \in {"resolve", "walk", "visit", "done"} /\ ref # HEAD => work[Main] = ref

(* What the loop has come past is where its pin says. *)
Settled ==
  \A j \in 1..Len(dependencies) :
    j > i => dependencies[j].rev \in {HEAD, work[dependencies[j].mod]}

SyncInv ==
  /\ TypeOK
  /\ MainFirst
  /\ pc = "walk" => ~visit
  /\ pc = "done" => ~visit /\ i = 0
  /\ pc \in {"walk", "visit", "done"} /\ ~visit => Found
  /\ pc \in {"visit", "done"} /\ ~visit => Settled

LEMMA SameFiles ==
  ASSUME UNCHANGED <<pins, work>>
  PROVE  /\ \A m : File(m)' = File(m)
         /\ \A m, n : Needs(m, n)' <=> Needs(m, n)
         /\ \A m, n : Reaches(m, n)' <=> Reaches(m, n)
         /\ Needed' = Needed
<1>1. \A m : File(m)' = File(m)
  BY DEF File
<1>2. \A m, n : Needs(m, n)' <=> Needs(m, n)
  BY <1>1 DEF Needs
<1>3. \A m, n : Reaches(m, n)' <=> Reaches(m, n)
  BY <1>2 DEF Reaches
<1>4. Needed' = Needed
  BY <1>3 DEF Needed
<1> QED
  BY <1>1, <1>2, <1>3, <1>4

LEMMA FoundSame ==
  ASSUME Found, UNCHANGED <<pins, work, walkVars>>
  PROVE  Found'
<1>1. /\ \A m : File(m)' = File(m)
      /\ \A m, n : Needs(m, n)' <=> Needs(m, n)
      /\ \A m, n : Reaches(m, n)' <=> Reaches(m, n)
      /\ Needed' = Needed
  BY SameFiles
<1>2. seen' = seen /\ frames' = frames /\ dependencies' = dependencies
  BY DEF walkVars
<1>3. Met'
  BY <1>2 DEF Found, Met, ModulesOf
<1>4. Once'
  BY <1>2 DEF Found, Once, ModulesOf
<1>5. Chain'
  BY <1>1, <1>2 DEF Found, Chain
<1>6. Explored'
  BY <1>1, <1>2 DEF Found, Explored, ModulesOf
<1>7. Ordered'
  BY <1>1, <1>2 DEF Found, Ordered
<1>8. Within'
  BY <1>1, <1>2 DEF Found, Within
<1>9. AskedFor'
  BY <1>1, <1>2 DEF Found, AskedFor, Pinned
<1> QED
  BY <1>3, <1>4, <1>5, <1>6, <1>7, <1>8, <1>9 DEF Found

(* A module reaches what it needs, and what it reaches a module that needs *)
(* it.                                                                     *)
LEMMA ReachDirect ==
  ASSUME NEW m \in Module, NEW n \in Module, Needs(m, n)
  PROVE  Reaches(m, n)
BY DEF Reaches

LEMMA ReachStep ==
  ASSUME NEW l \in Module, NEW m \in Module, NEW n \in Module, Reaches(l, m), Needs(m, n)
  PROVE  Reaches(l, n)
BY DEF Reaches

LEMMA NeededStep ==
  ASSUME NEW m \in Needed, NEW n \in Module, Needs(m, n)
  PROVE  n \in Needed
<1>1. Main \in Module
  BY DEF Module
<1> QED
  BY <1>1, ReachDirect, ReachStep DEF Needed

(* A set of modules that has Main and whatever its members need has all    *)
(* that is needed.                                                         *)
LEMMA NeededIsLeast ==
  ASSUME NEW T \in SUBSET Module, Main \in T,
         \A m \in T, n \in Module : Needs(m, n) => n \in T
  PROVE  Needed \subseteq T
<1> SUFFICES ASSUME NEW m \in Module, Reaches(Main, m) PROVE m \in T
  BY DEF Needed
<1>1. \A k, l \in Module : k \in {Main} \cup T /\ Needs(k, l) => l \in T
  OBVIOUS
<1> QED
  BY <1>1 DEF Reaches

-----------------------------------------------------------------------------
(* Each step of the walk keeps what it has found.                          *)

LEMMA ListedType ==
  ASSUME TypeOK
  PROVE  /\ Len(dependencies) \in Nat /\ DOMAIN dependencies = 1..Len(dependencies)
         /\ \A j \in 1..Len(dependencies) :
              dependencies[j] \in Pin /\ dependencies[j].mod \in Module
         /\ ModulesOf(dependencies) \subseteq Module
<1>1. dependencies \in Seq(Pin)
  BY DEF TypeOK
<1>2. Len(dependencies) \in Nat /\ DOMAIN dependencies = 1..Len(dependencies)
  BY <1>1, LenProperties
<1>3. \A j \in 1..Len(dependencies) : dependencies[j] \in Pin /\ dependencies[j].mod \in Module
  <2>1. \A j \in 1..Len(dependencies) : dependencies[j] \in Pin
    BY <1>1, ElementOfSeq
  <2> QED
    BY <2>1 DEF Pin
<1> QED
  BY <1>2, <1>3 DEF ModulesOf

LEMMA NeedsFile ==
  ASSUME TypeOK, NEW m \in Module, NEW n
  PROVE  Needs(m, n) <=> \E k \in DOMAIN File(m) : File(m)[k].mod = n
<1>1. DOMAIN File(m) = 1..Len(File(m))
  BY FileType, LenProperties
<1> QED
  BY <1>1 DEF Needs, ModulesOf

LEMMA BeginFound ==
  ASSUME TypeOK, Resolve
  PROVE  Found'
<1> DEFINE main == [mod |-> Main, rev |-> HEAD]
<1>1. /\ seen' = {Main} /\ frames' = <<Call(main)>> /\ dependencies' = <<>>
      /\ UNCHANGED <<pins, work>>
  BY DEF Resolve, WalkFrom, input
<1>2. DOMAIN frames' = {1} /\ frames'[1].pin = main /\ frames'[1].at = 1
  BY <1>1 DEF Call
<1>3. Len(dependencies') = 0
  BY <1>1, EmptySeq
<1>4. ModulesOf(dependencies)' = {}
  BY <1>3 DEF ModulesOf
<1>5. main.mod = Main
  OBVIOUS
<1> HIDE DEF main
<1>6. Met'
  BY <1>1, <1>2, <1>4, <1>5 DEF Met
<1>7. Once'
  BY <1>2, <1>3, <1>4 DEF Once
<1>8. Chain'
  BY <1>2 DEF Chain
<1>9. Explored'
  <2>1. DOMAIN File(Main) = 1..Len(File(Main))
    BY FileType, LenProperties DEF Module
  <2>2. \A k \in DOMAIN File(Main)' : ~(k < 1)
    BY <1>1, <2>1, SameFiles
  <2> QED
    BY <1>2, <1>4, <1>5, <2>2 DEF Explored
<1>10. Ordered'
  BY <1>3 DEF Ordered
<1>11. Within'
  BY <1>1 DEF Within, Needed
<1>12. AskedFor'
  BY <1>2, <1>3, <1>5 DEF AskedFor, Pinned
<1> QED
  BY <1>6, <1>7, <1>8, <1>9, <1>10, <1>11, <1>12 DEF Found

LEMMA SkipFound ==
  ASSUME TypeOK, Found, pc = "walk", UNCHANGED <<pins, work>>,
         SkipSeen(File(Top.pin.mod))
  PROVE  Found'
<1>1. /\ \A m : File(m)' = File(m)
      /\ \A m, n : Needs(m, n)' <=> Needs(m, n)
      /\ \A m, n : Reaches(m, n)' <=> Reaches(m, n)
      /\ Needed' = Needed
  BY SameFiles
<1>2. seen' = seen /\ dependencies' = dependencies
  BY SkipFacts
<1>3. /\ DOMAIN frames' = DOMAIN frames
      /\ \A d \in DOMAIN frames :
           /\ frames'[d].pin = frames[d].pin
           /\ frames'[d].at = IF d = Len(frames) THEN frames[d].at + 1 ELSE frames[d].at
  BY SkipFacts, AdvancedFacts
<1>4. Met'
  BY <1>2, <1>3 DEF Found, Met, ModulesOf
<1>5. Once'
  BY <1>2, <1>3 DEF Found, Once, ModulesOf
<1>6. Chain'
  BY <1>1, <1>3 DEF Found, Chain
<1>7. Explored'
  <2>1. ASSUME NEW d \in DOMAIN frames, NEW k \in DOMAIN File(frames[d].pin.mod),
               k < frames'[d].at
        PROVE  File(frames[d].pin.mod)[k].mod \in seen
    <3>1. frames[d] \in Frame /\ frames[d].pin.mod \in Module /\ frames[d].at \in Nat
      BY TopType DEF Frame, Pin
    <3>2. k \in Nat
      BY <3>1, FileType, LenProperties
    <3>3. CASE k < frames[d].at
      BY <3>3 DEF Found, Explored
    <3>4. CASE ~(k < frames[d].at)
      <4>1. d = Len(frames) /\ k = frames[d].at
        BY <1>3, <2>1, <3>1, <3>2, <3>4
      <4> QED
        BY <4>1, SkipFacts, TopType
    <3> QED
      BY <3>3, <3>4
  <2>2. \A m \in ModulesOf(dependencies), n \in Module : Needs(m, n) => n \in seen
    BY DEF Found, Explored
  <2> QED
    BY <1>1, <1>2, <1>3, <2>1, <2>2 DEF Explored, ModulesOf
<1>8. Ordered'
  BY <1>1, <1>2 DEF Found, Ordered
<1>9. Within'
  BY <1>1, <1>2 DEF Found, Within
<1>10. AskedFor'
  BY <1>1, <1>2, <1>3 DEF Found, AskedFor, Pinned
<1> QED
  BY <1>4, <1>5, <1>6, <1>7, <1>8, <1>9, <1>10 DEF Found

LEMMA DescendFound ==
  ASSUME TypeOK, Found, pc = "walk", UNCHANGED <<pins, work>>,
         Descend(File(Top.pin.mod))
  PROVE  Found'
<1> DEFINE n == Len(frames)
<1>1. /\ \A m : File(m)' = File(m)
      /\ \A m, l : Needs(m, l)' <=> Needs(m, l)
      /\ \A m, l : Reaches(m, l)' <=> Reaches(m, l)
      /\ Needed' = Needed
  BY SameFiles
<1>2. PICK q : q = File(Top.pin.mod)[Top.at]
  OBVIOUS
<1>3. /\ q \in Pin /\ q.mod \in Module /\ q.mod \notin seen
      /\ Top.at \in DOMAIN File(Top.pin.mod)
      /\ Needs(Top.pin.mod, q.mod)
      /\ seen' = seen \cup {q.mod} /\ dependencies' = dependencies
      /\ DOMAIN frames' = 1..(n + 1)
      /\ \A d \in 1..n : frames'[d] = Advanced[d]
      /\ frames'[n + 1] = Call(q)
  BY <1>2, DescendFacts
<1>4. /\ n \in Nat \ {0} /\ DOMAIN frames = 1..n /\ Top = frames[n]
      /\ Top.pin.mod \in Module
      /\ \A d \in 1..n : frames[d] \in Frame /\ frames[d].pin.mod \in Module
  BY TopType DEF Frame, Pin
<1>5. /\ \A d \in 1..n : /\ frames'[d].pin = frames[d].pin
                         /\ frames'[d].at = IF d = n THEN frames[d].at + 1 ELSE frames[d].at
      /\ frames'[n + 1].pin = q /\ frames'[n + 1].at = 1
  <2>1. \A d \in 1..n : /\ Advanced[d].pin = frames[d].pin
                         /\ Advanced[d].at = IF d = n THEN frames[d].at + 1 ELSE frames[d].at
    BY <1>4, AdvancedFacts
  <2> HIDE DEF n
  <2> QED
    BY <1>3, <2>1 DEF Call
<1>6. \A d \in 1..n : frames[d].pin.mod \in seen
  BY <1>4 DEF Found, Met
<1> HIDE DEF n
<1>7. Met'
  <2>1. {frames'[d].pin.mod : d \in DOMAIN frames'} =
          {frames[d].pin.mod : d \in DOMAIN frames} \cup {q.mod}
    BY <1>3, <1>4, <1>5
  <2> QED
    BY <1>3, <2>1 DEF Found, Met, ModulesOf
<1>8. Once'
  <2>1. \A c, d \in DOMAIN frames' : frames'[c].pin.mod = frames'[d].pin.mod => c = d
    BY <1>3, <1>4, <1>5, <1>6 DEF Found, Once
  <2>2. \A d \in DOMAIN frames' : frames'[d].pin.mod \notin ModulesOf(dependencies)
    <3>1. q.mod \notin ModulesOf(dependencies)
      BY <1>3 DEF Found, Met
    <3> QED
      BY <1>3, <1>4, <1>5, <3>1 DEF Found, Once
  <2> QED
    BY <1>3, <2>1, <2>2 DEF Found, Once, ModulesOf
<1>9. Chain'
  <2>1. ASSUME NEW c \in 1..(n + 1), NEW d \in 1..(n + 1), c < d
        PROVE  Reaches(frames'[c].pin.mod, frames'[d].pin.mod)
    <3>1. CASE d \in 1..n
      BY <1>4, <1>5, <2>1, <3>1 DEF Found, Chain
    <3>2. CASE d = n + 1 /\ c = n
      BY <1>3, <1>4, <1>5, <3>2, ReachDirect
    <3>3. CASE d = n + 1 /\ c < n
      <4>1. Reaches(frames[c].pin.mod, frames[n].pin.mod) /\ c \in 1..n
        BY <1>4, <2>1, <3>3 DEF Found, Chain
      <4> QED
        BY <1>3, <1>4, <1>5, <3>3, <4>1, ReachStep
    <3> QED
      BY <1>4, <2>1, <3>1, <3>2, <3>3
  <2> QED
    BY <1>1, <1>3, <2>1 DEF Chain
<1>10. Explored'
  <2>1. ASSUME NEW d \in 1..n, NEW k \in DOMAIN File(frames[d].pin.mod), k < frames'[d].at
        PROVE  File(frames[d].pin.mod)[k].mod \in seen'
    <3>1. frames[d].at \in Nat /\ k \in Nat
      BY <1>4, FileType, LenProperties DEF Frame
    <3>2. CASE k < frames[d].at
      BY <1>3, <1>4, <3>2 DEF Found, Explored
    <3>3. CASE ~(k < frames[d].at)
      <4>1. d = n /\ k = frames[d].at
        BY <1>4, <1>5, <2>1, <3>1, <3>3
      <4> QED
        BY <1>2, <1>3, <1>4, <4>1
    <3> QED
      BY <3>2, <3>3
  <2>2. ASSUME NEW k \in DOMAIN File(q.mod) PROVE ~(k < 1)
    BY <1>3, FileType, LenProperties
  <2>3. \A m \in ModulesOf(dependencies), l \in Module : Needs(m, l) => l \in seen'
    BY <1>3 DEF Found, Explored
  <2>4. \A d \in DOMAIN frames' : \A k \in DOMAIN File(frames'[d].pin.mod) :
          k < frames'[d].at => File(frames'[d].pin.mod)[k].mod \in seen'
    <3> SUFFICES ASSUME NEW d \in 1..(n + 1), NEW k \in DOMAIN File(frames'[d].pin.mod),
                        k < frames'[d].at
                 PROVE  File(frames'[d].pin.mod)[k].mod \in seen'
      BY <1>3
    <3>1. CASE d \in 1..n
      BY <1>5, <2>1, <3>1
    <3>2. CASE d = n + 1
      BY <1>5, <2>2, <3>2
    <3> QED
      BY <1>4, <3>1, <3>2
  <2> QED
    BY <1>1, <1>3, <2>3, <2>4 DEF Explored, ModulesOf
<1>11. Ordered'
  BY <1>1, <1>3 DEF Found, Ordered
<1>12. Within'
  <2>1. Top.pin.mod \in Needed
    BY <1>4, <1>6 DEF Found, Within
  <2>2. q.mod \in Needed
    BY <1>3, <2>1, NeededStep
  <2> QED
    BY <1>1, <1>3, <2>2 DEF Found, Within
<1>13. AskedFor'
  <2>1. \E m \in seen : \E k \in DOMAIN File(m) : File(m)[k] = q
    <3>1. n \in 1..n
      BY <1>4
    <3>2. Top.pin.mod \in seen
      BY <1>4, <1>6, <3>1
    <3>3. Top.at \in DOMAIN File(Top.pin.mod) /\ File(Top.pin.mod)[Top.at] = q
      BY <1>2, <1>3
    <3> QED
      BY <3>2, <3>3
  <2>2. \A p : Pinned(p) => Pinned(p)'
    BY <1>1, <1>3 DEF Pinned
  <2>3. Pinned(q)'
    BY <1>1, <1>3, <2>1 DEF Pinned
  <2>4. ASSUME NEW d \in 1..(n + 1), NEW p, p = frames'[d].pin
        PROVE  Pinned(p)'
    <3>1. CASE d \in 1..n
      BY <1>4, <1>5, <2>2, <2>4, <3>1 DEF Found, AskedFor
    <3>2. CASE d = n + 1
      BY <1>5, <2>3, <2>4, <3>2
    <3> QED
      BY <1>4, <3>1, <3>2
  <2>5. ASSUME NEW j \in 1..Len(dependencies), NEW p, p = dependencies'[j]
        PROVE  Pinned(p)'
    BY <1>3, <2>2, <2>5 DEF Found, AskedFor
  <2> QED
    BY <1>3, <2>4, <2>5 DEF AskedFor
<1> QED
  BY <1>7, <1>8, <1>9, <1>10, <1>11, <1>12, <1>13 DEF Found

LEMMA ReturnFound ==
  ASSUME TypeOK, Found, pc = "walk", UNCHANGED <<pins, work>>,
         Return(File(Top.pin.mod))
  PROVE  Found'
<1> DEFINE n == Len(frames)
           N == Len(dependencies)
           p == Top.pin
<1>1. /\ \A m : File(m)' = File(m)
      /\ \A m, l : Needs(m, l)' <=> Needs(m, l)
      /\ \A m, l : Reaches(m, l)' <=> Reaches(m, l)
      /\ Needed' = Needed
  BY SameFiles
<1>2. /\ seen' = seen /\ DOMAIN dependencies = 1..N
      /\ N \in Nat /\ Len(dependencies') = N + 1
      /\ \A j \in 1..N : dependencies'[j] = dependencies[j]
      /\ dependencies'[N + 1] = p
      /\ DOMAIN frames' = 1..(n - 1)
      /\ \A d \in 1..(n - 1) : frames'[d] = frames[d]
      /\ \A k \in DOMAIN File(p.mod) : k < Top.at
  BY ReturnFacts
<1>3. /\ n \in Nat \ {0} /\ DOMAIN frames = 1..n /\ n \in 1..n /\ Top = frames[n] /\ p = frames[n].pin
      /\ p.mod \in Module
      /\ \A d \in 1..n : frames[d].pin.mod \in Module
  BY TopType DEF Frame, Pin
<1>4. \A j \in 1..N : dependencies[j].mod \in Module
  BY ListedType
<1> HIDE DEF n, N, p
<1>5. ModulesOf(dependencies)' = ModulesOf(dependencies) \cup {p.mod}
  <2>1. ModulesOf(dependencies)' = {dependencies'[j].mod : j \in 1..(N + 1)}
    BY <1>2 DEF ModulesOf
  <2>2. ModulesOf(dependencies) = {dependencies[j].mod : j \in 1..N}
    BY DEF ModulesOf, N
  <2> QED
    BY <1>2, <2>1, <2>2
<1>6. Met'
  <2>1. {frames[d].pin.mod : d \in DOMAIN frames} =
          {frames'[d].pin.mod : d \in DOMAIN frames'} \cup {p.mod}
    BY <1>2, <1>3
  <2> QED
    BY <1>2, <1>5, <2>1 DEF Found, Met
<1>7. Once'
  <2>1. \A c, d \in DOMAIN frames' : frames'[c].pin.mod = frames'[d].pin.mod => c = d
    BY <1>2, <1>3 DEF Found, Once
  <2>2. p.mod \notin ModulesOf(dependencies)
    BY <1>3 DEF Found, Once
  <2>3. \A j \in 1..N : dependencies[j].mod # p.mod
    BY <2>2 DEF ModulesOf, N
  <2>4. \A j, k \in 1..(N + 1) : dependencies'[j].mod = dependencies'[k].mod => j = k
    <3>1. \A j, k \in 1..N : dependencies[j].mod = dependencies[k].mod => j = k
      BY DEF Found, Once, N
    <3> QED
      BY <1>2, <2>3, <3>1
  <2>5. \A d \in DOMAIN frames' : frames'[d].pin.mod \notin ModulesOf(dependencies) \cup {p.mod}
    <3> SUFFICES ASSUME NEW d \in 1..(n - 1)
                 PROVE  frames'[d].pin.mod \notin ModulesOf(dependencies) \cup {p.mod}
      BY <1>2
    <3>1. frames'[d] = frames[d]
      BY <1>2
    <3>2. d \in DOMAIN frames /\ n \in DOMAIN frames /\ d # n
      BY <1>3
    <3>3. frames[d].pin.mod \notin ModulesOf(dependencies) /\ frames[d].pin.mod # frames[n].pin.mod
      BY <3>2 DEF Found, Once
    <3> QED
      BY <1>3, <3>1, <3>3
  <2> QED
    BY <1>2, <1>5, <2>1, <2>4, <2>5 DEF Once
<1>8. Chain'
  BY <1>1, <1>2, <1>3 DEF Found, Chain
<1>9. Explored'
  <2>1. \A l \in Module : Needs(p.mod, l) => l \in seen
    <3> SUFFICES ASSUME NEW l \in Module, Needs(p.mod, l) PROVE l \in seen
      OBVIOUS
    <3>1. PICK k \in DOMAIN File(p.mod) : File(p.mod)[k].mod = l
      BY <1>3, NeedsFile
    <3> QED
      BY <1>2, <1>3, <3>1 DEF Found, Explored
  <2>2. \A m \in ModulesOf(dependencies) \cup {p.mod}, l \in Module : Needs(m, l) => l \in seen
    BY <2>1 DEF Found, Explored
  <2>3. \A d \in DOMAIN frames' : \A k \in DOMAIN File(frames'[d].pin.mod) :
          k < frames'[d].at => File(frames'[d].pin.mod)[k].mod \in seen
    <3>1. ASSUME NEW d \in 1..(n - 1)
          PROVE  \A k \in DOMAIN File(frames[d].pin.mod) :
                   k < frames[d].at => File(frames[d].pin.mod)[k].mod \in seen
      BY <1>3 DEF Found, Explored
    <3> QED
      BY <1>2, <3>1
  <2> QED
    BY <1>1, <1>2, <1>5, <2>2, <2>3 DEF Explored
<1>10. Ordered'
  <2>1. ASSUME NEW j \in 1..(N + 1), NEW l \in Module, Needs(dependencies'[j].mod, l)
        PROVE  \/ \E k \in 1..j : dependencies'[k].mod = l
               \/ Reaches(l, dependencies'[j].mod)
    <3>1. CASE j \in 1..N
      <4>1. (\E k \in 1..j : dependencies[k].mod = l) \/ Reaches(l, dependencies[j].mod)
        BY <1>2, <2>1, <3>1 DEF Found, Ordered, N
      <4>2. \A k \in 1..j : k \in 1..N
        BY <1>2, <3>1
      <4> QED
        BY <1>2, <3>1, <4>1, <4>2
    <3>2. CASE j = N + 1
      <4>1. dependencies'[j] = p
        BY <1>2, <3>2
      <4>2. PICK k \in DOMAIN File(p.mod) : File(p.mod)[k].mod = l
        BY <1>3, <2>1, <4>1, NeedsFile
      <4>3. l \in seen
        BY <1>2, <1>3, <4>2 DEF Found, Explored
      <4>4. CASE l \in ModulesOf(dependencies)
        <5>1. PICK h \in 1..N : dependencies[h].mod = l
          BY <4>4 DEF ModulesOf, N
        <5> QED
          BY <1>2, <3>2, <5>1
      <4>5. CASE \E d \in 1..n : l = frames[d].pin.mod
        <5>1. PICK d \in 1..n : l = frames[d].pin.mod
          BY <4>5
        <5>2. CASE d = n
          BY <1>2, <1>3, <3>2, <4>1, <5>1, <5>2
        <5>3. CASE d < n
          BY <1>3, <4>1, <5>1, <5>3 DEF Found, Chain
        <5> QED
          BY <1>3, <5>1, <5>2, <5>3
      <4> QED
        BY <1>3, <4>3, <4>4, <4>5 DEF Found, Met
    <3> QED
      BY <1>2, <3>1, <3>2
  <2> QED
    BY <1>1, <1>2, <2>1 DEF Ordered
<1>11. Within'
  BY <1>1, <1>2 DEF Found, Within
<1>12. AskedFor'
  <2>1. \A q : Pinned(q) => Pinned(q)'
    BY <1>1, <1>2 DEF Pinned
  <2>2. ASSUME NEW q, q = p
        PROVE  Pinned(q)'
    BY <1>3, <2>1, <2>2 DEF Found, AskedFor
  <2>3. ASSUME NEW d \in DOMAIN frames', NEW q, q = frames'[d].pin
        PROVE  Pinned(q)'
    BY <1>2, <1>3, <2>1, <2>3 DEF Found, AskedFor
  <2>4. ASSUME NEW j \in 1..(N + 1), NEW q, q = dependencies'[j]
        PROVE  Pinned(q)'
    <3>1. CASE j \in 1..N
      BY <1>2, <2>1, <2>4, <3>1 DEF Found, AskedFor, N
    <3>2. CASE j = N + 1
      BY <1>2, <2>2, <2>4, <3>2
    <3> QED
      BY <1>2, <3>1, <3>2
  <2> QED
    BY <1>2, <2>3, <2>4 DEF AskedFor
<1> QED
  BY <1>6, <1>7, <1>8, <1>9, <1>10, <1>11, <1>12 DEF Found

-----------------------------------------------------------------------------
(* The loop over the list *)

LEMMA VisitedPin ==
  ASSUME TypeOK, Visiting
  PROVE  /\ i \in 1..Len(dependencies) /\ pin = dependencies[i] /\ pin \in Pin
         /\ pin.mod \in Module
BY ListedType DEF TypeOK, Visiting, pin

LEMMA MainFirstInit == Init => MainFirst
<1> SUFFICES ASSUME Init PROVE MainFirst
  OBVIOUS
<1>1. DOMAIN frames = {} /\ Len(dependencies) = 0
  BY EmptySeq DEF Init, NoWalk
<1> QED
  BY <1>1 DEF Init, MainFirst

LEMMA MainFirstStep ==
  ASSUME SyncInv, [Next]_vars
  PROVE  MainFirst'
<1>0. Main \in Module /\ work \in [Module -> Rev \cup {Absent}]
  BY DEF SyncInv, Module, TypeOK
<1> TypeOK /\ MainFirst
  BY DEF SyncInv
<1>1. CASE CheckoutMain
  BY <1>0, <1>1 DEF CheckoutMain, Checkout, MainFirst, input, loopVars, walkVars
<1>2. CASE Resolve
  <2>1. /\ frames' = <<Call([mod |-> Main, rev |-> HEAD])>> /\ dependencies' = <<>>
        /\ UNCHANGED <<ref, work>> /\ pc = "resolve"
    BY <1>2 DEF Resolve, WalkFrom, input
  <2>2. DOMAIN frames' = {1} /\ frames'[1].pin.rev = HEAD
    BY <2>1 DEF Call
  <2>3. Len(dependencies') = 0
    BY <2>1, EmptySeq
  <2> QED
    BY <2>1, <2>2, <2>3 DEF MainFirst
<1>3. CASE WalkOn
  <2>1. pc = "walk" /\ pc' = pc /\ UNCHANGED <<ref, work>>
    BY <1>3 DEF WalkOn, input
  <2>2. CASE SkipSeen(File(Top.pin.mod))
    BY <2>1, <2>2, SkipFacts, AdvancedFacts DEF MainFirst
  <2>3. CASE Descend(File(Top.pin.mod))
    <3>1. PICK q : q = File(Top.pin.mod)[Top.at]
      OBVIOUS
    <3>2. /\ q.mod \notin seen
          /\ dependencies' = dependencies /\ DOMAIN frames' = 1..(Len(frames) + 1)
          /\ \A d \in 1..Len(frames) : frames'[d] = Advanced[d]
          /\ frames'[Len(frames) + 1] = Call(q)
      BY <2>1, <2>3, <3>1, DescendFacts
    <3>0. frames'[Len(frames) + 1].pin = q
      BY <3>2 DEF Call
    <3>3. /\ Len(frames) \in Nat
          /\ \A d \in 1..Len(frames) : frames'[d].pin = frames[d].pin
      BY <2>1, <3>2, AdvancedFacts, TopType
    <3>4. q.mod # Main
      BY <2>1, <3>2 DEF SyncInv, Found, Within
    <3> QED
      BY <2>1, <3>0, <3>2, <3>3, <3>4, TopType DEF MainFirst
  <2> QED
    BY <1>3, <2>2, <2>3 DEF WalkOn
<1>4. CASE WalkReturns
  <2>1. pc = "walk" /\ Return(File(Top.pin.mod)) /\ UNCHANGED <<ref, work>>
    BY <1>4 DEF WalkReturns, input
  <2>2. Top = frames[Len(frames)] /\ Len(frames) \in DOMAIN frames
        /\ Len(frames) \in Nat /\ DOMAIN frames = 1..Len(frames)
    BY <2>1, TopType
  <2> QED
    BY <2>1, <2>2, ReturnFacts DEF MainFirst
<1>5. CASE GetDependency \/ CheckoutDependency
  <2>1. pin.mod # Main
    BY <1>5, VisitedPin DEF GetDependency, CheckoutDependency, LeftAlone, Visiting, MainFirst
  <2>2. work'[Main] = work[Main] /\ UNCHANGED <<ref, walkVars>>
        /\ pc = "visit"
    BY <1>0, <1>5, <2>1 DEF GetDependency, CheckoutDependency, Visiting, input
  <2> QED
    BY <2>2 DEF MainFirst, walkVars
<1>6. CASE Stop
  <2>1. frames' = <<>> /\ dependencies' = <<>> /\ pc' = "stopped"
    BY <1>6 DEF Stop
  <2>2. DOMAIN frames' = {} /\ Len(dependencies') = 0
    BY <2>1, EmptySeq
  <2> QED
    BY <2>1, <2>2 DEF MainFirst
<1>7. CASE AcquireMain \/ RunAgain
  BY <1>7 DEF AcquireMain, RunAgain, MainFirst, loopVars, walkVars
<1>8. CASE SkipHead \/ AlreadyThere \/ Visited \/ UNCHANGED vars
  <2>1. UNCHANGED <<ref, work, frames, dependencies>>
        /\ (pc' \in {"resolve", "walk", "visit", "done"} => pc \in {"resolve", "walk", "visit", "done"})
    BY <1>8 DEF SkipHead, AlreadyThere, Continue, Visited, vars, input, loopVars, walkVars
  <2> QED
    BY <2>1 DEF MainFirst
<1> QED
  BY <1>1, <1>2, <1>3, <1>4, <1>5, <1>6, <1>7, <1>8 DEF Next, Script

LEMMA SyncInit == Init => SyncInv
BY TypeInit, MainFirstInit DEF Init, SyncInv

LEMMA SyncStep == SyncInv /\ [Next]_vars => SyncInv'
<1> SUFFICES ASSUME SyncInv, [Next]_vars PROVE SyncInv'
  OBVIOUS
<1>0. TypeOK /\ TypeOK' /\ MainFirst'
  BY TypeStep, MainFirstStep DEF SyncInv
<1>1. CASE Resolve
  <2>1. Found' /\ pc' = "walk" /\ visit' = FALSE
    BY <1>0, <1>1, BeginFound DEF Resolve
  <2> QED
    BY <1>0, <2>1 DEF SyncInv
<1>2. CASE WalkOn
  <2>1. pc = "walk" /\ pc' = pc /\ UNCHANGED <<pins, work, visit>>
    BY <1>2 DEF WalkOn, input
  <2>2. Found /\ ~visit
    BY <2>1 DEF SyncInv
  <2>3. Found'
    BY <1>0, <1>2, <2>1, <2>2, SkipFound, DescendFound DEF WalkOn
  <2> QED
    BY <1>0, <2>1, <2>2, <2>3 DEF SyncInv
<1>3. CASE WalkReturns
  <2>1. /\ pc = "walk" /\ UNCHANGED <<pins, work, visit>> /\ Return(File(Top.pin.mod))
        /\ pc' \in {"walk", "visit"} /\ (pc' = "visit" => i' = Len(dependencies'))
    BY <1>3 DEF WalkReturns, LastIndex, input
  <2>2. Found /\ ~visit
    BY <2>1 DEF SyncInv
  <2>3. Found'
    BY <1>0, <2>1, <2>2, ReturnFound
  <2>4. pc' = "visit" => Settled'
    <3>1. Len(dependencies') \in Nat
      BY <1>0, <2>1, ReturnFacts
    <3> QED
      BY <2>1, <3>1 DEF Settled
  <2> QED
    BY <1>0, <2>1, <2>2, <2>3, <2>4 DEF SyncInv
<1>4. CASE SkipHead \/ AlreadyThere
  <2>1. /\ Visiting /\ pc = "visit" /\ i' = i - 1
        /\ UNCHANGED <<pins, work, pc, walkVars, visit>>
        /\ pin.rev \in {HEAD, work[pin.mod]}
    BY <1>4 DEF SkipHead, AlreadyThere, LeftAlone, Continue, Visiting, input
  <2>2. CASE visit
    BY <1>0, <2>1, <2>2 DEF SyncInv
  <2>3. CASE ~visit
    <3>1. Found'
      BY <2>1, <2>3, FoundSame DEF SyncInv
    <3>2. Settled'
      <4>1. Settled /\ i \in 1..Len(dependencies) /\ pin = dependencies[i]
        BY <1>0, <2>1, <2>3, VisitedPin DEF SyncInv
      <4>2. Len(dependencies) \in Nat /\ dependencies' = dependencies
        BY <1>0, <2>1, ListedType DEF walkVars
      <4>3. ASSUME NEW j \in 1..Len(dependencies), j > i - 1
            PROVE  dependencies[j].rev \in {HEAD, work[dependencies[j].mod]}
        <5>1. j > i \/ j = i
          BY <4>1, <4>2, <4>3
        <5> QED
          BY <2>1, <4>1, <5>1 DEF Settled
      <4> QED
        BY <2>1, <4>2, <4>3 DEF Settled
    <3> QED
      BY <1>0, <2>1, <3>1, <3>2 DEF SyncInv
  <2> QED
    BY <1>0, <2>2, <2>3 DEF TypeOK
<1>5. CASE GetDependency
  BY <1>0, <1>5 DEF GetDependency, Visiting, RevisitAfterGet, SyncInv
<1>6. CASE Visited
  <2>1. pc = "visit" /\ i = 0 /\ UNCHANGED <<pins, work, walkVars, i, visit>>
        /\ pc' = IF visit THEN "resolve" ELSE "done"
    BY <1>6 DEF Visited, input, loopVars
  <2>2. CASE visit
    BY <1>0, <2>1, <2>2 DEF SyncInv
  <2>3. CASE ~visit
    <3>1. Found'
      BY <2>1, <2>3, FoundSame DEF SyncInv
    <3>2. Settled'
      BY <2>1, <2>3 DEF SyncInv, Settled, walkVars
    <3> QED
      BY <1>0, <2>1, <2>3, <3>1, <3>2 DEF SyncInv
  <2> QED
    BY <1>0, <2>2, <2>3 DEF TypeOK
<1>7. CASE AcquireMain \/ CheckoutMain \/ CheckoutDependency \/ Stop \/ RunAgain
  <2>1. pc' \notin {"walk", "visit", "done"}
    BY <1>7 DEF AcquireMain, CheckoutMain, CheckoutDependency, Stop, RunAgain
  <2> QED
    BY <1>0, <2>1 DEF SyncInv
<1>8. CASE UNCHANGED vars
  <2>1. UNCHANGED <<pins, work, pc, walkVars, i, visit>>
    BY <1>8 DEF vars, input, loopVars
  <2>2. pc \in {"walk", "visit", "done"} /\ ~visit => Found'
    BY <2>1, FoundSame DEF SyncInv
  <2>3. pc \in {"visit", "done"} /\ ~visit => Settled'
    BY <2>1 DEF SyncInv, Settled, walkVars
  <2> QED
    BY <1>0, <2>1, <2>2, <2>3 DEF SyncInv
<1> QED
  BY <1>1, <1>2, <1>3, <1>4, <1>5, <1>6, <1>7, <1>8 DEF Next, Script

LEMMA SyncInvariance == Spec => []SyncInv
BY SyncInit, SyncStep, PTL DEF Spec

(* Once the walk is over, what it lists is what Main needs.                *)
LEMMA ListIsNeeded ==
  ASSUME SyncInv, pc \in {"visit", "done"}, ~visit
  PROVE  /\ Found /\ seen = ModulesOf(dependencies) /\ seen = Needed
<1>1. Found /\ TypeOK
  BY DEF SyncInv
<1>2. DOMAIN frames = {}
  BY <1>1, EmptySeq DEF TypeOK
<1>3. seen = ModulesOf(dependencies)
  BY <1>1, <1>2 DEF Found, Met
<1>4. Needed \subseteq seen
  <2>1. seen \in SUBSET Module /\ Main \in seen
    BY <1>1 DEF TypeOK, Found, Within
  <2>2. \A m \in seen, n \in Module : Needs(m, n) => n \in seen
    BY <1>1, <1>3 DEF Found, Explored
  <2> QED
    BY <2>1, <2>2, NeededIsLeast
<1> QED
  BY <1>1, <1>3, <1>4 DEF Found, Within

(* Whatever the files say: the walk lists each repository that is needed,  *)
(* and no other, once, and after what it needs unless the two need each    *)
(* other.                                                                  *)
THEOREM WalkOrdered == Spec => []DependenciesFirst
<1>1. SyncInv => DependenciesFirst
  <2> SUFFICES ASSUME SyncInv, pc \in {"visit", "done"}, ~visit
               PROVE  /\ ModulesOf(dependencies) = Needed
                      /\ \A j, k \in 1..Len(dependencies) :
                           /\ dependencies[j].mod = dependencies[k].mod => j = k
                           /\ j < k /\ Needs(dependencies[j].mod, dependencies[k].mod)
                                => Reaches(dependencies[k].mod, dependencies[j].mod)
    BY DEF DependenciesFirst
  <2>1. Found /\ ModulesOf(dependencies) = Needed
    BY ListIsNeeded
  <2>2. Len(dependencies) \in Nat /\ \A j \in 1..Len(dependencies) : dependencies[j].mod \in Module
    BY ListedType DEF SyncInv
  <2>3. ASSUME NEW j \in 1..Len(dependencies), NEW k \in 1..Len(dependencies), j < k,
               Needs(dependencies[j].mod, dependencies[k].mod)
        PROVE  Reaches(dependencies[k].mod, dependencies[j].mod)
    <3> SUFFICES ASSUME NEW h \in 1..j, dependencies[h].mod = dependencies[k].mod PROVE FALSE
      BY <2>1, <2>2, <2>3 DEF Found, Ordered
    <3>1. h \in 1..Len(dependencies) /\ h # k
      BY <2>2, <2>3
    <3> QED
      BY <2>1, <3>1 DEF Found, Once
  <2> QED
    BY <2>1, <2>3 DEF Found, Once
<1> QED
  BY <1>1, SyncInvariance, PTL

(* When the script says it is finished, every repository that is needed by *)
(* the commits checked out is at a commit one of them pins, whatever was   *)
(* checked out before, however the pins disagree and wherever earlier runs *)
(* were cut short.                                                         *)
THEOREM FinishedAsPinned == Spec => []SyncedAsPinned
<1>1. SyncInv => SyncedAsPinned
  <2> SUFFICES ASSUME SyncInv, pc = "done" PROVE SyncedAsPinned
    BY DEF SyncedAsPinned
  <2>1. ~visit /\ i = 0 /\ Settled /\ TypeOK
    BY DEF SyncInv
  <2>2. Found /\ seen = ModulesOf(dependencies) /\ seen = Needed
    BY <2>1, ListIsNeeded
  <2>3. ref # HEAD => work[Main] = ref
    BY DEF SyncInv, MainFirst
  <2>4. ASSUME NEW m \in Needed \ {Main}
        PROVE  \E k \in Needed : \E j \in DOMAIN File(k) :
                 File(k)[j].mod = m /\ File(k)[j].rev \in {HEAD, work[m]}
    <3>1. PICK j \in 1..Len(dependencies) : dependencies[j].mod = m
      BY <2>2, <2>4 DEF ModulesOf
    <3>2. PICK k \in seen : \E h \in DOMAIN File(k) : File(k)[h] = dependencies[j]
      BY <2>2, <2>4, <3>1 DEF Found, AskedFor, Pinned
    <3>3. dependencies[j].rev \in {HEAD, work[m]}
      <4>1. j > i
        BY <2>1
      <4> QED
        BY <2>1, <3>1, <4>1 DEF Settled
    <3> QED
      BY <2>2, <3>1, <3>2, <3>3
  <2> QED
    BY <2>3, <2>4 DEF SyncedAsPinned
<1> QED
  BY <1>1, SyncInvariance, PTL

-----------------------------------------------------------------------------
(* The walk on paper                                                       *)

Less == {ss \in Nat \X Nat : ss[1] < ss[2]}

LEMMA LessWellFounded == IsWellFoundedOn(Less, Nat)
BY NatLessThanWellFounded, Zenon DEF OpToRel, Less

(* Induction over the numbers, for a set of them. *)
LEMMA AllNumbers ==
  ASSUME NEW S, 0 \in S, \A n \in Nat : n \in S => n + 1 \in S
  PROVE  Nat \subseteq S
<1> SUFFICES ASSUME Nat \ S # {} PROVE FALSE
  OBVIOUS
<1>1. Nat \ S \subseteq Nat
  OBVIOUS
<1>2. PICK m \in Nat \ S : \A k \in Nat \ S : ~(<<k, m>> \in Less)
  <2> DEFINE T == Nat \ S
  <2>1. T \subseteq Nat /\ T # {}
    OBVIOUS
  <2> HIDE DEF T
  <2>2. \E m \in T : \A k \in T : ~(<<k, m>> \in Less)
    BY <2>1, LessWellFounded, WFMin
  <2> QED
    BY <2>2 DEF T
<1>3. m \in Nat /\ m # 0 /\ m - 1 \in Nat
  OBVIOUS
<1>4. <<m - 1, m>> \in Less
  BY <1>3 DEF Less
<1>5. m - 1 \in S
  BY <1>2, <1>3, <1>4
<1>6. (m - 1) + 1 = m
  BY <1>3
<1>7. m \in S
  BY <1>3, <1>5, <1>6
<1> QED
  BY <1>7

(* The walk step by step is defined for every number of steps. *)
LEMMA WalkedSteps ==
  ASSUME NEW files
  PROVE  /\ Walked(files)[0] = WalkStart
         /\ \A n \in Nat : Walked(files)[n + 1] = WalkStep(files, Walked(files)[n])
<1> DEFINE After(g, n) == IF n = 0 THEN WalkStart ELSE WalkStep(files, g[n - 1])
           IsWalk(g, k) == g = [n \in 0..k |-> After(g, n)]
           W(k) == CHOOSE g : IsWalk(g, k)
           w == [n \in Nat |-> W(n)[n]]
<1>1. \A g, k : IsWalk(g, k) => \A n \in 0..k : g[n] = After(g, n)
  <2> SUFFICES ASSUME NEW g, NEW k, IsWalk(g, k), NEW n \in 0..k PROVE g[n] = After(g, n)
    OBVIOUS
  <2> DEFINE h == [c \in 0..k |-> After(g, c)]
  <2>1. h[n] = After(g, n)
    OBVIOUS
  <2>2. g = h
    OBVIOUS
  <2> HIDE DEF h, After
  <2> QED
    BY <2>1, <2>2
<1>2. \A k \in Nat : \E g : IsWalk(g, k)
  <2> DEFINE S == {k \in Nat : \E g : IsWalk(g, k)}
  <2>1. 0 \in S
    <3> DEFINE g == [n \in 0..0 |-> WalkStart]
    <3>1. g = [n \in 0..0 |-> After(g, n)]
      OBVIOUS
    <3>2. IsWalk(g, 0)
      BY <3>1
    <3> HIDE DEF IsWalk
    <3> QED
      BY <3>2
  <2>2. ASSUME NEW k \in Nat, k \in S PROVE k + 1 \in S
    <3>1. PICK g : IsWalk(g, k)
      BY <2>2
    <3> DEFINE h == [n \in 0..(k + 1) |-> IF n = 0 THEN WalkStart ELSE WalkStep(files, g[n - 1])]
    <3>2. \A n \in 0..k : h[n] = g[n]
      <4>1. \A n \in 0..k : g[n] = After(g, n)
        BY <1>1, <3>1
      <4>2. \A n \in 0..k : h[n] = After(g, n)
        OBVIOUS
      <4> QED
        BY <4>1, <4>2
    <3>3. \A n \in 0..(k + 1) : After(g, n) = After(h, n)
      <4> SUFFICES ASSUME NEW n \in 0..(k + 1) PROVE After(g, n) = After(h, n)
        OBVIOUS
      <4>1. CASE n = 0
        BY <4>1
      <4>2. CASE n # 0
        <5>1. n - 1 \in 0..k
          BY <4>2
        <5>2. h[n - 1] = g[n - 1]
          BY <3>2, <5>1
        <5> HIDE DEF h
        <5> QED
          BY <4>2, <5>2
      <4> QED
        BY <4>1, <4>2
    <3>4. h = [n \in 0..(k + 1) |-> After(h, n)]
      <4>1. h = [n \in 0..(k + 1) |-> After(g, n)]
        OBVIOUS
      <4> HIDE DEF h, After
      <4> QED
        BY <3>3, <4>1
    <3>5. IsWalk(h, k + 1)
      BY <3>4
    <3> HIDE DEF IsWalk
    <3> QED
      BY <3>5
  <2> HIDE DEF S
  <2>3. Nat \subseteq S
    BY <2>1, <2>2, AllNumbers
  <2> QED
    BY <2>3 DEF S
<1>3. \A k \in Nat : IsWalk(W(k), k)
  <2> HIDE DEF IsWalk
  <2> QED
    BY <1>2
<1> HIDE DEF W
<1>4. \A n \in Nat : \A k \in Nat : n <= k => W(k)[n] = W(n)[n]
  <2> DEFINE S == {n \in Nat : \A k \in Nat : n <= k => W(k)[n] = W(n)[n]}
  <2>1. 0 \in S
    <3>1. \A k \in Nat : W(k)[0] = WalkStart
      <4> SUFFICES ASSUME NEW k \in Nat PROVE W(k)[0] = WalkStart
        OBVIOUS
      <4>1. 0 \in 0..k /\ W(k)[0] = After(W(k), 0)
        <5> HIDE DEF After, IsWalk
        <5> QED
          BY <1>1, <1>3
      <4> QED
        BY <4>1
    <3> QED
      BY <3>1
  <2>2. ASSUME NEW n \in Nat, n \in S PROVE n + 1 \in S
    <3>1. \A k \in Nat : n + 1 <= k => W(k)[n + 1] = WalkStep(files, W(n)[n])
      <4> SUFFICES ASSUME NEW k \in Nat, n + 1 <= k
                   PROVE  W(k)[n + 1] = WalkStep(files, W(n)[n])
        OBVIOUS
      <4>1. n + 1 \in 0..k /\ W(k)[n + 1] = After(W(k), n + 1)
        <5> HIDE DEF After, IsWalk
        <5> QED
          BY <1>1, <1>3
      <4>2. W(k)[n] = W(n)[n]
        BY <2>2
      <4>3. (n + 1) - 1 = n /\ n + 1 # 0
        OBVIOUS
      <4> QED
        BY <4>1, <4>2, <4>3
    <3>2. W(n + 1)[n + 1] = WalkStep(files, W(n)[n])
      BY <3>1
    <3> QED
      BY <3>1, <3>2
  <2> HIDE DEF S
  <2>3. Nat \subseteq S
    BY <2>1, <2>2, AllNumbers
  <2> QED
    BY <2>3 DEF S
<1>5. w[0] = WalkStart
  <2>1. 0 \in 0..0 /\ W(0)[0] = After(W(0), 0)
    <3> HIDE DEF After, IsWalk
    <3> QED
      BY <1>1, <1>3
  <2> QED
    BY <2>1
<1>6. \A n \in Nat : w[n + 1] = WalkStep(files, w[n])
  <2> SUFFICES ASSUME NEW n \in Nat PROVE w[n + 1] = WalkStep(files, w[n])
    OBVIOUS
  <2>1. n + 1 \in 0..(n + 1) /\ W(n + 1)[n + 1] = After(W(n + 1), n + 1)
    <3> HIDE DEF After, IsWalk
    <3> QED
      BY <1>1, <1>3
  <2>2. W(n + 1)[n] = W(n)[n]
    BY <1>4
  <2>3. (n + 1) - 1 = n /\ n + 1 # 0 /\ n + 1 \in Nat
    OBVIOUS
  <2>4. W(n + 1)[n + 1] = WalkStep(files, W(n)[n])
    BY <2>1, <2>2, <2>3
  <2> QED
    BY <2>3, <2>4
<1>7. w = [n \in Nat |-> IF n = 0 THEN WalkStart ELSE WalkStep(files, w[n - 1])]
  <2>1. \A n \in Nat : w[n] = IF n = 0 THEN WalkStart ELSE WalkStep(files, w[n - 1])
    <3> SUFFICES ASSUME NEW n \in Nat, n # 0 PROVE w[n] = WalkStep(files, w[n - 1])
      BY <1>5
    <3>1. n - 1 \in Nat /\ (n - 1) + 1 = n
      OBVIOUS
    <3> HIDE DEF w
    <3>2. w[(n - 1) + 1] = WalkStep(files, w[n - 1])
      BY <1>6, <3>1
    <3> QED
      BY <3>1, <3>2
  <2>2. w = [n \in Nat |-> w[n]]
    OBVIOUS
  <2> HIDE DEF w
  <2> QED
    BY <2>1, <2>2
<1> HIDE DEF w
<1>8. Walked(files) = [n \in Nat |-> IF n = 0 THEN WalkStart ELSE WalkStep(files, Walked(files)[n - 1])]
  <2>1. \E v : v = [n \in Nat |-> IF n = 0 THEN WalkStart ELSE WalkStep(files, v[n - 1])]
    BY <1>7
  <2> QED
    BY <2>1, Zenon DEF Walked
<1> DEFINE v == Walked(files)
<1>9. v = [n \in Nat |-> IF n = 0 THEN WalkStart ELSE WalkStep(files, v[n - 1])]
  BY <1>8
<1> HIDE DEF v
<1>10. v[0] = WalkStart
  BY <1>9
<1>11. \A n \in Nat : v[n + 1] = WalkStep(files, v[n])
  <2> SUFFICES ASSUME NEW n \in Nat PROVE v[n + 1] = WalkStep(files, v[n])
    OBVIOUS
  <2>1. n + 1 \in Nat /\ n + 1 # 0 /\ (n + 1) - 1 = n
    OBVIOUS
  <2> QED
    BY <1>9, <2>1
<1> QED
  BY <1>10, <1>11 DEF v

Files == [Module -> [Rev \cup {HEAD} -> Seq(Pin)]]

OnPaper == [met : SUBSET Module, calls : Seq(Frame), list : Seq(Pin)]

PinsOf(w) ==
  {w.list[j] : j \in 1..Len(w.list)} \cup {w.calls[d].pin : d \in 1..Len(w.calls)}

LEMMA WalkStartType == WalkStart \in OnPaper
<1>1. MainAtHEAD \in Pin /\ {Main} \subseteq Module
  BY DEF MainAtHEAD, Pin, Module
<1>2. Call(MainAtHEAD) \in Frame
  BY <1>1 DEF Call, Frame
<1>3. <<Call(MainAtHEAD)>> \in Seq(Frame) /\ <<>> \in Seq(Pin)
  BY <1>2, EmptySeq
<1> QED
  BY <1>1, <1>3 DEF WalkStart, OnPaper

(* A call is a frame for its pin. *)
LEMMA CallIsFrame ==
  ASSUME NEW p \in Pin
  PROVE  Call(p) \in Frame
BY DEF Call, Frame

(* A call that goes on is still a frame for its pin. *)
LEMMA FrameGoesOn ==
  ASSUME NEW f \in Frame
  PROVE  [f EXCEPT !.at = @ + 1] \in Frame /\ [f EXCEPT !.at = @ + 1].pin = f.pin
BY DEF Frame

(* A step of the walk on paper, at the topmost call: what it does in each  *)
(* of its cases, and that it forgets no pin it came across.                *)
LEMMA WalkStepFacts ==
  ASSUME NEW files \in Files, NEW w \in OnPaper, NEW n, n = Len(w.calls), n # 0,
         NEW top, top = w.calls[n], NEW file, file = files[top.pin.mod][top.pin.rev]
  PROVE  /\ n \in Nat \ {0} /\ top \in Frame /\ top.pin \in PinsOf(w) /\ file \in Seq(Pin)
         /\ WalkStep(files, w) \in OnPaper
         /\ PinsOf(w) \subseteq PinsOf(WalkStep(files, w))
<1> DEFINE next == WalkStep(files, w)
           q == file[top.at]
           on == [w.calls EXCEPT ![n].at = @ + 1]
<1>1. /\ w.met \subseteq Module /\ w.calls \in Seq(Frame) /\ w.list \in Seq(Pin)
      /\ w = [met |-> w.met, calls |-> w.calls, list |-> w.list]
  BY DEF OnPaper
<1>2. /\ n \in Nat \ {0} /\ DOMAIN w.calls = 1..n /\ \A d \in 1..n : w.calls[d] \in Frame
  BY <1>1, LenProperties, ElementOfSeq
<1>3. top \in Frame /\ top.pin \in Pin /\ top.at \in Nat \ {0}
  BY <1>2 DEF Frame
<1>4. top.pin \in PinsOf(w)
  BY <1>2 DEF PinsOf
<1>5. file \in Seq(Pin) /\ Len(file) \in Nat
  <2>1. top.pin.mod \in Module /\ top.pin.rev \in Rev \cup {HEAD}
    BY <1>3 DEF Pin
  <2>2. file \in Seq(Pin)
    BY <2>1 DEF Files
  <2> QED
    BY <2>2, LenProperties
<1>6. /\ on \in Seq(Frame) /\ Len(on) = n
      /\ \A d \in 1..n : on[d].pin = w.calls[d].pin
  <2>1. [top EXCEPT !.at = @ + 1] \in Frame /\ [top EXCEPT !.at = @ + 1].pin = top.pin
    BY <1>3, FrameGoesOn
  <2>2. on = [w.calls EXCEPT ![n] = [top EXCEPT !.at = @ + 1]]
    OBVIOUS
  <2>3. on \in Seq(Frame) /\ Len(on) = n
    BY <1>1, <1>2, <2>1, <2>2, ExceptSeq
  <2>4. \A d \in 1..n : on[d] = IF d = n THEN [top EXCEPT !.at = @ + 1] ELSE w.calls[d]
    BY <1>2, <2>2
  <2> QED
    BY <2>1, <2>3, <2>4
<1>7. next =
        IF top.at > Len(file)
          THEN [w EXCEPT !.calls = SubSeq(@, 1, n - 1), !.list = Append(@, top.pin)]
        ELSE IF q.mod \in w.met THEN [w EXCEPT !.calls = on]
        ELSE [w EXCEPT !.met = @ \cup {q.mod}, !.calls = Append(on, Call(q))]
  BY DEF WalkStep
<1> HIDE DEF on, next
<1>8. CASE top.at > Len(file)
  <2> DEFINE b == n - 1
             below == SubSeq(w.calls, 1, b)
             list == Append(w.list, top.pin)
  <2>1. next = [met |-> w.met, calls |-> below, list |-> list]
    BY <1>1, <1>7, <1>8
  <2>2. b \in Nat /\ b + 1 = n
    BY <1>2
  <2>3. below \in Seq(Frame) /\ Len(below) = b /\ \A d \in 1..b : below[d] = w.calls[d]
    <3> DEFINE whole == w.calls
    <3>1. whole \in Seq(Frame) /\ \A d \in 1..b : whole[d] \in Frame
      BY <1>1, <1>2
    <3>2. below = SubSeq(whole, 1, b)
      OBVIOUS
    <3> HIDE DEF b, whole, below
    <3>3. /\ SubSeq(whole, 1, b) \in Seq(Frame)
          /\ Len(SubSeq(whole, 1, b)) = (IF 1 <= b THEN b - 1 + 1 ELSE 0)
          /\ \A d \in 1..(b - 1 + 1) : SubSeq(whole, 1, b)[d] = whole[1 + d - 1]
      BY <2>2, <3>1, SubSeqProperties
    <3>4. /\ below \in Seq(Frame) /\ Len(below) = b
          /\ \A d \in 1..b : below[d] = whole[d]
      BY <2>2, <3>2, <3>3
    <3> QED
      BY <3>4 DEF whole
  <2>4. /\ list \in Seq(Pin) /\ Len(list) = Len(w.list) + 1 /\ Len(w.list) \in Nat
        /\ \A j \in 1..Len(w.list) : list[j] = w.list[j]
        /\ list[Len(w.list) + 1] = top.pin
    <3> DEFINE was == w.list
               p == top.pin
    <3>1. was \in Seq(Pin) /\ p \in Pin /\ list = Append(was, p)
      BY <1>1, <1>3
    <3> HIDE DEF was, p, list
    <3>2. Len(was) \in Nat
      BY <3>1, LenProperties
    <3>3. /\ Append(was, p) \in Seq(Pin) /\ Len(Append(was, p)) = Len(was) + 1
          /\ \A j \in 1..Len(was) : Append(was, p)[j] = was[j]
          /\ Append(was, p)[Len(was) + 1] = p
      BY <3>1, AppendProperties
    <3> QED
      BY <3>1, <3>2, <3>3 DEF was, p
  <2> HIDE DEF below, list, b
  <2>5. next \in OnPaper
    BY <1>1, <2>1, <2>3, <2>4 DEF OnPaper
  <2>6. ASSUME NEW p \in PinsOf(w) PROVE p \in PinsOf(next)
    <3>1. CASE \E j \in 1..Len(w.list) : p = w.list[j]
      <4>1. PICK j \in 1..Len(w.list) : p = w.list[j]
        BY <3>1
      <4>2. j \in 1..Len(list) /\ p = list[j]
        BY <2>4, <4>1
      <4> QED
        BY <2>1, <4>2 DEF PinsOf
    <3>2. CASE \E d \in 1..n : p = w.calls[d].pin
      <4>1. PICK d \in 1..n : p = w.calls[d].pin
        BY <3>2
      <4>2. CASE d = n
        <5>1. Len(w.list) + 1 \in 1..Len(list) /\ p = list[Len(w.list) + 1]
          BY <2>4, <4>1, <4>2
        <5> QED
          BY <2>1, <5>1 DEF PinsOf
      <4>3. CASE d # n
        <5>1. d \in 1..Len(below)
          BY <2>2, <2>3, <4>3
        <5>2. p = below[d].pin
          BY <2>3, <4>1, <5>1
        <5> QED
          BY <2>1, <5>1, <5>2 DEF PinsOf
      <4> QED
        BY <4>2, <4>3
    <3> QED
      BY <2>6, <3>1, <3>2 DEF PinsOf
  <2> QED
    BY <1>2, <1>3, <1>4, <1>5, <2>5, <2>6 DEF next
<1>9. CASE ~(top.at > Len(file)) /\ q.mod \in w.met
  <2>1. next = [met |-> w.met, calls |-> on, list |-> w.list]
    BY <1>1, <1>7, <1>9
  <2>2. next \in OnPaper
    BY <1>1, <1>6, <2>1 DEF OnPaper
  <2>3. PinsOf(w) \subseteq PinsOf(next)
    BY <1>6, <2>1 DEF PinsOf
  <2> QED
    BY <1>2, <1>3, <1>4, <1>5, <2>2, <2>3 DEF next
<1>10. CASE ~(top.at > Len(file)) /\ q.mod \notin w.met
  <2> DEFINE calls == Append(on, Call(q))
  <2>1. next = [met |-> w.met \cup {q.mod}, calls |-> calls, list |-> w.list]
    BY <1>1, <1>7, <1>10
  <2>2. q \in Pin /\ q.mod \in Module
    <3>1. top.at \in 1..Len(file)
      <4>1. ~(top.at > Len(file))
        BY <1>10
      <4>2. top.at \in Nat \ {0} /\ Len(file) \in Nat
        BY <1>3, <1>5
      <4> QED
        BY ONLY <4>1, <4>2
    <3>2. q \in Pin
      BY <1>5, <3>1, ElementOfSeq
    <3> QED
      BY <3>2 DEF Pin
  <2>3. Call(q) \in Frame
    BY <2>2, CallIsFrame
  <2>4. calls \in Seq(Frame) /\ Len(calls) = n + 1 /\ \A d \in 1..n : calls[d] = on[d]
    <3> DEFINE call == Call(q)
    <3>1. on \in Seq(Frame) /\ call \in Frame
      BY <1>6, <2>3
    <3> HIDE DEF call
    <3>2. /\ Append(on, call) \in Seq(Frame) /\ Len(Append(on, call)) = Len(on) + 1
          /\ \A d \in 1..Len(on) : Append(on, call)[d] = on[d]
      BY <3>1, AppendProperties
    <3>3. calls = Append(on, call)
      BY DEF call
    <3> QED
      BY <1>6, <3>2, <3>3
  <2> HIDE DEF calls
  <2>5. next \in OnPaper
    BY <1>1, <2>1, <2>2, <2>4 DEF OnPaper
  <2>6. \A d \in 1..n : d \in 1..Len(calls) /\ calls[d].pin = w.calls[d].pin
    BY <1>2, <1>6, <2>4
  <2>7. PinsOf(w) \subseteq PinsOf(next)
    BY <2>1, <2>6 DEF PinsOf
  <2> QED
    BY <1>2, <1>3, <1>4, <1>5, <2>5, <2>7 DEF next
<1> QED
  BY <1>8, <1>9, <1>10

LEMMA WalkStepSafe ==
  ASSUME NEW files \in Files, NEW w \in OnPaper
  PROVE  /\ WalkStep(files, w) \in OnPaper
         /\ PinsOf(w) \subseteq PinsOf(WalkStep(files, w))
<1>1. CASE Len(w.calls) = 0
  BY <1>1 DEF WalkStep
<1>2. CASE Len(w.calls) # 0
  BY <1>2, WalkStepFacts
<1> QED
  BY <1>1, <1>2

(* A step reads the file of the topmost call only. *)
LEMMA WalkStepReads ==
  ASSUME NEW f \in Files, NEW g \in Files, NEW w \in OnPaper,
         \A p \in PinsOf(w) : f[p.mod][p.rev] = g[p.mod][p.rev]
  PROVE  WalkStep(f, w) = WalkStep(g, w)
<1>1. CASE Len(w.calls) = 0
  BY <1>1 DEF WalkStep
<1>2. CASE Len(w.calls) # 0
  <2> DEFINE top == w.calls[Len(w.calls)]
  <2>1. top.pin \in PinsOf(w)
    BY <1>2, WalkStepFacts
  <2>2. f[top.pin.mod][top.pin.rev] = g[top.pin.mod][top.pin.rev]
    BY <2>1
  <2> QED
    BY <2>2 DEF WalkStep
<1> QED
  BY <1>1, <1>2

LEMMA WalkedOnPaper ==
  ASSUME NEW files \in Files, NEW n \in Nat
  PROVE  Walked(files)[n] \in OnPaper
<1> DEFINE S == {k \in Nat : Walked(files)[k] \in OnPaper}
<1>1. 0 \in S
  BY WalkedSteps, WalkStartType
<1>2. ASSUME NEW k \in Nat, k \in S PROVE k + 1 \in S
  <2>1. Walked(files)[k + 1] = WalkStep(files, Walked(files)[k])
    BY WalkedSteps
  <2> QED
    BY <1>2, <2>1, WalkStepSafe
<1> HIDE DEF S
<1>3. n \in S
  BY <1>1, <1>2, AllNumbers
<1> QED
  BY <1>3 DEF S

(* Two sets of files that agree on what a walk came across make it alike.  *)
LEMMA WalksAgree ==
  ASSUME NEW f \in Files, NEW g \in Files, NEW n \in Nat,
         \A p \in PinsOf(Walked(f)[n]) : f[p.mod][p.rev] = g[p.mod][p.rev]
  PROVE  Walked(g)[n] = Walked(f)[n]
<1> DEFINE Agree(k) == \A p \in PinsOf(Walked(f)[k]) : f[p.mod][p.rev] = g[p.mod][p.rev]
           S == {k \in Nat : Agree(k) => Walked(g)[k] = Walked(f)[k]}
<1>1. 0 \in S
  BY WalkedSteps
<1>2. ASSUME NEW k \in Nat, k \in S PROVE k + 1 \in S
  <2>1. /\ Walked(f)[k + 1] = WalkStep(f, Walked(f)[k])
        /\ Walked(g)[k + 1] = WalkStep(g, Walked(g)[k])
    BY WalkedSteps
  <2>2. SUFFICES ASSUME Agree(k + 1) PROVE Walked(g)[k + 1] = Walked(f)[k + 1]
    OBVIOUS
  <2>3. Walked(f)[k] \in OnPaper
    BY WalkedOnPaper
  <2>4. Agree(k)
    <3>1. PinsOf(Walked(f)[k]) \subseteq PinsOf(Walked(f)[k + 1])
      BY <2>1, <2>3, WalkStepSafe
    <3> QED
      BY <2>2, <3>1
  <2>5. Walked(g)[k] = Walked(f)[k]
    BY <1>2, <2>4
  <2>6. WalkStep(f, Walked(f)[k]) = WalkStep(g, Walked(f)[k])
    BY <2>3, <2>4, WalkStepReads
  <2> QED
    BY <2>1, <2>5, <2>6
<1> HIDE DEF S
<1>3. n \in S
  BY <1>1, <1>2, AllNumbers
<1> QED
  BY <1>3 DEF S

(* Walks over the same files that have ended have ended alike.             *)
LEMMA FinishedWalks ==
  ASSUME NEW files \in Files, NEW m \in Nat, NEW n \in Nat,
         Walked(files)[m].calls = <<>>, Walked(files)[n].calls = <<>>
  PROVE  Walked(files)[m] = Walked(files)[n]
<1>1. ASSUME NEW a \in Nat, Walked(files)[a].calls = <<>>, NEW d \in Nat
      PROVE  Walked(files)[a + d] = Walked(files)[a]
  <2> DEFINE S == {k \in Nat : Walked(files)[a + k] = Walked(files)[a]}
  <2>1. 0 \in S
    OBVIOUS
  <2>2. ASSUME NEW k \in Nat, k \in S PROVE k + 1 \in S
    <3>1. a + k \in Nat /\ (a + k) + 1 = a + (k + 1)
      OBVIOUS
    <3>2. Walked(files)[(a + k) + 1] = WalkStep(files, Walked(files)[a + k])
      BY <3>1, WalkedSteps
    <3>3. Walked(files)[a + k] = Walked(files)[a]
      BY <2>2
    <3>4. Len(Walked(files)[a].calls) = 0
      BY <1>1, EmptySeq
    <3>5. WalkStep(files, Walked(files)[a]) = Walked(files)[a]
      BY <3>4 DEF WalkStep
    <3> QED
      BY <3>1, <3>2, <3>3, <3>5
  <2> HIDE DEF S
  <2>3. d \in S
    BY <2>1, <2>2, AllNumbers
  <2> QED
    BY <2>3 DEF S
<1>2. CASE m <= n
  <2>1. n - m \in Nat /\ m + (n - m) = n
    BY <1>2
  <2> QED
    BY <1>1, <2>1
<1>3. CASE n <= m
  <2>1. m - n \in Nat /\ n + (m - n) = m
    BY <1>3
  <2> QED
    BY <1>1, <2>1
<1> QED
  BY <1>2, <1>3

LEMMA StepsMember ==
  ASSUME NEW files, NEW list
  PROVE  \A x : x \in Steps(files, list) <=>
           \E j \in 1..Len(list) : \E k \in 1..(Len(files[list[j].mod][list[j].rev]) + 1) :
             x = <<list[j], k>>
<1> DEFINE At(p) == {p} \X (1..(Len(files[p.mod][p.rev]) + 1))
<1>1. Steps(files, list) = UNION {At(p) : p \in {list[j] : j \in 1..Len(list)}}
  BY DEF Steps
<1>2. \A x, p : x \in At(p) <=> \E k \in 1..(Len(files[p.mod][p.rev]) + 1) : x = <<p, k>>
  OBVIOUS
<1> HIDE DEF At
<1>3. \A x : x \in Steps(files, list) <=> \E j \in 1..Len(list) : x \in At(list[j])
  BY <1>1
<1> QED
  BY <1>2, <1>3

LEMMA StepsFinite ==
  ASSUME NEW files \in Files, NEW list \in Seq(Pin)
  PROVE  IsFiniteSet(Steps(files, list))
<1> DEFINE At(p) == {p} \X (1..(Len(files[p.mod][p.rev]) + 1))
           Asked == {list[j] : j \in 1..Len(list)}
           Parts == {At(p) : p \in Asked}
<1>1. Len(list) \in Nat /\ \A j \in 1..Len(list) : list[j] \in Pin
  BY LenProperties, ElementOfSeq
<1>2. \A p \in Asked : p \in Pin
  BY <1>1
<1>3. IsFiniteSet(1..Len(list))
  BY <1>1, FS_Interval
<1>4. IsFiniteSet(Parts)
  <2> DEFINE f == [j \in 1..Len(list) |-> At(list[j])]
  <2>1. f \in Surjection(1..Len(list), Parts)
    BY DEF Surjection
  <2> HIDE DEF f, Parts
  <2> QED
    BY <1>3, <2>1, FS_Surjection
<1>5. ASSUME NEW p \in Asked PROVE IsFiniteSet(At(p))
  <2> DEFINE c == Len(files[p.mod][p.rev]) + 1
  <2>1. p.mod \in Module /\ p.rev \in Rev \cup {HEAD}
    BY <1>2 DEF Pin
  <2>2. files[p.mod][p.rev] \in Seq(Pin)
    BY <2>1 DEF Files
  <2>3. c \in Nat
    BY <2>2, LenProperties
  <2> HIDE DEF c
  <2>4. IsFiniteSet(1..c)
    <3>1. 1 \in Int /\ c \in Int
      BY <2>3
    <3> QED
      BY <3>1, FS_Interval
  <2>5. IsFiniteSet({p} \X (1..c))
    <3>1. IsFiniteSet({p})
      BY FS_Singleton
    <3> QED
      BY <2>4, <3>1, FS_Product
  <2> QED
    BY <2>5 DEF c
<1> HIDE DEF At, Asked
<1>6. \A T \in Parts : IsFiniteSet(T)
  BY <1>5
<1>7. Steps(files, list) = UNION Parts
  BY DEF Steps, Asked, At
<1> HIDE DEF Parts
<1> QED
  BY <1>4, <1>6, <1>7, FS_UNION

(* A walk over files that do not change has one outcome: no two lists are  *)
(* what it ends with, however many steps each would take.                  *)
THEOREM OneOutcome ==
  ASSUME NEW files \in Files, NEW one \in Seq(Pin), NEW other \in Seq(Pin),
         WalkEndsWith(files, one), WalkEndsWith(files, other)
  PROVE  one = other
<1> DEFINE m == Cardinality(Steps(files, one))
           n == Cardinality(Steps(files, other))
<1>1. m \in Nat /\ n \in Nat
  BY StepsFinite, FS_CardinalityType
<1>2. /\ Walked(files)[m].calls = <<>> /\ Walked(files)[m].list = one
      /\ Walked(files)[n].calls = <<>> /\ Walked(files)[n].list = other
  BY DEF WalkEndsWith
<1> HIDE DEF m, n
<1>3. Walked(files)[m] = Walked(files)[n]
  BY <1>1, <1>2, FinishedWalks
<1> QED
  BY <1>2, <1>3

-----------------------------------------------------------------------------
(* The walk over the worktrees is one on paper, over the files as they are *)

FilesNow == [m \in Module |-> [r \in Rev \cup {HEAD} |-> File(m)]]

Now == [met |-> seen, calls |-> frames, list |-> dependencies]

(* What calls under way have come past. *)
Begun(calls) == UNION {{calls[d].pin} \X (1..(calls[d].at - 1)) : d \in DOMAIN calls}

StepsNow == Steps(FilesNow, dependencies) \cup Begun(frames)

InStep ==
  /\ \A d \in DOMAIN frames : frames[d].at <= Len(File(frames[d].pin.mod)) + 1
  /\ IsFiniteSet(StepsNow)
  /\ Walked(FilesNow)[Cardinality(StepsNow)] = Now

LEMMA FilesNowType ==
  ASSUME TypeOK
  PROVE  /\ FilesNow \in Files
         /\ \A p \in Pin : FilesNow[p.mod][p.rev] = File(p.mod)
<1>1. \A m \in Module : File(m) \in Seq(Pin)
  BY FileType
<1>2. FilesNow \in Files
  BY <1>1 DEF FilesNow, Files
<1> QED
  BY <1>2 DEF FilesNow, Pin

(* The steps taken, module by module. *)
LEMMA TakenMember ==
  ASSUME TypeOK, NEW calls, NEW list \in Seq(Pin)
  PROVE  \A x : x \in Steps(FilesNow, list) \cup Begun(calls) <=>
           \/ \E j \in 1..Len(list) : \E k \in 1..(Len(File(list[j].mod)) + 1) : x = <<list[j], k>>
           \/ \E d \in DOMAIN calls : \E k \in 1..(calls[d].at - 1) : x = <<calls[d].pin, k>>
<1> DEFINE At(d) == {calls[d].pin} \X (1..(calls[d].at - 1))
<1>1. \A x : x \in Begun(calls) <=> \E d \in DOMAIN calls : x \in At(d)
  BY DEF Begun
<1>2. \A x, d : x \in At(d) <=> \E k \in 1..(calls[d].at - 1) : x = <<calls[d].pin, k>>
  OBVIOUS
<1> HIDE DEF At
<1>3. \A x : x \in Steps(FilesNow, list) <=>
        \E j \in 1..Len(list) : \E k \in 1..(Len(File(list[j].mod)) + 1) : x = <<list[j], k>>
  <2> DEFINE Lists(x) == \E j \in 1..Len(list) :
               \E k \in 1..(Len(FilesNow[list[j].mod][list[j].rev]) + 1) : x = <<list[j], k>>
  <2>1. \A j \in 1..Len(list) : FilesNow[list[j].mod][list[j].rev] = File(list[j].mod)
    BY ElementOfSeq, FilesNowType
  <2>2. \A x : x \in Steps(FilesNow, list) <=> Lists(x)
    BY StepsMember
  <2>3. \A x : Lists(x) <=>
          \E j \in 1..Len(list) : \E k \in 1..(Len(File(list[j].mod)) + 1) : x = <<list[j], k>>
    BY ONLY <2>1
  <2> HIDE DEF Lists
  <2> QED
    BY <2>2, <2>3
<1> QED
  BY <1>1, <1>2, <1>3

LEMMA StepsNowMember ==
  ASSUME TypeOK
  PROVE  \A x : x \in StepsNow <=>
           \/ \E j \in 1..Len(dependencies) : \E k \in 1..(Len(File(dependencies[j].mod)) + 1) :
                x = <<dependencies[j], k>>
           \/ \E d \in DOMAIN frames : \E k \in 1..(frames[d].at - 1) : x = <<frames[d].pin, k>>
<1>1. dependencies \in Seq(Pin)
  BY DEF TypeOK
<1> QED
  BY <1>1, TakenMember DEF StepsNow

(* The topmost call has not come past where it is. *)
LEMMA TopIsNext ==
  ASSUME TypeOK, pc = "walk", Once
  PROVE  <<Top.pin, Top.at>> \notin StepsNow
<1> DEFINE n == Len(frames)
<1>1. n \in DOMAIN frames /\ Top = frames[n] /\ Top \in Frame /\ Top.at \in Nat
  BY TopType DEF Frame
<1>2. \A d \in DOMAIN frames : frames[d].pin.mod = frames[n].pin.mod => d = n
  BY <1>1 DEF Once
<1>3. \A j \in 1..Len(dependencies) : dependencies[j].mod # frames[n].pin.mod
  BY <1>1 DEF Once, ModulesOf
<1> SUFFICES ASSUME <<Top.pin, Top.at>> \in StepsNow PROVE FALSE
  OBVIOUS
<1>4. CASE \E j \in 1..Len(dependencies) : \E k \in 1..(Len(File(dependencies[j].mod)) + 1) :
             <<Top.pin, Top.at>> = <<dependencies[j], k>>
  BY <1>1, <1>3, <1>4
<1>5. CASE \E d \in DOMAIN frames : \E k \in 1..(frames[d].at - 1) :
             <<Top.pin, Top.at>> = <<frames[d].pin, k>>
  <2>1. PICK d \in DOMAIN frames : \E k \in 1..(frames[d].at - 1) :
               <<Top.pin, Top.at>> = <<frames[d].pin, k>>
    BY <1>5
  <2>2. PICK k \in 1..(frames[d].at - 1) : <<Top.pin, Top.at>> = <<frames[d].pin, k>>
    BY <2>1
  <2>3. Top.pin = frames[d].pin /\ Top.at = k
    BY <2>2
  <2>4. d = n
    BY <1>1, <1>2, <2>3
  <2>5. k < Top.at
    BY <1>1, <2>2, <2>4
  <2> QED
    BY <1>1, <2>3, <2>5
<1> QED
  BY <1>4, <1>5, StepsNowMember

LEMMA NowStep ==
  ASSUME TypeOK, pc = "walk", NEW file, file = File(Top.pin.mod)
  PROVE  WalkStep(FilesNow, Now) =
           IF Top.at > Len(file)
             THEN [met |-> seen, calls |-> SubSeq(frames, 1, Len(frames) - 1),
                   list |-> Append(dependencies, Top.pin)]
           ELSE IF file[Top.at].mod \in seen
             THEN [met |-> seen, calls |-> Advanced, list |-> dependencies]
           ELSE [met |-> seen \cup {file[Top.at].mod},
                 calls |-> Append(Advanced, Call(file[Top.at])), list |-> dependencies]
<1>1. Len(frames) # 0 /\ Top = frames[Len(frames)] /\ Top.pin \in Pin
  BY TopType
<1>2. FilesNow[Top.pin.mod][Top.pin.rev] = file
  BY <1>1, FilesNowType
<1>3. /\ Now.met = seen /\ Now.calls = frames /\ Now.list = dependencies
  BY DEF Now
<1> DEFINE on == [frames EXCEPT ![Len(frames)].at = @ + 1]
<1>4. on = Advanced
  BY DEF Advanced
<1>5. WalkStep(FilesNow, Now) =
        IF Top.at > Len(file)
          THEN [Now EXCEPT !.calls = SubSeq(frames, 1, Len(frames) - 1),
                           !.list = Append(dependencies, Top.pin)]
        ELSE IF file[Top.at].mod \in seen THEN [Now EXCEPT !.calls = on]
        ELSE [Now EXCEPT !.met = seen \cup {file[Top.at].mod},
                         !.calls = Append(on, Call(file[Top.at]))]
  BY <1>1, <1>2, <1>3 DEF WalkStep
<1> HIDE DEF on
<1> QED
  BY <1>4, <1>5 DEF Now

(* One step more, over the same files. *)
LEMMA OneMore ==
  ASSUME TypeOK, pc = "walk", Once, InStep, UNCHANGED <<pins, work>>,
         \A d \in DOMAIN frames' : frames'[d].at <= Len(File(frames'[d].pin.mod)) + 1,
         Steps(FilesNow, dependencies') \cup Begun(frames') = StepsNow \cup {<<Top.pin, Top.at>>},
         WalkStep(FilesNow, Now) = Now'
  PROVE  InStep'
<1>1. FilesNow' = FilesNow /\ \A m : File(m)' = File(m)
  BY SameFiles DEF FilesNow
<1>2. StepsNow' = StepsNow \cup {<<Top.pin, Top.at>>}
  BY <1>1 DEF StepsNow
<1>3. <<Top.pin, Top.at>> \notin StepsNow
  BY TopIsNext
<1>4. IsFiniteSet(StepsNow) /\ Cardinality(StepsNow) \in Nat
  BY FS_CardinalityType DEF InStep
<1>5. IsFiniteSet(StepsNow') /\ Cardinality(StepsNow') = Cardinality(StepsNow) + 1
  BY <1>2, <1>3, <1>4, FS_AddElement
<1>6. Walked(FilesNow)[Cardinality(StepsNow) + 1] = WalkStep(FilesNow, Now)
  BY <1>4, WalkedSteps DEF InStep
<1>7. Walked(FilesNow')[Cardinality(StepsNow')] = Now'
  BY <1>1, <1>5, <1>6
<1>8. (\A d \in DOMAIN frames : frames[d].at <= Len(File(frames[d].pin.mod)) + 1)'
  BY DEF File
<1> QED
  BY <1>5, <1>7, <1>8 DEF InStep

LEMMA SkipInStep ==
  ASSUME TypeOK, pc = "walk", Once, InStep, UNCHANGED <<pins, work>>,
         SkipSeen(File(Top.pin.mod))
  PROVE  InStep'
<1> DEFINE n == Len(frames)
           file == File(Top.pin.mod)
<1>1. /\ n \in DOMAIN frames /\ Top = frames[n] /\ Top \in Frame /\ Top.at \in Nat \ {0}
      /\ Top.pin.mod \in Module /\ dependencies \in Seq(Pin)
      /\ \A d \in DOMAIN frames : frames[d] \in Frame
  BY TopType DEF Frame, TypeOK
<1>2. Len(file) \in Nat /\ Top.at <= Len(file) /\ file[Top.at].mod \in seen
  <2>1. file \in Seq(Pin)
    BY <1>1, FileType
  <2> QED
    BY <2>1, LenProperties DEF SkipSeen
<1>3. frames' = Advanced /\ UNCHANGED <<seen, dependencies>>
  BY SkipFacts
<1>4. /\ DOMAIN Advanced = DOMAIN frames
      /\ \A d \in DOMAIN frames :
           /\ Advanced[d].pin = frames[d].pin
           /\ Advanced[d].at = IF d = n THEN frames[d].at + 1 ELSE frames[d].at
  BY AdvancedFacts
<1>5. WalkStep(FilesNow, Now) = Now'
  <2>1. WalkStep(FilesNow, Now) = [met |-> seen, calls |-> Advanced, list |-> dependencies]
    <3> HIDE DEF file
    <3>1. ~(Top.at > Len(file))
      BY <1>1, <1>2
    <3>2. file = File(Top.pin.mod)
      BY DEF file
    <3> QED
      BY <1>2, <3>1, <3>2, NowStep
  <2> QED
    BY <1>3, <2>1 DEF Now
<1> HIDE DEF n, file
<1>6. \A d \in DOMAIN frames' : frames'[d].at <= Len(File(frames'[d].pin.mod)) + 1
  <2> SUFFICES ASSUME NEW d \in DOMAIN frames
               PROVE  Advanced[d].at <= Len(File(Advanced[d].pin.mod)) + 1
    BY <1>3, <1>4
  <2>1. CASE d = n
    <3>1. Advanced[d].at = Top.at + 1 /\ Advanced[d].pin = Top.pin
      BY <1>1, <1>4, <2>1
    <3> QED
      BY <1>1, <1>2, <3>1 DEF file
  <2>2. CASE d # n
    BY <1>4, <2>2 DEF InStep
  <2> QED
    BY <2>1, <2>2
<1>7. Steps(FilesNow, dependencies') \cup Begun(frames') = StepsNow \cup {<<Top.pin, Top.at>>}
  <2> DEFINE InList(x) == \E j \in 1..Len(dependencies) :
               \E k \in 1..(Len(File(dependencies[j].mod)) + 1) : x = <<dependencies[j], k>>
             Was(x) == \E d \in DOMAIN frames : \E k \in 1..(frames[d].at - 1) : x = <<frames[d].pin, k>>
             Is(x) == \E d \in DOMAIN frames : \E k \in 1..(Advanced[d].at - 1) : x = <<frames[d].pin, k>>
             step == <<Top.pin, Top.at>>
  <2>1. \A x : x \in StepsNow <=> InList(x) \/ Was(x)
    BY StepsNowMember
  <2>2. \A x : x \in Steps(FilesNow, dependencies') \cup Begun(frames') <=> InList(x) \/ Is(x)
    <3>1. \A x : x \in Steps(FilesNow, dependencies) \cup Begun(Advanced) <=>
            \/ InList(x)
            \/ \E d \in DOMAIN Advanced : \E k \in 1..(Advanced[d].at - 1) : x = <<Advanced[d].pin, k>>
      BY <1>1, TakenMember
    <3>2. \A x : Is(x) <=>
            \E d \in DOMAIN Advanced : \E k \in 1..(Advanced[d].at - 1) : x = <<Advanced[d].pin, k>>
      BY <1>4
    <3> HIDE DEF InList, Is
    <3> QED
      BY <1>3, <3>1, <3>2
  <2>3. \A x : Is(x) <=> Was(x) \/ x = step
    <3>1. \A d \in DOMAIN frames : \A k : k \in 1..(Advanced[d].at - 1) <=>
            k \in 1..(frames[d].at - 1) \/ (d = n /\ k = Top.at)
      <4> SUFFICES ASSUME NEW d \in DOMAIN frames, NEW k
                   PROVE  k \in 1..(Advanced[d].at - 1) <=>
                            k \in 1..(frames[d].at - 1) \/ (d = n /\ k = Top.at)
        OBVIOUS
      <4>1. frames[d].at \in Nat \ {0}
        BY <1>1 DEF Frame
      <4>2. CASE d = n
        <5>1. Advanced[d].at = Top.at + 1 /\ frames[d].at = Top.at
          BY <1>1, <1>4, <4>2
        <5> QED
          BY <1>1, <4>2, <5>1
      <4>3. CASE d # n
        BY <1>4, <4>1, <4>3
      <4> QED
        BY <4>2, <4>3
    <3> QED
      BY <1>1, <3>1
  <2> HIDE DEF InList, Was, Is, step
  <2>4. \A x : x \in Steps(FilesNow, dependencies') \cup Begun(frames')
                 <=> x \in StepsNow \cup {step}
    BY <2>1, <2>2, <2>3
  <2> QED
    BY <2>4 DEF step
<1> QED
  BY <1>5, <1>6, <1>7, OneMore

LEMMA DescendInStep ==
  ASSUME TypeOK, pc = "walk", Once, InStep, UNCHANGED <<pins, work>>,
         Descend(File(Top.pin.mod))
  PROVE  InStep'
<1> DEFINE n == Len(frames)
           file == File(Top.pin.mod)
           q == file[Top.at]
<1>1. /\ n \in DOMAIN frames /\ DOMAIN frames = 1..n /\ n \in Nat /\ Top = frames[n]
      /\ Top \in Frame /\ Top.at \in Nat \ {0}
      /\ Top.pin.mod \in Module /\ dependencies \in Seq(Pin)
      /\ \A d \in DOMAIN frames : frames[d] \in Frame
  BY TopType DEF Frame, TypeOK
<1>2. Len(file) \in Nat /\ Top.at <= Len(file) /\ q.mod \notin seen
  <2>1. file \in Seq(Pin)
    BY <1>1, FileType
  <2> QED
    BY <2>1, LenProperties DEF Descend
<1>3. /\ frames' = Append(Advanced, Call(q)) /\ dependencies' = dependencies
      /\ seen' = seen \cup {q.mod} /\ DOMAIN frames' = 1..(n + 1)
      /\ \A d \in 1..n : frames'[d] = Advanced[d]
      /\ frames'[n + 1] = Call(q) /\ q.mod \in Module
  BY DescendFacts DEF Descend
<1>4. \A d \in 1..n :
        /\ frames'[d].pin = frames[d].pin
        /\ frames'[d].at = IF d = n THEN frames[d].at + 1 ELSE frames[d].at
  BY <1>1, <1>3, AdvancedFacts
<1>5. frames'[n + 1].pin = q /\ frames'[n + 1].at = 1
  BY <1>3 DEF Call
<1>6. WalkStep(FilesNow, Now) = Now'
  <2>1. WalkStep(FilesNow, Now) =
          [met |-> seen \cup {q.mod}, calls |-> Append(Advanced, Call(q)), list |-> dependencies]
    <3>1. ~(Top.at > Len(file)) /\ ~(file[Top.at].mod \in seen)
      BY <1>1, <1>2
    <3> HIDE DEF file
    <3>2. file = File(Top.pin.mod)
      BY DEF file
    <3> QED
      BY <3>1, <3>2, NowStep
  <2> QED
    BY <1>3, <2>1 DEF Now
<1>7. Len(File(q.mod)) \in Nat
  BY <1>3, FileType, LenProperties
<1> HIDE DEF n, file, q
<1>8. \A d \in DOMAIN frames' : frames'[d].at <= Len(File(frames'[d].pin.mod)) + 1
  <2> SUFFICES ASSUME NEW d \in 1..(n + 1)
               PROVE  frames'[d].at <= Len(File(frames'[d].pin.mod)) + 1
    BY <1>3
  <2>1. CASE d = n + 1
    BY <1>5, <1>7, <2>1
  <2>2. CASE d = n
    <3>1. d \in 1..n
      BY <1>1, <2>2
    <3>2. frames'[d].at = Top.at + 1 /\ frames'[d].pin = Top.pin
      BY <1>1, <1>4, <2>2, <3>1
    <3> QED
      BY <1>1, <1>2, <3>2 DEF file
  <2>3. CASE d # n /\ d # n + 1
    <3>1. d \in 1..n
      BY <1>1, <2>3
    <3>2. frames'[d].at = frames[d].at /\ frames'[d].pin = frames[d].pin
      BY <1>4, <2>3, <3>1
    <3>3. frames[d].at <= Len(File(frames[d].pin.mod)) + 1
      BY <1>1, <3>1 DEF InStep
    <3> QED
      BY <3>2, <3>3
  <2> QED
    BY <2>1, <2>2, <2>3
<1>9. Steps(FilesNow, dependencies') \cup Begun(frames') = StepsNow \cup {<<Top.pin, Top.at>>}
  <2> DEFINE InList(x) == \E j \in 1..Len(dependencies) :
               \E k \in 1..(Len(File(dependencies[j].mod)) + 1) : x = <<dependencies[j], k>>
             Was(x) == \E d \in DOMAIN frames : \E k \in 1..(frames[d].at - 1) : x = <<frames[d].pin, k>>
             Is(x) == \E d \in DOMAIN frames' :
                        \E k \in 1..(frames'[d].at - 1) : x = <<frames'[d].pin, k>>
             step == <<Top.pin, Top.at>>
  <2>1. \A x : x \in StepsNow <=> InList(x) \/ Was(x)
    BY StepsNowMember
  <2>2. \A x : x \in Steps(FilesNow, dependencies') \cup Begun(frames') <=> InList(x) \/ Is(x)
    <3> DEFINE calls == frames'
    <3>1. \A x : x \in Steps(FilesNow, dependencies) \cup Begun(calls) <=>
            \/ InList(x)
            \/ \E d \in DOMAIN calls : \E k \in 1..(calls[d].at - 1) : x = <<calls[d].pin, k>>
      <4> HIDE DEF calls
      <4> QED
        BY <1>1, TakenMember
    <3>2. \A x : Is(x) <=>
            \E d \in DOMAIN calls : \E k \in 1..(calls[d].at - 1) : x = <<calls[d].pin, k>>
      OBVIOUS
    <3>3. \A x : x \in Steps(FilesNow, dependencies') \cup Begun(frames')
                   <=> x \in Steps(FilesNow, dependencies) \cup Begun(calls)
      <4>1. dependencies' = dependencies
        BY <1>3
      <4> QED
        BY <4>1
    <3> HIDE DEF InList, Is, calls
    <3> QED
      BY <3>1, <3>2, <3>3
  <2>3. \A x : Is(x) <=> Was(x) \/ x = step
    <3>1. \A d \in 1..(n + 1) : \A k : k \in 1..(frames'[d].at - 1) <=>
            d \in 1..n /\ (k \in 1..(frames[d].at - 1) \/ (d = n /\ k = Top.at))
      <4> SUFFICES ASSUME NEW d \in 1..(n + 1), NEW k
                   PROVE  k \in 1..(frames'[d].at - 1) <=>
                            d \in 1..n /\ (k \in 1..(frames[d].at - 1) \/ (d = n /\ k = Top.at))
        OBVIOUS
      <4>1. CASE d = n + 1
        BY <1>1, <1>5, <4>1
      <4>2. CASE d = n
        <5>1. frames'[d].at = Top.at + 1 /\ frames[d].at = Top.at /\ d \in 1..n
          BY <1>1, <1>4, <4>2
        <5> QED
          BY <1>1, <4>2, <5>1
      <4>3. CASE d # n /\ d # n + 1
        <5>1. d \in 1..n
          BY <1>1, <4>3
        <5> QED
          BY <1>4, <4>3, <5>1
      <4> QED
        BY <4>1, <4>2, <4>3
    <3>2. \A d \in 1..n : d \in 1..(n + 1) /\ frames'[d].pin = frames[d].pin
      BY <1>1, <1>4
    <3>3. ASSUME NEW x, Is(x) PROVE Was(x) \/ x = step
      <4>1. PICK d \in 1..(n + 1) : \E k \in 1..(frames'[d].at - 1) : x = <<frames'[d].pin, k>>
        BY <1>3, <3>3
      <4>2. PICK k \in 1..(frames'[d].at - 1) : x = <<frames'[d].pin, k>>
        BY <4>1
      <4>3. d \in 1..n /\ (k \in 1..(frames[d].at - 1) \/ (d = n /\ k = Top.at))
        BY <3>1, <4>2
      <4>4. x = <<frames[d].pin, k>>
        BY <3>2, <4>2, <4>3
      <4> QED
        BY <1>1, <4>3, <4>4
    <3>4. ASSUME NEW x, Was(x) PROVE Is(x)
      <4>1. PICK d \in 1..n : \E k \in 1..(frames[d].at - 1) : x = <<frames[d].pin, k>>
        BY <1>1, <3>4
      <4>2. PICK k \in 1..(frames[d].at - 1) : x = <<frames[d].pin, k>>
        BY <4>1
      <4>3. d \in 1..(n + 1) /\ k \in 1..(frames'[d].at - 1) /\ x = <<frames'[d].pin, k>>
        BY <3>1, <3>2, <4>2
      <4> QED
        BY <1>3, <4>3
    <3>5. Is(step)
      <4>1. n \in 1..n /\ n \in 1..(n + 1) /\ frames'[n].pin = Top.pin
        BY <1>1, <3>2
      <4>2. Top.at \in 1..(frames'[n].at - 1)
        BY <3>1, <4>1
      <4>3. step = <<frames'[n].pin, Top.at>>
        BY <4>1
      <4> QED
        BY <1>3, <4>1, <4>2, <4>3
    <3> HIDE DEF Is, Was, step
    <3> QED
      BY <3>3, <3>4, <3>5
  <2> HIDE DEF InList, Was, Is, step
  <2>4. \A x : x \in Steps(FilesNow, dependencies') \cup Begun(frames')
                 <=> x \in StepsNow \cup {step}
    BY <2>1, <2>2, <2>3
  <2> QED
    BY <2>4 DEF step
<1> QED
  BY <1>6, <1>8, <1>9, OneMore

LEMMA ReturnInStep ==
  ASSUME TypeOK, pc = "walk", Once, InStep, UNCHANGED <<pins, work>>,
         Return(File(Top.pin.mod))
  PROVE  InStep'
<1> DEFINE n == Len(frames)
           m == Len(dependencies)
           file == File(Top.pin.mod)
<1>1. /\ n \in DOMAIN frames /\ DOMAIN frames = 1..n /\ n \in Nat \ {0} /\ Top = frames[n]
      /\ Top \in Frame /\ Top.at \in Nat \ {0}
      /\ Top.pin.mod \in Module /\ dependencies \in Seq(Pin)
      /\ \A d \in DOMAIN frames : frames[d] \in Frame
  BY TopType DEF Frame, TypeOK
<1>2. Len(file) \in Nat /\ Top.at = Len(file) + 1
  <2>1. file \in Seq(Pin)
    BY <1>1, FileType
  <2>2. Len(file) \in Nat /\ Top.at > Len(file)
    BY <2>1, LenProperties DEF Return
  <2>3. Top.at <= Len(file) + 1
    BY <1>1 DEF InStep
  <2> QED
    BY <1>1, <2>2, <2>3
<1>3. /\ seen' = seen /\ dependencies' \in Seq(Pin)
      /\ m \in Nat /\ Len(dependencies') = m + 1
      /\ \A j \in 1..m : dependencies'[j] = dependencies[j]
      /\ dependencies'[m + 1] = Top.pin
      /\ DOMAIN frames' = 1..(n - 1)
      /\ \A d \in 1..(n - 1) : frames'[d] = frames[d]
  BY ReturnFacts
<1>4. WalkStep(FilesNow, Now) = Now'
  <2>1. WalkStep(FilesNow, Now) =
          [met |-> seen, calls |-> SubSeq(frames, 1, Len(frames) - 1),
           list |-> Append(dependencies, Top.pin)]
    <3>1. Top.at > Len(file)
      BY <1>2
    <3> HIDE DEF file
    <3>2. file = File(Top.pin.mod)
      BY DEF file
    <3> QED
      BY <3>1, <3>2, NowStep
  <2> QED
    BY <2>1 DEF Now, Return, Listed
<1> HIDE DEF n, m, file
<1>5. \A d \in DOMAIN frames' : frames'[d].at <= Len(File(frames'[d].pin.mod)) + 1
  BY <1>1, <1>3 DEF InStep
<1>6. Steps(FilesNow, dependencies') \cup Begun(frames') = StepsNow \cup {<<Top.pin, Top.at>>}
  <2> DEFINE End(p) == Len(File(p.mod)) + 1
             WasListed(x) == \E j \in 1..m : \E k \in 1..End(dependencies[j]) : x = <<dependencies[j], k>>
             IsListed(x) == \E j \in 1..(m + 1) : \E k \in 1..End(dependencies'[j]) : x = <<dependencies'[j], k>>
             Below(x) == \E d \in 1..(n - 1) : \E k \in 1..(frames[d].at - 1) : x = <<frames[d].pin, k>>
             OfTop(x) == \E k \in 1..(Top.at - 1) : x = <<Top.pin, k>>
             step == <<Top.pin, Top.at>>
  <2>1. \A x : x \in StepsNow <=> WasListed(x) \/ Below(x) \/ OfTop(x)
    <3>1. \A x : x \in StepsNow <=> WasListed(x) \/
            \E d \in 1..n : \E k \in 1..(frames[d].at - 1) : x = <<frames[d].pin, k>>
      BY <1>1, StepsNowMember DEF m
    <3>2. \A d : d \in 1..n <=> d \in 1..(n - 1) \/ d = n
      BY <1>1
    <3> QED
      BY <1>1, <3>1, <3>2
  <2>2. \A x : x \in Steps(FilesNow, dependencies') \cup Begun(frames') <=> IsListed(x) \/ Below(x)
    <3> DEFINE calls == frames'
               list == dependencies'
    <3>1. \A x : x \in Steps(FilesNow, list) \cup Begun(calls) <=>
            \/ \E j \in 1..Len(list) : \E k \in 1..(Len(File(list[j].mod)) + 1) : x = <<list[j], k>>
            \/ \E d \in DOMAIN calls : \E k \in 1..(calls[d].at - 1) : x = <<calls[d].pin, k>>
      <4>1. list \in Seq(Pin)
        BY <1>3
      <4> HIDE DEF calls, list
      <4> QED
        BY <4>1, TakenMember
    <3>2. \A x : Below(x) <=>
            \E d \in DOMAIN calls : \E k \in 1..(calls[d].at - 1) : x = <<calls[d].pin, k>>
      BY <1>3
    <3>3. \A x : IsListed(x) <=>
            \E j \in 1..Len(list) : \E k \in 1..(Len(File(list[j].mod)) + 1) : x = <<list[j], k>>
      BY <1>3
    <3> HIDE DEF Below, IsListed
    <3>4. \A x : x \in Steps(FilesNow, list) \cup Begun(calls) <=> IsListed(x) \/ Below(x)
      BY <3>1, <3>2, <3>3
    <3> QED
      BY <3>4
  <2>3. \A x : IsListed(x) <=> WasListed(x) \/ OfTop(x) \/ x = step
    <3>1. \A j : j \in 1..(m + 1) <=> j \in 1..m \/ j = m + 1
      BY <1>3
    <3>2. \A x : IsListed(x) <=> WasListed(x) \/ \E k \in 1..End(Top.pin) : x = <<Top.pin, k>>
      <4> HIDE DEF End
      <4> QED
        BY <1>3, <3>1
    <3>3. End(Top.pin) = Top.at
      BY <1>2 DEF file
    <3>4. \A k : k \in 1..Top.at <=> k \in 1..(Top.at - 1) \/ k = Top.at
      BY <1>1
    <3> HIDE DEF End, IsListed, WasListed
    <3> QED
      BY <3>2, <3>3, <3>4
  <2> HIDE DEF WasListed, IsListed, Below, OfTop, step
  <2>4. \A x : x \in Steps(FilesNow, dependencies') \cup Begun(frames')
                 <=> x \in StepsNow \cup {step}
    BY <2>1, <2>2, <2>3
  <2> QED
    BY <2>4 DEF step
<1> QED
  BY <1>4, <1>5, <1>6, OneMore

(* A walk that begins is one that has taken no step. *)
LEMMA BeginInStep ==
  ASSUME TypeOK, WalkFrom(MainAtHEAD), UNCHANGED <<pins, work>>
  PROVE  InStep'
<1>1. FilesNow' = FilesNow /\ FilesNow \in Files
  BY SameFiles, FilesNowType DEF FilesNow
<1>2. frames' = <<Call(MainAtHEAD)>> /\ seen' = {Main} /\ dependencies' = <<>>
  BY DEF WalkFrom, MainAtHEAD
<1>3. /\ DOMAIN frames' = {1} /\ frames'[1] = Call(MainAtHEAD) /\ Len(dependencies') = 0
      /\ Call(MainAtHEAD).at = 1
  BY <1>2, EmptySeq DEF Call
<1>4. StepsNow' = {}
  <2>1. \A x : x \notin Begun(frames')
    BY <1>3 DEF Begun
  <2>2. \A x : x \notin Steps(FilesNow, dependencies')
    <3> DEFINE list == dependencies'
    <3>1. \A x : x \in Steps(FilesNow, list) <=>
           \E j \in 1..Len(list) : \E k \in 1..(Len(FilesNow[list[j].mod][list[j].rev]) + 1) :
             x = <<list[j], k>>
      <4> HIDE DEF list
      <4> QED
        BY StepsMember
    <3>2. 1..Len(list) = {}
      BY <1>3
    <3> HIDE DEF list
    <3>3. \A x : x \notin Steps(FilesNow, list)
      BY <3>1, <3>2
    <3> QED
      BY <3>3 DEF list
  <2> QED
    BY <1>1, <2>1, <2>2 DEF StepsNow
<1>5. IsFiniteSet(StepsNow') /\ Cardinality(StepsNow') = 0
  BY <1>4, FS_EmptySet
<1>6. Walked(FilesNow')[Cardinality(StepsNow')] = Now'
  <2>1. Walked(FilesNow)[0] = WalkStart
    BY WalkedSteps
  <2>2. Now' = WalkStart
    BY <1>2 DEF Now, WalkStart
  <2> QED
    BY <1>1, <1>5, <2>1, <2>2
<1>7. (\A d \in DOMAIN frames : frames[d].at <= Len(File(frames[d].pin.mod)) + 1)'
  <2>1. Main \in Module
    BY DEF Module
  <2>2. File(Main) \in Seq(Pin)
    BY <2>1, FileType
  <2>3. Len(File(Main)) \in Nat
    BY <2>2, LenProperties
  <2>4. frames'[1].pin.mod = Main /\ frames'[1].at = 1
    BY <1>3 DEF Call, MainAtHEAD
  <2>5. frames'[1].at <= Len(File(frames'[1].pin.mod)) + 1
    BY <2>3, <2>4
  <2> QED
    BY <1>3, <2>5 DEF File
<1> QED
  BY <1>5, <1>6, <1>7 DEF InStep

LEMMA SameInStep ==
  ASSUME InStep, UNCHANGED <<pins, work, walkVars>>
  PROVE  InStep'
<1>1. FilesNow' = FilesNow
  BY SameFiles DEF FilesNow
<1>2. seen' = seen /\ frames' = frames /\ dependencies' = dependencies
  BY DEF walkVars
<1>3. StepsNow' = StepsNow /\ Now' = Now
  BY <1>1, <1>2 DEF StepsNow, Now
<1>4. (\A d \in DOMAIN frames : frames[d].at <= Len(File(frames[d].pin.mod)) + 1)'
  BY <1>2 DEF InStep, File
<1> QED
  BY <1>1, <1>3, <1>4 DEF InStep

(* While nothing has changed under it, the walk and the list it leaves are *)
(* where the walk on paper is after as many steps.                         *)
Retraced == pc \in {"walk", "visit", "done"} /\ ~visit => InStep

LEMMA RetracedStep == SyncInv /\ Retraced /\ [Next]_vars => Retraced'
<1> SUFFICES ASSUME SyncInv, Retraced, [Next]_vars, pc' \in {"walk", "visit", "done"}, ~visit'
             PROVE  InStep'
  BY DEF Retraced
<1>0. TypeOK
  BY DEF SyncInv
<1>1. CASE AcquireMain \/ CheckoutMain
  BY <1>1 DEF AcquireMain, CheckoutMain
<1>2. CASE Resolve
  BY <1>0, <1>2, BeginInStep DEF Resolve, MainAtHEAD, input
<1>3. CASE WalkOn
  <2>1. pc = "walk" /\ ~visit /\ UNCHANGED <<pins, work>>
    BY <1>3 DEF WalkOn, input
  <2>2. Once /\ InStep
    BY <2>1 DEF SyncInv, Found, Retraced
  <2> QED
    BY <1>0, <1>3, <2>1, <2>2, SkipInStep, DescendInStep DEF WalkOn
<1>4. CASE WalkReturns
  <2>1. pc = "walk" /\ ~visit /\ UNCHANGED <<pins, work>>
    BY <1>4 DEF WalkReturns, input
  <2>2. Once /\ InStep
    BY <2>1 DEF SyncInv, Found, Retraced
  <2> QED
    BY <1>0, <1>4, <2>1, <2>2, ReturnInStep DEF WalkReturns
<1>5. CASE SkipHead \/ AlreadyThere
  <2>1. pc = "visit" /\ ~visit /\ UNCHANGED <<pins, work, walkVars>>
    BY <1>5 DEF SkipHead, AlreadyThere, Continue, Visiting, input
  <2> QED
    BY <2>1, SameInStep DEF Retraced
<1>6. CASE GetDependency
  BY <1>6 DEF GetDependency, RevisitAfterGet
<1>7. CASE CheckoutDependency
  BY <1>7 DEF CheckoutDependency
<1>8. CASE Visited
  <2>1. pc = "visit" /\ ~visit /\ UNCHANGED <<pins, work, walkVars>>
    BY <1>8 DEF Visited, input, loopVars
  <2> QED
    BY <2>1, SameInStep DEF Retraced
<1>9. CASE Stop \/ RunAgain
  BY <1>9 DEF Stop, RunAgain
<1>10. CASE UNCHANGED vars
  <2>1. pc \in {"walk", "visit", "done"} /\ ~visit /\ UNCHANGED <<pins, work, walkVars>>
    BY <1>10 DEF vars, input, loopVars
  <2> QED
    BY <2>1, SameInStep DEF Retraced
<1> QED
  BY <1>1, <1>2, <1>3, <1>4, <1>5, <1>6, <1>7, <1>8, <1>9, <1>10 DEF Next, Script

LEMMA RetracedInvariance == Spec => []Retraced
<1>1. Init => Retraced
  BY DEF Init, Retraced
<1> QED
  BY <1>1, RetracedStep, SyncInvariance, PTL DEF Spec

(* Whatever was checked out before, wherever a clone started, and wherever *)
(* earlier runs were cut short: what the script has gone through when it   *)
(* says it is finished is what a walk over the pinned commits alone ends   *)
(* with, of which there is only one (OneOutcome).                          *)
THEOREM OutcomeIsCanonical == Spec => []SyncedSetIsCanonical
<1>1. SyncInv /\ Retraced => SyncedSetIsCanonical
  <2> SUFFICES ASSUME SyncInv, Retraced, pc = "done"
               PROVE  /\ WalkEndsWith(AsPinned, dependencies)
                      /\ \A j \in 1..Len(dependencies) :
                           dependencies[j].rev \in {HEAD, work[dependencies[j].mod]}
    BY DEF SyncedSetIsCanonical
  <2>1. TypeOK /\ ~visit /\ i = 0 /\ Settled /\ InStep
    BY DEF SyncInv, Retraced
  <2>2. \A j \in 1..Len(dependencies) :
          dependencies[j].rev \in {HEAD, work[dependencies[j].mod]}
    <3>1. \A j \in 1..Len(dependencies) : j > i
      BY <2>1 DEF TypeOK
    <3> QED
      BY <2>1, <3>1 DEF Settled
  <2>3. frames = <<>> /\ DOMAIN frames = {} /\ Len(frames) = 0
    BY <2>1, EmptySeq DEF TypeOK
  <2>4. AsPinned \in Files /\ FilesNow \in Files
    <3>1. pins \in [Module -> [Rev -> Seq(Pin)]]
      BY <2>1, HistoryAssumption DEF TypeOK
    <3>2. \A m \in Module : File(m) \in Seq(Pin)
      BY <2>1, FileType
    <3>3. AsPinned \in Files
      BY <3>1, <3>2 DEF AsPinned, Files
    <3> QED
      BY <2>1, <3>3, FilesNowType
  <2>5. \A j \in 1..Len(dependencies) :
          FilesNow[dependencies[j].mod][dependencies[j].rev]
            = AsPinned[dependencies[j].mod][dependencies[j].rev]
    <3> SUFFICES ASSUME NEW j \in 1..Len(dependencies), NEW p, p = dependencies[j]
                 PROVE  FilesNow[p.mod][p.rev] = AsPinned[p.mod][p.rev]
      OBVIOUS
    <3>1. p \in Pin /\ p.mod \in Module /\ p.rev \in Rev \cup {HEAD}
      <4>1. dependencies \in Seq(Pin)
        BY <2>1 DEF TypeOK
      <4>2. p \in Pin
        BY <4>1, ElementOfSeq
      <4> QED
        BY <4>2 DEF Pin
    <3>2. FilesNow[p.mod][p.rev] = File(p.mod)
      BY <2>1, <3>1, FilesNowType
    <3>3. AsPinned[p.mod][p.rev] = IF p.rev = HEAD THEN File(p.mod) ELSE pins[p.mod][p.rev]
      BY <3>1 DEF AsPinned
    <3>4. p.rev # HEAD => work[p.mod] = p.rev /\ work[p.mod] # Absent
      BY <2>2, <3>1, RevisionAssumption
    <3> QED
      BY <3>2, <3>3, <3>4 DEF File
  <2>6. StepsNow = Steps(AsPinned, dependencies)
    <3>1. Begun(frames) = {}
      BY <2>3 DEF Begun
    <3>2. \A x : x \in Steps(FilesNow, dependencies) <=> x \in Steps(AsPinned, dependencies)
      <4> DEFINE list == dependencies
                 Lists(files, x) ==
                   \E j \in 1..Len(list) :
                     \E k \in 1..(Len(files[list[j].mod][list[j].rev]) + 1) : x = <<list[j], k>>
      <4>1. \A x : x \in Steps(FilesNow, list) <=> Lists(FilesNow, x)
        BY StepsMember
      <4>2. \A x : x \in Steps(AsPinned, list) <=> Lists(AsPinned, x)
        BY StepsMember
      <4>3. \A x : Lists(FilesNow, x) <=> Lists(AsPinned, x)
        BY ONLY <2>5
      <4> HIDE DEF Lists
      <4> QED
        BY <4>1, <4>2, <4>3
    <3> QED
      BY <3>1, <3>2 DEF StepsNow
  <2>7. Cardinality(StepsNow) \in Nat /\ Walked(FilesNow)[Cardinality(StepsNow)] = Now
    BY <2>1, FS_CardinalityType DEF InStep
  <2>8. \A p \in PinsOf(Now) : FilesNow[p.mod][p.rev] = AsPinned[p.mod][p.rev]
    BY <2>3, <2>5 DEF PinsOf, Now
  <2>9. Walked(AsPinned)[Cardinality(StepsNow)] = Now
    BY <2>4, <2>7, <2>8, WalksAgree
  <2>10. WalkEndsWith(AsPinned, dependencies)
    BY <2>3, <2>6, <2>9 DEF WalkEndsWith, Now
  <2> QED
    BY <2>2, <2>10
<1> QED
  BY <1>1, SyncInvariance, RetracedInvariance, PTL

-----------------------------------------------------------------------------
(* What the script does to the worktrees                                   *)

(* The list is asked for by the files as they are, also when repositories  *)
(* have appeared since the walk.                                           *)
StillAskedFor ==
  pc = "visit" =>
    \A j \in 1..Len(dependencies) :
      /\ dependencies[j].mod \in Needed
      /\ dependencies[j].mod # Main =>
           \E m \in Needed : \E k \in DOMAIN File(m) : File(m)[k] = dependencies[j]

LEMMA FreshlyAskedFor == SyncInv /\ ~visit => StillAskedFor
<1> SUFFICES ASSUME SyncInv, ~visit, pc = "visit" PROVE StillAskedFor
  BY DEF StillAskedFor
<1>1. Found /\ seen = ModulesOf(dependencies) /\ seen = Needed
  BY ListIsNeeded
<1> QED
  BY <1>1 DEF StillAskedFor, Found, AskedFor, Pinned, ModulesOf

(* A repository that appears brings needs, and takes none away. *)
LEMMA NeededGrows ==
  ASSUME NEW m \in Module, work[m] = Absent, pins' = pins,
         \A n \in Module : n # m => work'[n] = work[n],
         HEAD # Absent
  PROVE  /\ \A n \in Module : n # m => File(n)' = File(n)
         /\ DOMAIN File(m) = {}
         /\ Needed \subseteq Needed'
<1>1. \A n \in Module : n # m => File(n)' = File(n)
  BY DEF File
<1>2. File(m) = <<>>
  BY DEF File
<1>3. \A n : ~Needs(m, n)
  BY <1>2, EmptySeq DEF Needs, ModulesOf
<1>4. \A l, n \in Module : Needs(l, n) => Needs(l, n)'
  BY <1>1, <1>3 DEF Needs
<1>5. ASSUME NEW n \in Module, Reaches(Main, n) PROVE Reaches(Main, n)'
  <2>1. ASSUME NEW T \in SUBSET Module,
               \A k, l \in Module : k \in {Main} \cup T /\ Needs(k, l)' => l \in T
        PROVE  n \in T
    BY <1>4, <1>5, <2>1 DEF Reaches
  <2> QED
    BY <2>1 DEF Reaches
<1>6. Needed \subseteq Needed'
  BY <1>5 DEF Needed
<1>7. DOMAIN File(m) = {}
  BY <1>2
<1> QED
  BY <1>1, <1>6, <1>7

LEMMA StillAskedForStep == SyncInv /\ StillAskedFor /\ [Next]_vars /\ SyncInv' => StillAskedFor'
<1> SUFFICES ASSUME SyncInv, StillAskedFor, [Next]_vars, SyncInv' PROVE StillAskedFor'
  OBVIOUS
<1>1. CASE ~visit'
  BY <1>1, FreshlyAskedFor, PTL
<1>2. CASE visit' /\ pc' = "visit"
  <2>1. CASE GetDependency
    <3> DEFINE m == pin.mod
    <3>1. /\ pc = "visit" /\ i # 0 /\ work[m] = Absent /\ pins' = pins
          /\ \E r \in Rev : work' = [work EXCEPT ![m] = r]
          /\ UNCHANGED walkVars
      BY <2>1 DEF GetDependency, Visiting, input
    <3>2. /\ work \in [Module -> Rev \cup {Absent}] /\ dependencies \in Seq(Pin)
          /\ i \in 1..Len(dependencies)
      BY <3>1 DEF SyncInv, TypeOK
    <3>3. pin \in Pin /\ m \in Module
      <4>1. pin \in Pin
        BY <3>2, ElementOfSeq DEF pin
      <4> QED
        BY <4>1 DEF Pin
    <3> HIDE DEF m
    <3>4. \A n \in Module : n # m => work'[n] = work[n]
      BY <3>1, <3>2
    <3>5. /\ \A n \in Module : n # m => File(n)' = File(n)
          /\ DOMAIN File(m) = {}
          /\ Needed \subseteq Needed'
      BY <3>1, <3>3, <3>4, NeededGrows, RevisionAssumption
    <3>6. dependencies' = dependencies
      BY <3>1 DEF walkVars
    <3>7. \A j \in 1..Len(dependencies) :
            /\ dependencies[j].mod \in Needed'
            /\ dependencies[j].mod # Main =>
                 \E n \in Needed' : \E k \in DOMAIN (File(n)') : (File(n)')[k] = dependencies[j]
      <4> SUFFICES ASSUME NEW j \in 1..Len(dependencies)
                   PROVE  /\ dependencies[j].mod \in Needed'
                          /\ dependencies[j].mod # Main =>
                               \E n \in Needed' :
                                 \E k \in DOMAIN (File(n)') : (File(n)')[k] = dependencies[j]
        OBVIOUS
      <4>1. dependencies[j].mod \in Needed
        BY <3>1 DEF StillAskedFor
      <4>2. ASSUME dependencies[j].mod # Main
            PROVE  \E n \in Needed' : \E k \in DOMAIN (File(n)') : (File(n)')[k] = dependencies[j]
        <5>1. PICK n \in Needed : \E k \in DOMAIN File(n) : File(n)[k] = dependencies[j]
          BY <3>1, <4>2 DEF StillAskedFor
        <5>2. n \in Module /\ n # m /\ n \in Needed'
          BY <3>5, <5>1 DEF Needed, Module
        <5>3. File(n)' = File(n)
          BY <3>5, <5>2
        <5> QED
          BY <5>1, <5>2, <5>3
      <4> QED
        BY <3>5, <4>1, <4>2
    <3> QED
      BY <3>6, <3>7 DEF StillAskedFor
  <2>2. CASE UNCHANGED <<pins, work, walkVars, pc>>
    BY <2>2, SameFiles DEF StillAskedFor, walkVars
  <2>3. pc = "walk" => ~visit
    BY DEF SyncInv
  <2> QED
    BY <1>2, <2>1, <2>2, <2>3
      DEF Next, Script, AcquireMain, CheckoutMain, Resolve, WalkOn, WalkReturns, SkipHead,
          AlreadyThere, CheckoutDependency, Visited, Stop, RunAgain, Continue, Visiting,
          vars, input, loopVars
<1> QED
  BY <1>1, <1>2 DEF StillAskedFor

LEMMA StillAskedForInvariance == Spec => []StillAskedFor
<1>1. Init => StillAskedFor
  BY DEF Init, StillAskedFor
<1> QED
  BY <1>1, StillAskedForStep, SyncInvariance, PTL DEF Spec

(* A worktree is touched only where the files, as they are at that moment, *)
(* need its repository; one that exists is moved only to a commit that one *)
(* of them pins, and Main only to the revision asked for.                  *)
MovedAsPinned ==
  \A m \in Module : work'[m] # work[m] =>
    /\ m \in Needed
    /\ work[m] # Absent =>
         IF m = Main THEN work'[m] = ref
         ELSE \E n \in Needed : \E k \in DOMAIN File(n) :
                File(n)[k].mod = m /\ File(n)[k].rev = work'[m]

(* No run of the script, started over however often, changes a repository  *)
(* nobody needs, or moves one to a commit nobody pins, although the list   *)
(* it goes by may be older than the repositories that have appeared since. *)
THEOREM WorktreesMovedAsPinned == Spec => [][MovedAsPinned]_vars
<1>1. SyncInv /\ StillAskedFor /\ [Next]_vars => [MovedAsPinned]_vars
  <2> SUFFICES ASSUME SyncInv, StillAskedFor, [Next]_vars, NEW m \in Module, work'[m] # work[m]
               PROVE  /\ m \in Needed
                      /\ work[m] # Absent =>
                           IF m = Main THEN work'[m] = ref
                           ELSE \E n \in Needed : \E k \in DOMAIN File(n) :
                                  File(n)[k].mod = m /\ File(n)[k].rev = work'[m]
    BY DEF MovedAsPinned
  <2>1. work \in [Module -> Rev \cup {Absent}] /\ Main \in Needed
    BY DEF SyncInv, TypeOK, Needed
  <2>2. CASE AcquireMain
    BY <2>1, <2>2 DEF AcquireMain
  <2>3. CASE CheckoutMain
    BY <2>1, <2>3 DEF CheckoutMain, Checkout
  <2>4. CASE GetDependency \/ CheckoutDependency
    <3>1. /\ pc = "visit" /\ i # 0 /\ pin.rev # HEAD
          /\ dependencies \in Seq(Pin) /\ i \in 1..Len(dependencies)
      BY <2>4 DEF GetDependency, CheckoutDependency, Visiting, LeftAlone, SyncInv, TypeOK
    <3>2. pin \in Pin
      BY <3>1, ElementOfSeq DEF pin
    <3>3. pin.mod # Main
      BY <3>1 DEF SyncInv, MainFirst, pin
    <3>4. /\ pin.mod \in Needed
          /\ \E n \in Needed : \E k \in DOMAIN File(n) : File(n)[k] = pin
      BY <3>1, <3>3 DEF StillAskedFor, pin
    <3>5. m = pin.mod
      BY <2>1, <2>4 DEF GetDependency, CheckoutDependency
    <3>6. CASE GetDependency
      BY <3>4, <3>5, <3>6 DEF GetDependency
    <3>7. CASE CheckoutDependency
      <4>1. work'[m] = pin.rev
        BY <2>1, <3>1, <3>5, <3>7 DEF CheckoutDependency, Checkout
      <4> QED
        BY <3>3, <3>4, <3>5, <4>1
    <3> QED
      BY <2>4, <3>6, <3>7
  <2> QED
    BY <2>2, <2>3, <2>4
      DEF Next, Script, Resolve, WalkOn, WalkReturns, SkipHead, AlreadyThere, Visited, Stop,
          RunAgain, Continue, vars, input, loopVars
<1> QED
  BY <1>1, SyncInvariance, StillAskedForInvariance, PTL DEF Spec

===============================================================================
