------------------------------- MODULE SyncTo -------------------------------
(***************************************************************************)
(* qt_internal_sync_to: bring a repository and everything it depends on to *)
(* the revisions its dependencies.yaml files pin, by repeated walks over   *)
(* the worktrees as they are, each followed by at most one checkout.  A    *)
(* git command is one step; it may fail, and the script may be interrupted *)
(* between any two and run again.                                          *)
(*                                                                         *)
(* Pins are full hashes, as the files of Qt have them, so the one checked  *)
(* out can be compared with the one asked for.                             *)
(***************************************************************************)
EXTENDS DependencyWalk, FiniteSets

CONSTANTS
  Main,          (* the repository synchronised                            *)
  Dep,           (* the other repositories                                 *)
  Rev,           (* commits of a repository                                *)
  HEAD, Absent,
  Histories,     (* what the dependencies.yaml files may say: a set of     *)
                 (* functions module -> commit -> sequence of pins         *)
  MaxStops       (* bound: runs that fail or are interrupted               *)

Module == {Main} \cup Dep
Pin == [mod : Module, rev : Rev \cup {HEAD}]

ASSUME RevisionAssumption == {HEAD, Absent} \cap Rev = {} /\ HEAD # Absent
ASSUME HistoryAssumption == Histories \subseteq [Module -> [Rev -> Seq(Pin)]]
ASSUME StopAssumption == MaxStops \in Nat

VARIABLES
  pins,          (* the history of this behaviour: constant                *)
  ref,           (* the SYNC_REF asked for: constant                       *)
  work,          (* module -> commit of its worktree, or Absent            *)
  pc,
  i,             (* the position in the list; 0 is past its end            *)
  visit,         (* should_visit_dependencies                              *)
  stops

input == <<pins, ref>>
loopVars == <<walkVars, i, visit>>
vars == <<input, work, pc, loopVars, stops>>

TypeOK ==
  /\ pins \in Histories /\ ref \in Rev \cup {HEAD}
  /\ work \in [Module -> Rev \cup {Absent}]
  /\ pc \in {"acquire", "checkout", "resolve", "walk", "visit", "done", "stopped"}
  /\ seen \subseteq Module
  /\ frames \in Seq([pin : Pin, at : Nat \ {0}])
  /\ frames = <<>> <=> pc # "walk"
  /\ dependencies \in Seq(Pin) /\ i \in 0..Len(dependencies)
  /\ visit \in BOOLEAN
  /\ stops \in 0..MaxStops

(* Any worktrees, whatever an earlier run or a developer left. *)
Init ==
  /\ pins \in Histories /\ ref \in Rev \cup {HEAD}
  /\ work \in [Module -> Rev \cup {Absent}]
  /\ pc = "acquire"
  /\ NoWalk /\ i = 0 /\ visit = FALSE
  /\ stops = 0

(* git checkout: HEAD stays where it is. *)
Checkout(m, r) == IF r = HEAD THEN work[m] ELSE r

(* The submodule is initialised, or cloned, at whatever commit it has.     *)
AcquireMain ==
  /\ pc = "acquire"
  /\ IF work[Main] = Absent
       THEN \E r \in Rev : work' = [work EXCEPT ![Main] = r]
       ELSE UNCHANGED work
  /\ pc' = "checkout"
  /\ UNCHANGED <<input, loopVars, stops>>

CheckoutMain ==
  /\ pc = "checkout"
  /\ work' = [work EXCEPT ![Main] = Checkout(Main, ref)]
  /\ pc' = "resolve"
  /\ UNCHANGED <<input, loopVars, stops>>

(* What the walk reads: the dependencies.yaml of the worktree, whatever    *)
(* revision is asked for; nothing where there is none.                     *)
File(m) == IF work[m] = Absent THEN <<>> ELSE pins[m][work[m]]

LastIndexUncorrected(list) == Len(list) + 1

LastIndex(list) == Len(list)

Resolve ==
  /\ pc = "resolve"
  /\ WalkFrom([mod |-> Main, rev |-> HEAD])
  /\ i' = 0 /\ visit' = FALSE
  /\ pc' = "walk"
  /\ UNCHANGED <<input, work, stops>>

WalkOn ==
  /\ pc = "walk"
  /\ SkipSeen(File(Top.pin.mod)) \/ Descend(File(Top.pin.mod))
  /\ UNCHANGED <<input, work, pc, i, visit, stops>>

(* A call returns to the one below, the first one to the loop. *)
WalkReturns ==
  /\ pc = "walk"
  /\ Return(File(Top.pin.mod))
  /\ IF Len(frames) = 1
       THEN pc' = "visit" /\ i' = LastIndex(dependencies')
       ELSE UNCHANGED <<pc, i>>
  /\ UNCHANGED <<input, work, visit, stops>>

pin == dependencies[i]

LeftAloneNever(p) == FALSE

(* The starting point of the walk, which is at its revision already. *)
LeftAlone(p) == p.rev = HEAD

Visiting == pc = "visit" /\ i # 0

Continue == i' = i - 1 /\ UNCHANGED <<input, work, pc, walkVars, visit, stops>>

SkipHead == Visiting /\ LeftAlone(pin) /\ Continue

(* A new worktree taken for one that is where it should be. *)
RevisitIfElsewhere(r) == visit' = (visit \/ r # pin.rev)

RevisitAfterGet(r) == visit' = TRUE

(* qt_internal_get_dependency: a worktree at whatever commit the clone,    *)
(* the submodule or the parallel worktree has.  The comparison follows.    *)
GetDependency ==
  /\ Visiting /\ ~LeftAlone(pin)
  /\ work[pin.mod] = Absent
  /\ \E r \in Rev :
       /\ work' = [work EXCEPT ![pin.mod] = r]
       /\ RevisitAfterGet(r)
  /\ UNCHANGED <<input, pc, walkVars, i, stops>>

AlreadyThere ==
  Visiting /\ ~LeftAlone(pin) /\ work[pin.mod] = pin.rev /\ Continue

(* The first that is elsewhere is checked out, and all are visited again. *)
CheckoutDependency ==
  /\ Visiting /\ ~LeftAlone(pin)
  /\ work[pin.mod] \notin {Absent, pin.rev}
  /\ work' = [work EXCEPT ![pin.mod] = Checkout(pin.mod, pin.rev)]
  /\ visit' = TRUE
  /\ pc' = "resolve"
  /\ UNCHANGED <<input, walkVars, i, stops>>

Visited ==
  /\ pc = "visit" /\ i = 0
  /\ pc' = IF visit THEN "resolve" ELSE "done"
  /\ UNCHANGED <<input, work, loopVars, stops>>

(* A git command fails, which is fatal, or the user interrupts; what the   *)
(* script had found is gone.                                               *)
Stop ==
  /\ pc \notin {"done", "stopped"} /\ stops < MaxStops
  /\ pc' = "stopped" /\ stops' = stops + 1
  /\ seen' = {} /\ frames' = <<>> /\ dependencies' = <<>>
  /\ i' = 0 /\ visit' = FALSE
  /\ UNCHANGED <<input, work>>

RunAgain ==
  /\ pc = "stopped"
  /\ pc' = "acquire"
  /\ UNCHANGED <<input, work, loopVars, stops>>

Script ==
  \/ AcquireMain \/ CheckoutMain \/ Resolve \/ WalkOn \/ WalkReturns
  \/ SkipHead \/ GetDependency \/ AlreadyThere \/ CheckoutDependency
  \/ Visited

Next == Script \/ Stop \/ RunAgain

Spec == Init /\ [][Next]_vars /\ WF_vars(Script)

-----------------------------------------------------------------------------
ModulesOf(list) == {list[j].mod : j \in 1..Len(list)}

(* m needs n, as the worktrees are. *)
Needs(m, n) == n \in ModulesOf(File(m))

(* n is in every set that has what m needs and what its members need. *)
Reaches(m, n) ==
  \A T \in SUBSET Module :
    (\A k, l \in Module : k \in {m} \cup T /\ Needs(k, l) => l \in T) => n \in T

Needed == {Main} \cup {m \in Module : Reaches(Main, m)}

(* The list, while nothing has changed under it: all of what Main reaches, *)
(* once each, and every module after what it needs unless the two need     *)
(* each other (the topological order the header of the function promises,  *)
(* and what the build configures the modules in).                          *)
DependenciesFirst ==
  pc \in {"visit", "done"} /\ ~visit =>
    /\ ModulesOf(dependencies) = Needed
    /\ \A j, k \in 1..Len(dependencies) :
         LET a == dependencies[j].mod
             b == dependencies[k].mod
         IN  /\ a = b => j = k
             /\ j < k /\ Needs(a, b) => Reaches(b, a)

(* When the script says it is finished, Main is where it was asked to be,  *)
(* and every repository that is needed, directly or not, by the commits    *)
(* now checked out is at a commit that one of them pins, or was not pinned *)
(* at all: no checkout has undone what an earlier one was for, and no      *)
(* repository was left out because another had just been acquired.         *)
SyncedAsPinned ==
  pc = "done" =>
    /\ ref # HEAD => work[Main] = ref
    /\ \A m \in Needed \ {Main} :
         \E k \in Needed : \E j \in DOMAIN File(k) :
           File(k)[j].mod = m /\ File(k)[j].rev \in {HEAD, work[m]}

(* The walk on paper, over files that do not change under it: files[m][r]  *)
(* is what is read for module m asked for at revision r.  w.calls are the  *)
(* calls under way, w.met and w.list what has been met and listed.         *)
MainAtHEAD == [mod |-> Main, rev |-> HEAD]

WalkStart == [met |-> {Main}, calls |-> <<Call(MainAtHEAD)>>, list |-> <<>>]

WalkStep(files, w) ==
  LET n    == Len(w.calls)
      top  == w.calls[n]
      file == files[top.pin.mod][top.pin.rev]
      q    == file[top.at]
      on   == [w.calls EXCEPT ![n].at = @ + 1]
  IN  IF n = 0 THEN w
      ELSE IF top.at > Len(file)
        THEN [w EXCEPT !.calls = SubSeq(@, 1, n - 1), !.list = Append(@, top.pin)]
      ELSE IF q.mod \in w.met THEN [w EXCEPT !.calls = on]
      ELSE [w EXCEPT !.met = @ \cup {q.mod}, !.calls = Append(on, Call(q))]

Walked(files) ==
  LET walk[n \in Nat] == IF n = 0 THEN WalkStart ELSE WalkStep(files, walk[n - 1])
  IN  walk

(* A walk that lists these modules takes a step for every entry of their   *)
(* files, and one for the end of each.                                     *)
Steps(files, list) ==
  UNION {{p} \X (1..(Len(files[p.mod][p.rev]) + 1)) : p \in {list[j] : j \in 1..Len(list)}}

WalkEndsWith(files, list) ==
  LET w == Walked(files)[Cardinality(Steps(files, list))]
  IN  w.calls = <<>> /\ w.list = list

(* What the pinned commits say.  Of the worktrees only those enter that    *)
(* the script leaves where they are: Main, and what is pinned to HEAD.     *)
AsPinned ==
  [m \in Module |-> [r \in Rev \cup {HEAD} |-> IF r = HEAD THEN File(m) ELSE pins[m][r]]]

(* When the script says it is finished, the repositories it went through   *)
(* are those a walk over the pinned commits finds, each at the commit that *)
(* walk finds it at, so the outcome does not depend on what was checked    *)
(* out before, on the order of the checkouts, on where a clone started, or *)
(* on earlier runs that were cut short; also when two repositories pin     *)
(* different commits of a third.                                           *)
SyncedSetIsCanonical ==
  pc = "done" =>
    /\ WalkEndsWith(AsPinned, dependencies)
    /\ \A j \in 1..Len(dependencies) : dependencies[j].rev \in {HEAD, work[dependencies[j].mod]}

(* The loop ends, although every checkout changes what the next walk finds *)
(* and may undo what an earlier one was for, with pins that disagree and   *)
(* repositories that need each other.                                      *)
SyncEnds == <>[](pc \in {"done", "stopped"})

=============================================================================
