--------------------------- MODULE DependencyWalk ---------------------------
(***************************************************************************)
(* qt_internal_resolve_module_dependencies: the depth-first walk over the  *)
(* dependencies of a repository, in the order its dependencies.yaml lists  *)
(* them.  A call of the function is a frame: the pin [mod, rev] it was     *)
(* asked for, and the place of its loop.  `list` is what the file of the   *)
(* topmost call's module says, a sequence of pins.  Optional dependencies  *)
(* count (neither caller modelled excludes them), and no module is skipped *)
(* on request.                                                             *)
(***************************************************************************)
EXTENDS Integers, Sequences

VARIABLES
  seen,          (* _qt_internal_seen_repos                                *)
  frames,        (* the calls under way                                    *)
  dependencies   (* out_ordered with out_revisions, of all calls           *)

walkVars == <<seen, frames, dependencies>>

NoWalk == seen = {} /\ frames = <<>> /\ dependencies = <<>>

Call(pin) == [pin |-> pin, at |-> 1]

(* The modules met in an earlier walk not forgotten. *)
WalkFromStale(pin) ==
  /\ seen' = seen \cup {pin.mod}
  /\ frames' = <<Call(pin)>>
  /\ dependencies' = <<>>

WalkFrom(pin) ==
  /\ seen' = {pin.mod}
  /\ frames' = <<Call(pin)>>
  /\ dependencies' = <<>>

Top == frames[Len(frames)]

Advanced == [frames EXCEPT ![Len(frames)].at = @ + 1]

(* Prepended, where it should come after what it needs. *)
ListedFirst(pin) == <<pin>> \o dependencies

Listed(pin) == Append(dependencies, pin)

(* A module met before, whatever revision it is asked for now. *)
SkipSeen(list) ==
  /\ Top.at <= Len(list) /\ list[Top.at].mod \in seen
  /\ frames' = Advanced
  /\ UNCHANGED <<seen, dependencies>>

Descend(list) ==
  /\ Top.at <= Len(list) /\ list[Top.at].mod \notin seen
  /\ seen' = seen \cup {list[Top.at].mod}
  /\ frames' = Append(Advanced, Call(list[Top.at]))
  /\ UNCHANGED dependencies

Return(list) ==
  /\ Top.at > Len(list)
  /\ dependencies' = Listed(Top.pin)
  /\ frames' = SubSeq(frames, 1, Len(frames) - 1)
  /\ UNCHANGED seen

=============================================================================
