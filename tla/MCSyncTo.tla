------------------------------ MODULE MCSyncTo ------------------------------
(***************************************************************************)
(* Small histories: Main lists A and B in several ways, and A and B pin    *)
(* each other and C, so that pins agree, disagree and go round in circles. *)
(***************************************************************************)
EXTENDS SyncTo, SequencesExt

CONSTANTS A, B, C, r1, r2

At(m, r) == [mod |-> m, rev |-> r]

MainLists == {<<At(A, r1), At(B, r1)>>, <<At(B, r2), At(A, r1)>>, <<At(C, r1), At(B, r1)>>}

ALists == [r1 : {<<At(B, r2)>>, <<At(C, r2), At(B, r1)>>}, r2 : {<<>>, <<At(B, r1)>>}]
BLists == [r1 : {<<At(A, r2)>>, <<At(Main, r2), At(C, r2)>>}, r2 : {<<>>, <<At(A, r1), At(C, r1)>>}]

Commits(one, two) == [r \in Rev |-> IF r = r1 THEN one ELSE two]

MCHistories ==
  {[m \in Module |->
      CASE m = Main -> Commits(main, <<At(B, r2)>>)
        [] m = A -> Commits(a.r1, a.r2)
        [] m = B -> Commits(b.r1, b.r2)
        [] m = C -> Commits(<<>>, <<>>)] :
     main \in MainLists, a \in ALists, b \in BLists}

-----------------------------------------------------------------------------
(* The walk as the recursion it is: deps[m][r] is what it reads for module *)
(* m asked for at revision r.                                              *)
RECURSIVE Walk(_, _, _)
Walk(deps, found, p) ==
  IF p.mod \in found.met THEN found ELSE
  LET met   == [found EXCEPT !.met = @ \cup {p.mod}]
      below == FoldLeft(LAMBDA f, q : Walk(deps, f, q), met, deps[p.mod][p.rev])
  IN  [below EXCEPT !.list = Append(@, p)]

Resolved(deps, p) == Walk(deps, [met |-> {}, list |-> <<>>], p).list

(* The walk step by step, and the recursion the function is written as,    *)
(* find the same modules in the same order.                                *)
ASSUME StepsAreTheRecursion ==
  \A history \in MCHistories, r \in Rev :
    LET files == [m \in Module |-> [q \in Rev \cup {HEAD} |-> history[m][IF q = HEAD THEN r ELSE q]]]
        list  == Resolved(files, MainAtHEAD)
    IN  /\ WalkEndsWith(files, list)
        /\ Walked(files)[Cardinality(Steps(files, list))].met = ModulesOf(list)

=============================================================================
