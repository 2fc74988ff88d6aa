---------------------------- MODULE DependentsCount ----------------------------
(***************************************************************************)
(* LibraryStorage.removeCircularDependencies, run on the installed         *)
(* libraries before their dependents are counted: a search from every      *)
(* library which, at every dependency it meets, deletes the opposite one.  *)
(***************************************************************************)
EXTENDS Sequences

CONSTANTS
  Lib,       \* installed libraries
  Missing,   \* libraries that are declared as dependencies but not installed
  Type,      \* preloaded, editor and dynamic dependencies
  Declared,  \* the dependency lists the libraries may have
  NoLib

Dependency == Type \X (Lib \cup Missing)
To(e) == e[2]

\* A library does not depend on itself.
ASSUME GraphAssumption ==
  /\ NoLib \notin Lib
  /\ Lib \cap Missing = {}
  /\ Declared \subseteq [Lib -> SUBSET Dependency]
  /\ \A g \in Declared, m \in Lib : \A e \in g[m] : To(e) # m

VARIABLES
  declared,  \* history: the dependency lists before the call
  deps,      \* the dependency lists
  rest,      \* libraries from which to search yet
  queue,     \* the queue of the current search
  cur,       \* currentLibrary
  todo       \* dependencies of cur not looked at yet

vars == <<declared, deps, rest, queue, cur, todo>>

Init ==
  /\ declared \in Declared
  /\ deps = declared
  /\ rest = Lib /\ queue = <<>> /\ cur = NoLib /\ todo = {}

\* A broken variant of Search: one search is thought to reach everything.
SearchOnce ==
  /\ queue = <<>> /\ cur = NoLib
  /\ \E l \in rest : queue' = <<l>>
  /\ rest' = {}
  /\ UNCHANGED <<declared, deps, cur, todo>>

\* for (const library of libraries)
Search ==
  /\ queue = <<>> /\ cur = NoLib
  /\ \E l \in rest : queue' = <<l>> /\ rest' = rest \ {l}
  /\ UNCHANGED <<declared, deps, cur, todo>>

Shift ==
  /\ queue # <<>> /\ cur = NoLib
  /\ cur' = Head(queue)
  /\ queue' = Tail(queue)
  /\ todo' = deps[Head(queue)]
  /\ UNCHANGED <<declared, deps, rest>>

\* A broken variant of Cut: both sides of a mutual dependency are deleted.
CutBoth ==
  /\ cur # NoLib
  /\ \E e \in todo :
       /\ todo' = todo \ {e}
       /\ IF To(e) \in Lib
          THEN /\ deps' = [m \in Lib |->
                             CASE m = To(e) -> {d \in deps[m] : To(d) # cur}
                               [] m = cur -> {d \in deps[m] : To(d) # To(e) \/ \A x \in deps[To(e)] : To(x) # cur}
                               [] OTHER -> deps[m]]
               /\ queue' = Append(queue, To(e))
          ELSE UNCHANGED <<deps, queue>>
  /\ UNCHANGED <<declared, rest, cur>>

\* A broken variant of Cut: only opposites of the same type are deleted.
CutSameType ==
  /\ cur # NoLib
  /\ \E e \in todo :
       /\ todo' = todo \ {e}
       /\ IF To(e) \in Lib
          THEN /\ deps' = [deps EXCEPT ![To(e)] = {d \in @ : d # <<e[1], cur>>}]
               /\ queue' = Append(queue, To(e))
          ELSE UNCHANGED <<deps, queue>>
  /\ UNCHANGED <<declared, rest, cur>>

\* removeCircularDependenciesForSingleLibraryOfType, for one dependency.
Cut ==
  /\ cur # NoLib
  /\ \E e \in todo :
       /\ todo' = todo \ {e}
       /\ IF To(e) \in Lib
          THEN /\ deps' = [deps EXCEPT ![To(e)] = {d \in @ : To(d) # cur}]
               /\ queue' = Append(queue, To(e))
          ELSE UNCHANGED <<deps, queue>>
  /\ UNCHANGED <<declared, rest, cur>>

Through ==
  /\ cur # NoLib /\ todo = {}
  /\ cur' = NoLib
  /\ UNCHANGED <<declared, deps, rest, queue, todo>>

Next == Search \/ Shift \/ Cut \/ Through

Spec == Init /\ [][Next]_vars

FairSpec == Spec /\ WF_vars(Next)

Done == rest = {} /\ queue = <<>> /\ cur = NoLib

(***************************************************************************)
(* Properties.                                                             *)
(***************************************************************************)
TypeOK ==
  /\ declared \in [Lib -> SUBSET Dependency]
  /\ deps \in [Lib -> SUBSET Dependency]
  /\ rest \subseteq Lib
  /\ queue \in Seq(Lib)
  /\ cur \in Lib \cup {NoLib}
  /\ todo \subseteq Dependency

DependsOn(g, m, l) == \E e \in g[m] : To(e) = l

Kept(m, l) == {e \in declared[m] : To(e) = l} = {e \in deps[m] : To(e) = l}

\* Cutting loses no relation between two libraries: a dependency is gone only
\* if the library depends on its dependent itself, and that is still counted.
\* In whatever order libraries and dependencies come, two libraries that need
\* each other never both end without dependents.
OneSideKept ==
  \A m, l \in Lib : \/ Kept(m, l)
                    \/ /\ ~DependsOn(deps, m, l)
                       /\ DependsOn(declared, l, m) /\ Kept(l, m)

\* When the search is over, no two libraries depend on each other any more: none
\* of the two is kept installed by the other alone.
NoMutualLeft ==
  Done => \A m, l \in Lib : ~(DependsOn(deps, m, l) /\ DependsOn(deps, l, m))

\* "Counts how often libraries are listed in the dependencies of other libraries
\* and returns a list of the number": the call returns.
Returns == <>Done
=================================================================================
