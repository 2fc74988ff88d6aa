------------------------- MODULE DependentsCountProofs -------------------------
(***************************************************************************)
(* For every set of libraries and every graph of dependencies, rings        *)
(* included: cutting keeps every relation on one side, and the search meets *)
(* every mutual dependency.                                                 *)
(***************************************************************************)
EXTENDS DependentsCount, Integers, TLAPS

\* What is still to be looked at is still a dependency of the current library.
TodoIsKept == IF cur = NoLib THEN todo = {} ELSE todo \subseteq deps[cur]

NoSelf == \A m \in Lib : \A e \in deps[m] : To(e) # m

CutInv == TypeOK /\ TodoIsKept /\ NoSelf /\ OneSideKept

LEMMA CutInit == Init => CutInv
<1> SUFFICES ASSUME Init PROVE CutInv
  OBVIOUS
<1>1. TypeOK
  BY GraphAssumption DEF Init, TypeOK
<1>2. TodoIsKept /\ NoSelf
  BY GraphAssumption DEF Init, TodoIsKept, NoSelf
<1>3. OneSideKept
  BY DEF Init, OneSideKept, Kept
<1>4. QED
  BY <1>1, <1>2, <1>3 DEF CutInv

LEMMA CutType == TypeOK /\ [Next]_vars => TypeOK'
<1> SUFFICES ASSUME TypeOK, [Next]_vars PROVE TypeOK'
  OBVIOUS
<1> USE DEF TypeOK
<1>1. CASE Search
  BY <1>1 DEF Search
<1>2. CASE Shift
  <2>1. Head(queue) \in Lib /\ Tail(queue) \in Seq(Lib)
    BY <1>2 DEF Shift
  <2>2. QED
    BY <1>2, <2>1 DEF Shift
<1>3. CASE Cut
  <2>1. PICK e \in todo : Cut!2!(e)
    BY <1>3 DEF Cut
  <2>2. UNCHANGED <<declared, rest, cur>>
    BY <1>3 DEF Cut
  <2>3. todo' \subseteq Dependency
    BY <2>1
  <2>4. CASE To(e) \in Lib
    <3>1. /\ deps' = [deps EXCEPT ![To(e)] = {d \in @ : To(d) # cur}]
          /\ queue' = Append(queue, To(e))
      BY <2>1, <2>4
    <3>2. deps' \in [Lib -> SUBSET Dependency]
      BY <3>1
    <3>3. queue' \in Seq(Lib)
      BY <3>1, <2>4
    <3>4. QED
      BY <2>2, <2>3, <3>2, <3>3
  <2>5. CASE To(e) \notin Lib
    BY <2>1, <2>2, <2>3, <2>5
  <2>6. QED
    BY <2>4, <2>5
<1>4. CASE Through
  BY <1>4 DEF Through
<1>5. CASE UNCHANGED vars
  BY <1>5 DEF vars
<1>6. QED
  BY <1>1, <1>2, <1>3, <1>4, <1>5 DEF Next

\* The step that changes a list: the library e leads to drops cur, and cur keeps
\* all its dependencies on that library.
LEMMA CutKeeps ==
  ASSUME CutInv, Cut PROVE TodoIsKept' /\ NoSelf' /\ OneSideKept'
<1> USE DEF CutInv
<1>1. PICK e \in todo : Cut!2!(e)
  BY DEF Cut
<1>2. UNCHANGED <<declared, cur>> /\ cur \in Lib
  BY DEF Cut, TypeOK
<1>3. e \in deps[cur] /\ todo \subseteq deps[cur]
  BY <1>2, GraphAssumption DEF TodoIsKept
<1>4. CASE To(e) \notin Lib
  <2>1. UNCHANGED deps /\ todo' = todo \ {e}
    BY <1>1, <1>4
  <2>2. QED
    BY <1>2, <1>3, <2>1, GraphAssumption
    DEF TodoIsKept, NoSelf, OneSideKept, Kept, DependsOn
<1>5. CASE To(e) \in Lib
  <2> DEFINE t == To(e)
  <2>1. /\ todo' = todo \ {e}
        /\ deps' = [deps EXCEPT ![t] = {d \in @ : To(d) # cur}]
    BY <1>1, <1>5
  <2>2. t # cur
    BY <1>2, <1>3 DEF NoSelf
  <2>3. \A m \in Lib : deps'[m] = IF m = t THEN {d \in deps[t] : To(d) # cur} ELSE deps[m]
    BY <2>1, <1>5 DEF TypeOK
  <2>4. TodoIsKept'
    BY <2>1, <2>2, <2>3, <1>2, <1>3, GraphAssumption DEF TodoIsKept
  <2>5. NoSelf'
    BY <2>3 DEF NoSelf
  <2>6. Kept(cur, t)
    <3>1. DependsOn(deps, cur, t)
      BY <1>3 DEF DependsOn
    <3>2. QED
      BY <3>1, <1>2, <1>5 DEF OneSideKept
  <2>7. ASSUME NEW m \in Lib, NEW l \in Lib
        PROVE  \/ Kept(m, l)'
               \/ ~DependsOn(deps, m, l)' /\ DependsOn(declared, l, m)' /\ Kept(l, m)'
    <3>1. CASE m = t /\ l = cur
      <4>1. ~DependsOn(deps, t, cur)'
        BY <2>3, <1>2, <1>5 DEF DependsOn
      <4>2. Kept(cur, t)'
        BY <2>2, <2>3, <2>6, <1>2 DEF Kept
      <4>3. DependsOn(declared, cur, t)'
        BY <1>2, <1>3, <2>6 DEF DependsOn, Kept
      <4>4. QED
        BY <4>1, <4>2, <4>3, <3>1, <1>2
    <3>2. CASE ~(m = t /\ l = cur)
      <4>1. {d \in deps'[m] : To(d) = l} = {d \in deps[m] : To(d) = l}
        BY <2>3, <3>2
      <4>2. Kept(m, l)' <=> Kept(m, l)
        BY <4>1, <1>2 DEF Kept
      <4>3. DependsOn(deps, m, l)' <=> DependsOn(deps, m, l)
        BY <4>1, <1>2 DEF DependsOn
      <4>4. CASE Kept(m, l)
        BY <4>2, <4>4
      <4>5. CASE ~DependsOn(deps, m, l) /\ DependsOn(declared, l, m) /\ Kept(l, m)
        <5>1. DependsOn(declared, l, m)'
          BY <4>5, <1>2 DEF DependsOn
        <5>2. CASE l = t /\ m = cur
          BY <2>6, <4>2, <5>2
        <5>3. CASE ~(l = t /\ m = cur)
          <6>1. {d \in deps'[l] : To(d) = m} = {d \in deps[l] : To(d) = m}
            BY <2>3, <5>3
          <6>2. Kept(l, m)'
            BY <6>1, <4>5, <1>2 DEF Kept
          <6>3. QED
            BY <4>3, <4>5, <5>1, <6>2
        <5>4. QED
          BY <5>2, <5>3
      <4>6. QED
        BY <4>4, <4>5 DEF OneSideKept
    <3>3. QED
      BY <3>1, <3>2
  <2>8. QED
    BY <2>4, <2>5, <2>7 DEF OneSideKept
<1>6. QED
  BY <1>4, <1>5

LEMMA CutNext == CutInv /\ [Next]_vars => CutInv'
<1> SUFFICES ASSUME CutInv, [Next]_vars PROVE CutInv'
  OBVIOUS
<1>1. TypeOK'
  BY CutType DEF CutInv
<1>2. CASE Cut
  BY <1>1, <1>2, CutKeeps DEF CutInv
<1>3. CASE Search \/ Shift \/ Through \/ UNCHANGED vars
  <2>1. UNCHANGED <<declared, deps>>
    BY <1>3 DEF Search, Shift, Through, vars
  <2>2. NoSelf' /\ OneSideKept'
    BY <2>1 DEF CutInv, NoSelf, OneSideKept, Kept, DependsOn
  <2>3. TodoIsKept'
    BY <1>3, GraphAssumption
    DEF CutInv, TypeOK, TodoIsKept, Search, Shift, Through, vars
  <2>4. QED
    BY <1>1, <2>2, <2>3 DEF CutInv
<1>4. QED
  BY <1>2, <1>3 DEF Next

\* Whatever the graph, the search keeps to installed libraries and their declared
\* kinds of dependencies.
THEOREM CutTypeCorrect == Spec => []TypeOK
<1>1. CutInv => TypeOK
  BY DEF CutInv
<1>2. QED
  BY <1>1, CutInit, CutNext, PTL DEF Spec

\* No relation between two libraries is lost by cutting: what is cut on one side
\* is kept, and counted, on the other.
THEOREM NoRelationLost == Spec => []OneSideKept
<1>1. CutInv => OneSideKept
  BY DEF CutInv
<1>2. QED
  BY <1>1, CutInit, CutNext, PTL DEF Spec

(***************************************************************************)
(* No mutual dependency is missed.                                         *)
(***************************************************************************)
Mutual(m, l) == DependsOn(deps, m, l) /\ DependsOn(deps, l, m)

\* The search has m before it.
Waits(m) == m \in rest \/ \E i \in 1..Len(queue) : queue[i] = m

\* It is looking at the dependencies of m and has that on l before it.
LookedAt(m, l) == m = cur /\ \E e \in todo : To(e) = l

MutualAhead == \A m, l \in Lib : Mutual(m, l) => Waits(m) \/ LookedAt(m, l)

\* What waits, in the list or in the queue, waits until it is shifted.
LEMMA SearchWaits == TypeOK /\ Search => \A m \in Lib : Waits(m) => Waits(m)'
<1> SUFFICES ASSUME TypeOK, Search, NEW m \in Lib, Waits(m) PROVE Waits(m)'
  OBVIOUS
<1>1. PICK l \in rest : queue' = <<l>> /\ rest' = rest \ {l}
  BY DEF Search
<1>2. m \in rest
  BY DEF Waits, Search
<1>3. CASE m = l
  <2>1. 1 \in 1..Len(queue') /\ queue'[1] = m
    BY <1>1, <1>3
  <2> QED  BY <2>1 DEF Waits
<1>4. CASE m # l
  BY <1>1, <1>2, <1>4 DEF Waits
<1> QED  BY <1>3, <1>4

LEMMA ShiftWaits == TypeOK /\ Shift => \A m \in Lib : Waits(m) => Waits(m)' \/ m = cur'
<1> SUFFICES ASSUME TypeOK, Shift, NEW m \in Lib, Waits(m), m # cur' PROVE Waits(m)'
  OBVIOUS
<1>1. /\ queue \in Seq(Lib) /\ queue # <<>> /\ rest' = rest
      /\ cur' = Head(queue) /\ queue' = Tail(queue)
  BY DEF Shift, TypeOK
<1>2. CASE m \in rest
  BY <1>1, <1>2 DEF Waits
<1>3. CASE m \notin rest
  <2>1. PICK i \in 1..Len(queue) : queue[i] = m
    BY <1>3 DEF Waits
  <2>2. i # 1
    BY <1>1, <2>1
  <2>3. i - 1 \in 1..Len(queue') /\ queue'[i - 1] = m
    BY <1>1, <2>1, <2>2
  <2> QED  BY <2>3 DEF Waits
<1> QED  BY <1>2, <1>3

LEMMA CutWaits == TypeOK /\ Cut => \A m \in Lib : Waits(m) => Waits(m)'
<1> SUFFICES ASSUME TypeOK, Cut, NEW m \in Lib, Waits(m) PROVE Waits(m)'
  OBVIOUS
<1>1. rest' = rest /\ queue \in Seq(Lib)
  BY DEF Cut, TypeOK
<1>2. queue' = queue \/ \E l \in Lib : queue' = Append(queue, l)
  BY DEF Cut
<1>3. \A i \in 1..Len(queue) : i \in 1..Len(queue') /\ queue'[i] = queue[i]
  BY <1>1, <1>2
<1> QED  BY <1>1, <1>3 DEF Waits

LEMMA MutualNext == TypeOK /\ MutualAhead /\ [Next]_vars => MutualAhead'
<1> SUFFICES ASSUME TypeOK, MutualAhead, [Next]_vars, NEW m \in Lib, NEW l \in Lib, Mutual(m, l)'
             PROVE  Waits(m)' \/ LookedAt(m, l)'
  BY DEF MutualAhead
<1>1. CASE Search
  <2>1. Waits(m)
    BY <1>1, GraphAssumption DEF Search, MutualAhead, Mutual, DependsOn, LookedAt
  <2> QED  BY <1>1, <2>1, SearchWaits
<1>2. CASE Shift
  <2>1. Waits(m)
    BY <1>2, GraphAssumption DEF Shift, MutualAhead, Mutual, DependsOn, LookedAt
  <2>2. CASE m = cur'
    BY <1>2, <2>2 DEF Shift, Mutual, DependsOn, LookedAt
  <2> QED  BY <1>2, <2>1, <2>2, ShiftWaits
<1>3. CASE Cut
  <2>1. PICK e \in todo : Cut!2!(e)
    BY <1>3 DEF Cut
  <2>2. cur \in Lib /\ cur' = cur /\ todo' = todo \ {e}
    BY <1>3, <2>1 DEF Cut, TypeOK
  <2>3. \A k \in Lib : deps'[k] \subseteq deps[k]
    BY <2>1 DEF TypeOK
  <2>4. Mutual(m, l)
    BY <2>3 DEF Mutual, DependsOn
  <2>5. CASE Waits(m)
    BY <1>3, <2>5, CutWaits
  <2>6. CASE LookedAt(m, l)
    <3>1. PICK d \in todo : m = cur /\ To(d) = l
      BY <2>6 DEF LookedAt
    <3>2. d # e
      <4>1. SUFFICES ASSUME d = e PROVE FALSE
        OBVIOUS
      <4>2. \A x \in deps'[l] : To(x) # m
        BY <2>1, <3>1, <4>1 DEF TypeOK
      <4> QED  BY <4>2 DEF Mutual, DependsOn
    <3> QED  BY <2>2, <3>1, <3>2 DEF LookedAt
  <2> QED  BY <2>4, <2>5, <2>6 DEF MutualAhead
<1>4. CASE Through \/ UNCHANGED vars
  <2>1. UNCHANGED <<deps, rest, queue, todo>> /\ (cur' = cur \/ todo = {})
    BY <1>4 DEF Through, vars
  <2> QED  BY <2>1 DEF MutualAhead, Mutual, DependsOn, Waits, LookedAt
<1> QED  BY <1>1, <1>2, <1>3, <1>4 DEF Next

\* When the search is over, whatever the graph and the order, no two libraries
\* depend on each other any more.
THEOREM MutualCut == Spec => []NoMutualLeft
<1>1. CutInv => TypeOK
  BY DEF CutInv
<1>2. Init => MutualAhead
  BY DEF Init, MutualAhead, Waits
<1>3. MutualAhead => NoMutualLeft
  <2> SUFFICES ASSUME MutualAhead, Done, NEW m \in Lib, NEW l \in Lib PROVE ~Mutual(m, l)
    BY DEF NoMutualLeft, Mutual
  <2>1. ~Waits(m)
    BY DEF Done, Waits
  <2>2. ~LookedAt(m, l)
    BY GraphAssumption DEF Done, LookedAt
  <2> QED  BY <2>1, <2>2 DEF MutualAhead
<1> QED  BY <1>1, <1>2, <1>3, CutInit, CutNext, MutualNext, PTL DEF Spec
=================================================================================
