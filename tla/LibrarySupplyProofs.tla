--------------------------- MODULE LibrarySupplyProofs ---------------------------
(***************************************************************************)
(* The three scripts that supply libraries, run in any order: everything   *)
(* the run of LibrarySupply checks but liveness, for any owners,           *)
(* repositories, versions and libraries.  Each script has an invariant of  *)
(* its own: DraftInv, PackagerInv and UploaderInv.                         *)
(***************************************************************************)
EXTENDS LibrarySupply, FiniteSetTheorems, WellFoundedInduction, TLAPS

(***************************************************************************)
(* The map file.                                                           *)
(***************************************************************************)
\* The owners visited so far.
Visited == Len(Owners) - Len(visit)

\* While the script runs, visit is a tail of Owners, and the draft is right about the
\* owners before it.
DraftInv ==
  script = "map" =>
    /\ visit \in Seq({Owners[i] : i \in DOMAIN Owners})
    /\ Visited \in 0..Len(Owners)
    /\ \A i \in 1..Len(visit) : visit[i] = Owners[Visited + i]
    /\ draft \in [Name -> Repo \cup {NoRepo}]
    /\ \A i \in 1..Visited : RepoMap!WonIn(draft, i, Visited)

\* What merging one owner's map does to a name: it gets a repository the owner offers,
\* and does so if the owner offers one and everything was read.
LEMMA MergedName ==
  ASSUME RepoMap!RepoConstants, NEW o \in {Owners[i] : i \in DOMAIN Owners},
         NEW seen \in SUBSET Offers[o], NEW own \in RepoMap!OwnMaps(seen),
         NEW old \in [Name -> Repo \cup {NoRepo}], NEW n \in Name
  PROVE  /\ RepoMap!Merge(old, own)[n] = old[n] \/ <<n, RepoMap!Merge(old, own)[n]>> \in Offers[o]
         /\ seen = Offers[o] /\ (\E r \in Repo : <<n, r>> \in Offers[o])
              => <<n, RepoMap!Merge(old, own)[n]>> \in Offers[o]
         /\ RepoMap!Merge(old, own) \in [Name -> Repo \cup {NoRepo}]
<1>1. Offers[o] \subseteq Name \X Repo /\ NoRepo \notin Repo
  BY DEF RepoMap!RepoConstants
<1>2. /\ own \in [Name -> Repo \cup {NoRepo}]
      /\ IF \E r \in Repo : <<n, r>> \in seen THEN <<n, own[n]>> \in seen ELSE own[n] = NoRepo
  BY DEF RepoMap!OwnMaps
<1>3. <<n, own[n]>> \in seen => own[n] # NoRepo
  BY <1>1
<1>4. RepoMap!Merge(old, own)[n] = IF own[n] # NoRepo THEN own[n] ELSE old[n]
  BY DEF RepoMap!Merge
<1>5. RepoMap!Merge(old, own) \in [Name -> Repo \cup {NoRepo}]
  BY <1>2 DEF RepoMap!Merge
<1> QED  BY <1>2, <1>3, <1>4, <1>5

\* The draft stays right while one more owner is visited.
LEMMA VisitKeepsDraft ==
  ASSUME RepoMap!RepoConstants, DraftInv, RepoMap!VisitOwner
  PROVE  DraftInv'
<1> DEFINE o == Head(visit)
<1>0. PICK k : k = Visited
  OBVIOUS
<1>1. /\ script = "map" /\ visit # <<>> /\ visit' = Tail(visit)
      /\ script' = script
  BY DEF RepoMap!VisitOwner
<1>2a. PICK seen \in SUBSET Offers[o] :
        /\ seen = Offers[o] \/ o \in missed'
        /\ missed \subseteq missed'
        /\ \E own \in RepoMap!OwnMaps(seen) : draft' = RepoMap!Merge(draft, own)
  BY DEF RepoMap!VisitOwner, RepoMap!JsonsRead, RepoMap!Repositories
<1>2b. PICK own \in RepoMap!OwnMaps(seen) : draft' = RepoMap!Merge(draft, own)
  BY <1>2a
<1>2. /\ seen = Offers[o] \/ o \in missed'
      /\ missed \subseteq missed'
      /\ draft' = RepoMap!Merge(draft, own)
  BY <1>2a, <1>2b
<1>3. /\ visit \in Seq({Owners[i] : i \in DOMAIN Owners})
      /\ Owners \in Seq({Owners[i] : i \in DOMAIN Owners})
      /\ k \in 0..Len(Owners)
      /\ \A i \in 1..Len(visit) : visit[i] = Owners[k + i]
      /\ draft \in [Name -> Repo \cup {NoRepo}]
      /\ \A i \in 1..k : RepoMap!WonIn(draft, i, k)
  BY <1>0, <1>1 DEF DraftInv, RepoMap!RepoConstants
<1>4. /\ visit' \in Seq({Owners[i] : i \in DOMAIN Owners})
      /\ Len(visit') = Len(visit) - 1
      /\ Len(visit) \in Nat \ {0} /\ Len(Owners) \in Nat
      /\ \A i \in 1..Len(visit') : visit'[i] = visit[i + 1]
      /\ o = visit[1]
  BY <1>1, <1>3
<1>5. /\ Visited' = k + 1 /\ k + 1 \in 1..Len(Owners) /\ k \in Nat
      /\ \A i \in 1..Len(visit') : visit'[i] = Owners[Visited' + i]
      /\ o = Owners[k + 1]
      /\ o \in {Owners[i] : i \in DOMAIN Owners}
  <2>1. Visited' = k + 1 /\ k \in Nat
    BY <1>0, <1>3, <1>4 DEF Visited
  <2>2. k + 1 \in 1..Len(Owners)
    BY <1>0, <1>3, <1>4 DEF Visited
  <2>3. \A i \in 1..Len(visit') : visit'[i] = Owners[Visited' + i]
    <3> TAKE i \in 1..Len(visit')
    <3>1. i + 1 \in 1..Len(visit)
      BY <1>4
    <3>2. visit'[i] = Owners[k + (i + 1)]
      BY <1>3, <1>4, <3>1
    <3> QED  BY <2>1, <3>2
  <2>4. o = Owners[k + 1]
    BY <1>3, <1>4
  <2> QED  BY <1>3, <2>1, <2>2, <2>3, <2>4
<1>6. ASSUME NEW i \in 1..(k + 1)
      PROVE  RepoMap!WonIn(draft, i, k + 1)'
  <2> SUFFICES ASSUME NEW n \in Name, NEW r \in Repo, <<n, r>> \in Offers[Owners[i]],
                      Owners[i] \notin missed'
               PROVE  \E j \in i..(k + 1) : <<n, draft'[n]>> \in Offers[Owners[j]]
    BY DEF RepoMap!WonIn
  <2>1. /\ draft'[n] = draft[n] \/ <<n, draft'[n]>> \in Offers[o]
        /\ seen = Offers[o] /\ (\E q \in Repo : <<n, q>> \in Offers[o])
             => <<n, draft'[n]>> \in Offers[o]
    BY <1>2, <1>3, <1>5, MergedName
  <2>2. CASE <<n, draft'[n]>> \in Offers[o]
    <3>1. k + 1 \in i..(k + 1)
      BY <1>5
    <3> QED  BY <1>5, <2>2, <3>1
  <2>3. CASE <<n, draft'[n]>> \notin Offers[o]
    <3>1. i # k + 1
      BY <1>2, <1>5, <2>1, <2>3
    <3>2. i \in 1..k
      BY <1>5, <3>1
    <3>3. \E j \in i..k : <<n, draft[n]>> \in Offers[Owners[j]]
      BY <1>2, <1>3, <3>2 DEF RepoMap!WonIn
    <3>4. PICK j \in i..k : <<n, draft[n]>> \in Offers[Owners[j]]
      BY <3>3
    <3>5. j \in i..(k + 1)
      BY <1>5, <3>2
    <3> QED  BY <2>1, <2>3, <3>4, <3>5
  <2> QED  BY <2>2, <2>3
<1>7. draft' \in [Name -> Repo \cup {NoRepo}]
  <2>1. CASE Name = {}
    BY <1>2, <2>1 DEF RepoMap!Merge
  <2>2. CASE Name # {}
    BY <1>2, <1>3, <1>5, <2>2, MergedName
  <2> QED  BY <2>1, <2>2
<1> QED  BY <1>1, <1>4, <1>5, <1>6, <1>7 DEF DraftInv

\* Every step keeps the invariant, and a map that is written is right.
LEMMA MapStep ==
  ASSUME RepoMap!RepoConstants, DraftInv, [RepoMap!MapNext]_RepoMap!mapVars
  PROVE  /\ DraftInv'
         /\ repoOf' # repoOf => \A i \in DOMAIN Owners : RepoMap!WonIn(repoOf', i, Len(Owners))
<1>1. CASE RepoMap!StartMap
  <2>1. /\ script' = "map" /\ visit' = Owners /\ repoOf' = repoOf
        /\ draft' = [n \in Name |-> NoRepo]
    BY <1>1 DEF RepoMap!StartMap, RepoMap!Unmapped
  <2>2. Owners \in Seq({Owners[i] : i \in DOMAIN Owners}) /\ Len(Owners) \in Nat
    BY DEF RepoMap!RepoConstants
  <2>3. Visited' = 0
    BY <2>1, <2>2 DEF Visited
  <2> QED  BY <2>1, <2>2, <2>3 DEF DraftInv
<1>2. CASE RepoMap!VisitOwner
  BY <1>2, VisitKeepsDraft DEF RepoMap!VisitOwner
<1>3. CASE RepoMap!WriteMap
  <2>1. script = "map" /\ visit = <<>> /\ repoOf' = draft /\ script' = "none"
    BY <1>3 DEF RepoMap!WriteMap
  <2>2. missed' = {}
    BY <1>3 DEF RepoMap!WriteMap
  <2>3. Owners \in Seq({Owners[i] : i \in DOMAIN Owners}) /\ DOMAIN Owners = 1..Len(Owners)
    BY DEF RepoMap!RepoConstants
  <2>4. Visited = Len(Owners)
    BY <2>1, <2>3 DEF Visited
  <2> QED  BY <2>1, <2>3, <2>4 DEF DraftInv
<1>4. CASE RepoMap!MapCrash
  BY <1>4 DEF RepoMap!MapCrash, DraftInv
<1>5. CASE UNCHANGED RepoMap!mapVars
  BY <1>5 DEF RepoMap!mapVars, DraftInv, Visited, RepoMap!WonIn
<1> QED  BY <1>1, <1>2, <1>3, <1>4, <1>5 DEF RepoMap!MapNext

\* Whatever the owners are, whatever they offer and whatever fails: a fork is taken
\* for the original only if a call about the original failed.
THEOREM LaterOwnersWin ==
  ASSUME RepoMap!RepoConstants
  PROVE  RepoMap!MapSpec => RepoMap!OfficialWins
<1>1. RepoMap!MapInit => DraftInv
  BY DEF RepoMap!MapInit, DraftInv
<1>2. DraftInv /\ [RepoMap!MapNext]_RepoMap!mapVars => DraftInv'
  BY MapStep
<1>3. DraftInv /\ [RepoMap!MapNext]_RepoMap!mapVars
        => [repoOf' # repoOf => \A i \in DOMAIN Owners : RepoMap!WonIn(repoOf', i, Len(Owners))]_RepoMap!mapVars
  BY MapStep
<1> QED  BY <1>1, <1>2, <1>3, PTL DEF RepoMap!MapSpec, RepoMap!OfficialWins
(***************************************************************************)
(* Sequences of items.                                                     *)
(***************************************************************************)
\* A finite set put in some order is a sequence of just its elements.
LEMMA Enumerates ==
  ASSUME NEW S, Packager!IsFiniteSet(S), NEW f \in Packager!SetToSeqs(S)
  PROVE  f \in Seq(S) /\ {f[i] : i \in DOMAIN f} = S
<1>1. IsFiniteSet(S) /\ Packager!Cardinality(S) = Cardinality(S)
  BY DEF Packager!IsFiniteSet, IsFiniteSet, Packager!Cardinality, Cardinality
<1>2. Cardinality(S) \in Nat
  BY <1>1, FS_CardinalityType
<1>3. /\ f \in [1..Cardinality(S) -> S]
      /\ \A i, j \in 1..Cardinality(S) : i # j => f[i] # f[j]
  BY <1>1 DEF Packager!SetToSeqs
<1>4. f \in Injection(1..Cardinality(S), S)
  BY <1>3 DEF Injection, IsInjective
<1>5. Cardinality(1..Cardinality(S)) = Cardinality(S)
  BY <1>2, FS_Interval
<1>6. f \in Surjection(1..Cardinality(S), S)
  BY <1>1, <1>4, <1>5, FS_Injection
<1> QED  BY <1>2, <1>3, <1>6 DEF Surjection

\* The packager's finite sets are those of the library.
LEMMA FiniteParts ==
  ASSUME NEW S, Packager!IsFiniteSet(S), NEW T \in SUBSET S
  PROVE  Packager!IsFiniteSet(T)
<1>1. IsFiniteSet(S)
  BY DEF Packager!IsFiniteSet, IsFiniteSet
<1>2. IsFiniteSet(T)
  BY <1>1, FS_Subset
<1> QED  BY <1>2 DEF Packager!IsFiniteSet, IsFiniteSet

\* The elements of a sequence.
El(q) == {q[i] : i \in DOMAIN q}

\* Sequences one after the other, and one put in place of the head of another.
LEMMA Joined ==
  ASSUME NEW T, NEW s \in Seq(T), NEW q \in Seq(T)
  PROVE  s \o q \in Seq(T) /\ El(s \o q) = El(s) \cup El(q)
<1>1. /\ s \o q \in Seq(T) /\ Len(s) \in Nat /\ Len(q) \in Nat
      /\ DOMAIN s = 1..Len(s) /\ DOMAIN q = 1..Len(q)
      /\ DOMAIN (s \o q) = 1..(Len(s) + Len(q))
      /\ \A i \in 1..Len(s) : (s \o q)[i] = s[i]
      /\ \A i \in 1..Len(q) : (s \o q)[Len(s) + i] = q[i]
  OBVIOUS
<1>2. El(s \o q) \subseteq El(s) \cup El(q)
  <2> SUFFICES ASSUME NEW i \in 1..(Len(s) + Len(q)) PROVE (s \o q)[i] \in El(s) \cup El(q)
    BY <1>1 DEF El
  <2>1. CASE i \in 1..Len(s)
    BY <1>1, <2>1 DEF El
  <2>2. CASE i \notin 1..Len(s)
    <3>1. i - Len(s) \in 1..Len(q) /\ i = Len(s) + (i - Len(s))
      BY <1>1, <2>2
    <3>2. (s \o q)[i] = q[i - Len(s)]
      BY <1>1, <3>1
    <3> QED  BY <1>1, <3>1, <3>2 DEF El
  <2> QED  BY <2>1, <2>2
<1>3. ASSUME NEW i \in 1..Len(s) PROVE s[i] \in El(s \o q)
  BY <1>1 DEF El
<1>4. ASSUME NEW i \in 1..Len(q) PROVE q[i] \in El(s \o q)
  <2>1. Len(s) + i \in 1..(Len(s) + Len(q))
    BY <1>1
  <2> QED  BY <1>1, <2>1 DEF El
<1> QED  BY <1>1, <1>2, <1>3, <1>4 DEF El

LEMMA Pushed ==
  ASSUME NEW T, NEW s \in Seq(T), NEW q \in Seq(T), q # <<>>
  PROVE  /\ s \o Tail(q) \in Seq(T) /\ Tail(q) \in Seq(T)
         /\ Head(q) \in T
         /\ El(q) = {Head(q)} \cup El(Tail(q))
         /\ El(s \o Tail(q)) = El(s) \cup El(Tail(q))
<1>1. /\ Tail(q) \in Seq(T) /\ Len(q) \in Nat \ {0}
      /\ Head(q) = q[1] /\ DOMAIN q = 1..Len(q) /\ DOMAIN Tail(q) = 1..(Len(q) - 1)
      /\ \A i \in 1..(Len(q) - 1) : Tail(q)[i] = q[i + 1]
      /\ \A i \in 1..Len(q) : q[i] \in T
  OBVIOUS
<1>2. El(q) \subseteq {Head(q)} \cup El(Tail(q))
  <2> SUFFICES ASSUME NEW i \in 1..Len(q) PROVE q[i] \in {Head(q)} \cup El(Tail(q))
    BY <1>1 DEF El
  <2>1. CASE i # 1
    <3>1. i - 1 \in 1..(Len(q) - 1)
      BY <1>1, <2>1
    <3>2. q[i] = Tail(q)[i - 1]
      BY <1>1, <3>1
    <3> QED  BY <1>1, <3>1, <3>2 DEF El
  <2> QED  BY <1>1, <2>1
<1>3. ASSUME NEW i \in 1..(Len(q) - 1) PROVE Tail(q)[i] \in El(q)
  <2>1. i + 1 \in 1..Len(q)
    BY <1>1
  <2> QED  BY <1>1, <2>1 DEF El
<1>4. q[1] \in El(q)
  BY <1>1 DEF El
<1>5. El(Tail(q)) \subseteq El(q) /\ Head(q) \in El(q)
  BY <1>1, <1>3, <1>4 DEF El
<1>6. s \o Tail(q) \in Seq(T) /\ El(s \o Tail(q)) = El(s) \cup El(Tail(q))
  BY ZenonT(60), <1>1, Joined
<1> QED  BY <1>1, <1>2, <1>5, <1>6

\* What a build leaves in its folder.
FolderType == [patch : 0..MaxPatch, files : SUBSET File, needs : SUBSET File]

LEMMA PackedFolder ==
  ASSUME NEW n \in Name, NEW t \in Packager!Tag, Packager!PackagerConstants,
         NEW v \in Repo \X Line \X Packager!Patch
  PROVE  LET result == Packager!Packed(n, t, Archive[v]) IN
         /\ result.folder \in FolderType
         /\ result.folder.patch = t.patch
         /\ result.built => Packager!Whole(result.folder)
         /\ Packager!Unpacked(Archive[v], t) \in FolderType
         /\ Packager!Unpacked(Archive[v], t).patch = t.patch
<1> DEFINE a == Archive[v]
           u == Packager!Unpacked(a, t)
           files == u.files \cup (IF Packager!NpmRuns(n, a) THEN a.made ELSE {})
           p == [u EXCEPT !.files = @ \cup (IF Packager!NpmRuns(n, a) THEN a.made ELSE {})]
           c == Packager!PathsCorrected(n, t, p, a)
           d == Packager!CleanedUp(c, a)
<1>1. a.files \in SUBSET File /\ a.needs \in SUBSET File /\ a.made \in SUBSET File
  BY DEF Packager!PackagerConstants
<1>2. t.patch \in 1..MaxPatch /\ MaxPatch \in Nat
  BY DEF Packager!Tag, Packager!Patch, Packager!PackagerConstants
<1>3. u \in FolderType /\ u.patch = t.patch
  BY <1>1, <1>2 DEF Packager!Unpacked, FolderType
<1> HIDE DEF u
<1>4. p \in FolderType /\ p.patch = t.patch
  BY <1>1, <1>3 DEF FolderType
<1> HIDE DEF p
<1>5. c \in FolderType /\ c.patch = t.patch
  BY <1>4 DEF FolderType, Packager!PathsCorrected
<1> HIDE DEF c
<1>6. d \in FolderType /\ d.patch = t.patch
  BY <1>5 DEF FolderType, Packager!CleanedUp
<1>7. Packager!Packed(n, t, a) = IF Packager!NpmRuns(n, a) /\ ~Packager!NpmSucceeds(n, t, a)
                                 THEN [built |-> FALSE, folder |-> u]
                                 ELSE [built |-> Packager!Whole(d), folder |-> d]
  BY DEF Packager!Packed, u, p, c
<1> HIDE DEF d
<1> QED  BY <1>3, <1>6, <1>7 DEF u

(***************************************************************************)
(* The packager.                                                           *)
(***************************************************************************)
Items ==
  [kind : {"library"}, name : Name]
    \cup [kind : {"version"}, name : Name, tag : Packager!Tag, repo : Repo]
    \cup [kind : {"dependency"}, name : Name, line : Line]

\* A version that is available depends on line l of n.
Wanted(n, l) == \E w \in available : <<n, l>> \in Packager!DependenciesOf(w[1], w[2])

\* HeldBack, of one version: in the Hub's own line, and in any.
Within(n, t) ==
  n \notin blind /\ Hub[n] # NoVersion /\ t.line = Hub[n].line /\ t.patch > Hub[n].patch
    => Pinned[n, t.line] # 0
       \/ ~\E u \in Tags[repoOf[n]] : u.line = Hub[n].line /\ u.patch = Hub[n].patch

NotAbove(n, t) ==
  Within(n, t) /\ (n \notin blind /\ ~Packager!BelowHub(t, Hub[n]) => Wanted(n, t.line))

\* An item of the agenda that is rightly there.
Right(x) ==
  /\ x.kind = "version" => x.repo = repoOf[x.name] /\ NotAbove(x.name, x.tag)
  /\ x.kind = "dependency" => Wanted(x.name, x.line)

\* The item will settle the dependency d.
Meets(x, d) ==
  /\ x.name = d[1]
  /\ \/ x.kind = "dependency" /\ x.line = d[2]
     \/ x.kind = "version" /\ x.tag.line = d[2]

Settled(d) ==
  d \in unresolved \/ \E w \in available \cup failed : w[1] = d[1] /\ w[2].line = d[2]

\* Only the packager has something to build.
Idle == script # "package" => agenda = <<>> /\ available = {}

\* A folder that holds something has been built from a version.
Filled == \A f \in Packager!Folders : folder[f].files # {} => folder[f].patch # 0

PackagerTypes ==
  /\ repoOf \in [Name -> Repo \cup {NoRepo}]
  /\ agenda \in Seq(Items)
  /\ available \subseteq Name \X Packager!Tag /\ failed \subseteq Name \X Packager!Tag
  /\ unresolved \subseteq Name \X Line
  /\ folder \in [Packager!Folders -> FolderType]

\* The versions to build are rightly there, and what the versions that were built
\* depend on is settled or still on the agenda.
AgendaRight ==
  /\ \A x \in El(agenda) : Right(x)
  /\ \A v \in available : repoOf[v[1]] \in Repo /\ NotAbove(v[1], v[2])
  /\ \A v \in available : \A d \in Packager!DependenciesOf(v[1], v[2]) :
       Settled(d) \/ \E x \in El(agenda) : Meets(x, d)

PackagerInv == PackagerTypes /\ Idle /\ Filled /\ AvailableIsWhole /\ AgendaRight

\* What the items and the constants are.
LEMMA ItemTypes ==
  /\ \A n \in Name : Packager!LibraryItem(n) \in Items
  /\ \A n \in Name, t \in Packager!Tag, r \in Repo : Packager!VersionItem(n, t, r) \in Items
  /\ \A x \in Items : /\ x.name \in Name
                      /\ x.kind = "version" => x.tag \in Packager!Tag /\ x.repo \in Repo
                      /\ x.kind = "dependency" => x.line \in Line
BY DEF Items, Packager!LibraryItem, Packager!VersionItem, Packager!DependencyItem

LEMMA DependencyItems ==
  ASSUME NEW d \in Name \X Line
  PROVE  Packager!DependencyItem(d) \in Items
BY DEF Items, Packager!DependencyItem

LEMMA Constants ==
  /\ \A t \in Packager!Tag : /\ t.line \in Line /\ t.line \in Nat /\ t.patch \in 1..MaxPatch
                             /\ t.form \in {"plain", "v"}
                             /\ \A n \in Name : Packager!FolderOf(n, t) \in Packager!Folders
  /\ MaxPatch \in Nat
  /\ Packager!PackagerConstants
BY SupplyAssumption DEF Packager!PackagerConstants, Packager!Tag, Packager!Patch,
   Packager!FolderOf, Packager!Folders

LEMMA DependencyTypes ==
  ASSUME NEW n \in Name, NEW t \in Packager!Tag, repoOf[n] \in Repo
  PROVE  Packager!DependenciesOf(n, t) \subseteq Name \X Line
<1>1. <<repoOf[n], t.line, t.patch>> \in Repo \X Line \X Packager!Patch
  BY DEF Packager!Tag
<1> QED  BY <1>1, Constants DEF Packager!PackagerConstants, Packager!DependenciesOf

\* What is wanted stays wanted while versions are added, and what is not above the Hub
\* stays so.
LEMMA WantedKept ==
  ASSUME repoOf' = repoOf, available \subseteq available'
  PROVE  /\ \A n, l : Wanted(n, l) => Wanted(n, l)'
         /\ blind \subseteq blind' => \A n, t : NotAbove(n, t) => NotAbove(n, t)'
<1>1. \A n, t : Packager!DependenciesOf(n, t)' = Packager!DependenciesOf(n, t)
  BY DEF Packager!DependenciesOf
<1>2. \A n, l : Wanted(n, l) => Wanted(n, l)'
  BY <1>1 DEF Wanted
<1>3. blind \subseteq blind' => \A n, t : Within(n, t) => Within(n, t)'
  BY DEF Within
<1> QED  BY <1>2, <1>3 DEF NotAbove, Packager!BelowHub

\* A step of the packager leaves the agenda right if what it adds is right, what it
\* takes away is settled or replaced, and what it builds has its dependencies added.
LEMMA AgendaKept ==
  ASSUME PackagerInv, repoOf' = repoOf, available \subseteq available',
         failed \subseteq failed', unresolved \subseteq unresolved', blind \subseteq blind',
         \A x \in El(agenda') : x \in El(agenda) \/ Right(x)',
         \A x \in El(agenda) : x \in El(agenda') \/
           \A d \in Name \X Line : Meets(x, d) => Settled(d)' \/ \E y \in El(agenda') : Meets(y, d),
         \A v \in available' : v \in available \/
           /\ repoOf[v[1]] \in Repo /\ NotAbove(v[1], v[2])'
           /\ \A d \in Packager!DependenciesOf(v[1], v[2]) : \E y \in El(agenda') : Meets(y, d)
  PROVE  AgendaRight'
<1>1. /\ \A n, t : NotAbove(n, t) => NotAbove(n, t)'
      /\ \A n, l : Wanted(n, l) => Wanted(n, l)'
  BY WantedKept
<1>2. \A x \in El(agenda') : Right(x)'
  BY <1>1 DEF PackagerInv, AgendaRight, Right
<1>3. \A v \in available' : repoOf'[v[1]] \in Repo /\ NotAbove(v[1], v[2])'
  BY <1>1 DEF PackagerInv, AgendaRight
<1>4. ASSUME NEW v \in available', NEW d \in Packager!DependenciesOf(v[1], v[2])
      PROVE  Settled(d)' \/ \E x \in El(agenda') : Meets(x, d)
  <2>1. SUFFICES ASSUME v \in available PROVE Settled(d)' \/ \E x \in El(agenda') : Meets(x, d)
    BY <1>4
  <2>2. d \in Name \X Line
    BY <1>4, <2>1, DependencyTypes DEF PackagerInv, AgendaRight, PackagerTypes
  <2>3. Settled(d) => Settled(d)'
    BY DEF Settled
  <2>4. CASE \E x \in El(agenda) : Meets(x, d)
    BY <2>2, <2>4
  <2> QED  BY <1>4, <2>1, <2>3, <2>4 DEF PackagerInv, AgendaRight
<1>5. \A n, t : Packager!DependenciesOf(n, t)' = Packager!DependenciesOf(n, t)
  BY DEF Packager!DependenciesOf
<1>6. \A v \in available' : \A d \in Packager!DependenciesOf(v[1], v[2])' :
        Settled(d)' \/ \E x \in El(agenda') : Meets(x, d)
  BY <1>4, <1>5
<1> QED  BY <1>2, <1>3, <1>6 DEF AgendaRight, Meets

\* A step that only works on the agenda.
LEMMA AgendaStep ==
  ASSUME PackagerInv, PackagerTypes', Idle',
         repoOf' = repoOf, folder' = folder, available' = available,
         failed \subseteq failed', unresolved \subseteq unresolved', blind \subseteq blind',
         \A x \in El(agenda') : x \in El(agenda) \/ Right(x)',
         \A x \in El(agenda) : x \in El(agenda') \/
           \A d \in Name \X Line : Meets(x, d) => Settled(d)' \/ \E y \in El(agenda') : Meets(y, d)
  PROVE  PackagerInv'
<1>1. Filled'
  BY DEF PackagerInv, Filled
<1>2. AvailableIsWhole'
  BY DEF PackagerInv, AvailableIsWhole, Packager!AvailableIsWhole
<1>3. AgendaRight'
  BY AgendaKept
<1> QED  BY <1>1, <1>2, <1>3 DEF PackagerInv

\* The library at the head of the agenda is looked up.
LEMMA LibraryLookedUp ==
  ASSUME PackagerInv, Packager!BuildLibrary
  PROVE  PackagerInv'
<1>h. PICK h : h = Head(agenda)
  OBVIOUS
<1>n. PICK n : n = h.name
  OBVIOUS
<1>r. PICK r : r = repoOf[n]
  OBVIOUS
<1> USE <1>h, <1>n, <1>r
<1>1. /\ agenda # <<>> /\ h.kind = "library"
      /\ UNCHANGED <<script, repoOf, available, failed, unresolved, folder>>
  BY DEF Packager!BuildLibrary
<1>2. /\ agenda \in Seq(Items) /\ h \in Items /\ n \in Name
      /\ El(agenda) = {h} \cup El(Tail(agenda)) /\ Tail(agenda) \in Seq(Items)
  BY <1>1, Pushed, ItemTypes DEF PackagerInv, PackagerTypes
<1>3. script = "package" /\ Idle'
  BY <1>1 DEF PackagerInv, Idle
<1>4. \A d : ~Meets(h, d)
  BY <1>1 DEF Meets
<1>5. CASE agenda' = Tail(agenda) /\ UNCHANGED blind
  <2>1. PackagerTypes'
    BY <1>1, <1>2, <1>5 DEF PackagerInv, PackagerTypes
  <2> QED  BY <1>1, <1>2, <1>3, <1>4, <1>5, <2>1, AgendaStep
<1>6. ASSUME r # NoRepo, NEW bad \in SUBSET {"tags", "hub"}, Packager!Answers(n, r, bad),
             NEW tags \in Packager!HighestPatchTags(Packager!TagsSeen(r, bad)),
             NEW order \in Packager!SetToSeqs({t \in tags : Packager!BelowHub(t, Packager!HubSeen(n, bad))}),
             agenda' = [i \in DOMAIN order |-> Packager!VersionItem(n, order[i], r)] \o Tail(agenda)
      PROVE  PackagerInv'
  <2> DEFINE taken == {t \in tags : Packager!BelowHub(t, Packager!HubSeen(n, bad))}
             new == [i \in DOMAIN order |-> Packager!VersionItem(n, order[i], r)]
  <2>1. r \in Repo /\ Tags[r] \subseteq Packager!Tag /\ Packager!IsFiniteSet(Tags[r])
    BY <1>2, <1>6, Constants DEF PackagerInv, PackagerTypes, Packager!PackagerConstants
  <2>2. tags \subseteq Tags[r]
    BY <1>6 DEF Packager!HighestPatchTags, Packager!TagsSeen
  <2>3. Packager!IsFiniteSet(taken) /\ taken \subseteq Packager!Tag
    BY <2>1, <2>2, FiniteParts
  <2>4. order \in Seq(taken) /\ {order[i] : i \in DOMAIN order} = taken
    BY <2>3, <1>6, Enumerates
  <2>5. new \in Seq(Items)
    <3>1. DOMAIN order = 1..Len(order) /\ Len(order) \in Nat
      BY <2>4
    <3>2. \A i \in DOMAIN order : Packager!VersionItem(n, order[i], r) \in Items
      BY <2>1, <2>3, <2>4, <1>2, ItemTypes
    <3> QED  BY <3>1, <3>2
  <2>6. El(new) = {Packager!VersionItem(n, t, r) : t \in taken}
    BY <2>4 DEF El
  <2>7. /\ agenda' \in Seq(Items)
        /\ El(agenda') = El(new) \cup El(Tail(agenda))
    BY <1>1, <1>2, <1>6, <2>5, Pushed
  <2>8. PackagerTypes'
    BY <1>1, <2>7 DEF PackagerInv, PackagerTypes
  <2>9. blind \subseteq blind' /\ (bad # {} => n \in blind')
    BY <1>6 DEF Packager!Answers
  <2>10. ASSUME NEW t \in taken
         PROVE  NotAbove(n, t)'
    <3> SUFFICES ASSUME bad = {} PROVE Within(n, t)' /\ Packager!BelowHub(t, Hub[n])
      BY <2>9 DEF NotAbove, Within, Packager!BelowHub
    <3>1. Packager!HubSeen(n, bad) = Hub[n]
      BY DEF Packager!HubSeen, Packager!HubDownloads
    <3>2. Packager!BelowHub(t, Hub[n])
      BY <3>1
    <3> SUFFICES ASSUME Hub[n] # NoVersion, t.line = Hub[n].line, t.patch > Hub[n].patch
                 PROVE  FALSE
      BY <3>2 DEF Within
    <3>3. Hub[n] \in Packager!Version /\ t \in Packager!Tag
      BY <1>2, <2>3, Constants DEF Packager!PackagerConstants
    <3>4. /\ Hub[n].line \in Nat /\ Hub[n].patch \in Nat
          /\ t.line \in Nat /\ t.patch \in Nat
      BY <3>3, Constants DEF Packager!Version, Packager!Tag, Packager!Patch, Packager!PackagerConstants
    <3> QED  BY <3>2, <3>4 DEF Packager!BelowHub
  <2>11. \A x \in El(new) : Right(x)'
    <3> SUFFICES ASSUME NEW x \in El(new) PROVE Right(x)'
      OBVIOUS
    <3>1. PICK t \in taken : x = Packager!VersionItem(n, t, r)
      BY <2>6
    <3>2. x.kind = "version" /\ x.name = n /\ x.tag = t /\ x.repo = r
      BY <3>1 DEF Packager!VersionItem
    <3> QED  BY <1>1, <2>10, <3>2 DEF Right
  <2> QED  BY <1>1, <1>2, <1>3, <1>4, <2>7, <2>8, <2>9, <2>11, AgendaStep
<1> QED  BY <1>5, <1>6 DEF Packager!BuildLibrary

\* A version that is built or has failed is passed over.
LEMMA VersionSkipped ==
  ASSUME PackagerInv, Packager!SkipVersion
  PROVE  PackagerInv'
<1>h. PICK h : h = Head(agenda)
  OBVIOUS
<1>1. /\ agenda # <<>> /\ h.kind = "version" /\ agenda' = Tail(agenda)
      /\ UNCHANGED <<script, repoOf, available, failed, unresolved, folder, blind>>
      /\ Packager!IsAvailable(h.name, h.tag) \/ Packager!IsAlreadyFailed(h.name, h.tag)
  BY <1>h DEF Packager!SkipVersion
<1>2. /\ agenda \in Seq(Items) /\ h \in Items
      /\ El(agenda) = {h} \cup El(Tail(agenda)) /\ Tail(agenda) \in Seq(Items)
  BY <1>h, <1>1, Pushed, ItemTypes DEF PackagerInv, PackagerTypes
<1>3. script = "package" /\ Idle'
  BY <1>1 DEF PackagerInv, Idle
<1>4. ASSUME NEW d \in Name \X Line, Meets(h, d)
      PROVE  Settled(d)'
  <2>1. h.name = d[1] /\ h.tag.line = d[2] /\ d = <<d[1], d[2]>>
    BY <1>1, <1>4 DEF Meets
  <2> QED  BY <1>1, <2>1 DEF Settled, Packager!IsAvailable, Packager!IsAlreadyFailed
<1>5. PackagerTypes'
  BY <1>1, <1>2 DEF PackagerInv, PackagerTypes
<1> QED  BY <1>1, <1>2, <1>3, <1>4, <1>5, AgendaStep

\* An archive that cannot be downloaded.
LEMMA DownloadFailed ==
  ASSUME PackagerInv, Packager!DownloadFails
  PROVE  PackagerInv'
<1>h. PICK h : h = Head(agenda)
  OBVIOUS
<1>1. /\ agenda # <<>> /\ h.kind = "version" /\ agenda' = Tail(agenda)
      /\ UNCHANGED <<script, repoOf, available, unresolved, folder, blind>>
      /\ failed' = failed \cup {<<h.name, h.tag>>}
  BY <1>h DEF Packager!DownloadFails, Packager!Building
<1>2. /\ agenda \in Seq(Items) /\ h \in Items /\ h.name \in Name /\ h.tag \in Packager!Tag
      /\ El(agenda) = {h} \cup El(Tail(agenda)) /\ Tail(agenda) \in Seq(Items)
  BY <1>h, <1>1, Pushed, ItemTypes DEF PackagerInv, PackagerTypes
<1>3. script = "package" /\ Idle'
  BY <1>1 DEF PackagerInv, Idle
<1>4. ASSUME NEW d \in Name \X Line, Meets(h, d)
      PROVE  Settled(d)'
  <2>1. h.name = d[1] /\ h.tag.line = d[2]
    BY <1>1, <1>4 DEF Meets
  <2>2. PICK w : w = <<h.name, h.tag>>
    OBVIOUS
  <2>3. w \in failed' /\ w[1] = d[1] /\ w[2].line = d[2]
    BY <1>1, <2>1, <2>2
  <2> QED  BY <2>3 DEF Settled
<1>5. PackagerTypes'
  BY <1>1, <1>2 DEF PackagerInv, PackagerTypes
<1> QED  BY <1>1, <1>2, <1>3, <1>4, <1>5, AgendaStep

\* A dependency at the head of the agenda is given a version, or noted.
LEMMA DependencyLookedUp ==
  ASSUME PackagerInv, Packager!BuildDependency
  PROVE  PackagerInv'
<1>h. PICK h : h = Head(agenda)
  OBVIOUS
<1>n. PICK n : n = h.name
  OBVIOUS
<1>l. PICK l : l = h.line
  OBVIOUS
<1>r. PICK r : r = repoOf[n]
  OBVIOUS
<1> USE <1>h, <1>n, <1>l, <1>r
<1>1. /\ agenda # <<>> /\ h.kind = "dependency"
      /\ UNCHANGED <<script, repoOf, available, failed, folder>>
  BY DEF Packager!BuildDependency
<1>2. /\ agenda \in Seq(Items) /\ h \in Items /\ n \in Name /\ l \in Line
      /\ El(agenda) = {h} \cup El(Tail(agenda)) /\ Tail(agenda) \in Seq(Items)
  BY <1>1, Pushed, ItemTypes DEF PackagerInv, PackagerTypes
<1>3. script = "package" /\ Idle'
  BY <1>1 DEF PackagerInv, Idle
<1>4. \A d \in Name \X Line : Meets(h, d) => d = <<n, l>>
  BY <1>1 DEF Meets
<1>5. ASSUME Packager!NoteUnresolved(n, l), agenda' = Tail(agenda), blind \subseteq blind'
      PROVE  PackagerInv'
  <2>1. unresolved' = unresolved \cup {<<n, l>>}
    BY <1>5 DEF Packager!NoteUnresolved
  <2>2. PackagerTypes'
    BY <1>1, <1>2, <1>5, <2>1 DEF PackagerInv, PackagerTypes
  <2>3. \A d \in Name \X Line : Meets(h, d) => Settled(d)'
    BY <1>4, <2>1 DEF Settled
  <2> QED  BY <1>1, <1>2, <1>3, <1>5, <2>1, <2>2, <2>3, AgendaStep
<1>6. ASSUME r # NoRepo, NEW bad \in SUBSET {"tags", "master", "hub"}, Packager!Answers(n, r, bad),
             NEW t, t \in Packager!HighestOf(Packager!TagsSeen(r, bad), l)
                      \/ t \in Packager!MasterSeen(r, l, bad),
             NEW u \in Packager!Capped(t, Packager!TagsSeen(r, bad), Packager!HubSeen(n, bad)),
             agenda' = <<Packager!VersionItem(n, Packager!Forced(n, u), r)>> \o Tail(agenda),
             UNCHANGED unresolved
      PROVE  PackagerInv'
  <2>f. PICK f : f = Packager!Forced(n, u)
    OBVIOUS
  <2> DEFINE item == Packager!VersionItem(n, f, r)
  <2>1. r \in Repo /\ Tags[r] \subseteq Packager!Tag
    BY <1>2, <1>6, Constants DEF PackagerInv, PackagerTypes, Packager!PackagerConstants
  <2>2. t \in Packager!Tag /\ t.line = l
    <3>1. CASE t \in Packager!HighestOf(Packager!TagsSeen(r, bad), l)
      BY <2>1, <3>1 DEF Packager!HighestOf, Packager!TagsSeen
    <3>2. CASE t \in Packager!MasterSeen(r, l, bad)
      <4>1. /\ Master[r] # NoVersion /\ Master[r].line = l
            /\ t = [form |-> "plain", line |-> l, patch |-> Master[r].patch]
        BY <3>2 DEF Packager!MasterSeen
      <4>2. Master[r] \in Packager!Version
        BY <2>1, <4>1, Constants DEF Packager!PackagerConstants
      <4> QED  BY <1>2, <4>1, <4>2 DEF Packager!Version, Packager!Tag
    <3> QED  BY <1>6, <3>1, <3>2
  <2>3. u \in Packager!Tag /\ u.line = l
    BY <1>6, <2>1, <2>2 DEF Packager!Capped, Packager!TagsSeen
  <2>p. PICK p : p = Pinned[n, l]
    OBVIOUS
  <2>4. p \in 0..MaxPatch
    <3>1. Pinned[n, l] \in 0..MaxPatch
      BY <1>2, Constants DEF Packager!PackagerConstants
    <3> QED  BY <2>p, <3>1, Zenon
  <2>5. f \in Packager!Tag /\ f.line = l /\ (p = 0 => f = u)
    <3>1. f = IF Pinned[n, l] = 0 THEN u ELSE [form |-> "plain", line |-> l, patch |-> Pinned[n, l]]
      BY <2>f, <2>3, Zenon DEF Packager!Forced
    <3>2. f = IF p = 0 THEN u ELSE [form |-> "plain", line |-> l, patch |-> p]
      BY <2>p, <3>1, Zenon
    <3> QED  BY <1>2, <2>3, <2>4, <3>2, Constants DEF Packager!Tag, Packager!Patch
  <2>6. /\ agenda' \in Seq(Items)
        /\ El(agenda') = {item} \cup El(Tail(agenda))
    <3>1. item \in Items
      BY <1>2, <2>1, <2>5, ItemTypes
    <3>2. <<item>> \in Seq(Items) /\ El(<<item>>) = {item}
      BY <3>1 DEF El
    <3>3. agenda' = <<item>> \o Tail(agenda)
      BY <1>6, <2>f, Zenon
    <3> DEFINE new == <<item>>
    <3>4. new \in Seq(Items) /\ El(new) = {item} /\ agenda' = new \o Tail(agenda)
      BY <3>2, <3>3
    <3> HIDE DEF new
    <3> QED  BY <1>1, <1>2, <3>4, Pushed
  <2>7. PackagerTypes'
    BY <1>1, <1>6, <2>6 DEF PackagerInv, PackagerTypes
  <2>8. blind \subseteq blind' /\ (bad # {} => n \in blind')
    BY <1>6 DEF Packager!Answers
  <2>9. Within(n, f)'
    <3> SUFFICES ASSUME bad = {}, Hub[n] # NoVersion, f.line = Hub[n].line, f.patch > Hub[n].patch,
                        p = 0,
                        NEW w \in Tags[r], w.line = Hub[n].line, w.patch = Hub[n].patch
                 PROVE  FALSE
      BY <1>1, <2>p, <2>5, <2>8, Zenon DEF Within
    <3>1. Packager!HubSeen(n, bad) = Hub[n] /\ Packager!TagsSeen(r, bad) = Tags[r]
      BY DEF Packager!HubSeen, Packager!HubDownloads, Packager!TagsSeen
    <3>2. u \in Packager!Capped(t, Tags[r], Hub[n])
      BY <1>6, <3>1
    <3>3. u.line = Hub[n].line /\ u.patch > Hub[n].patch /\ t.line = u.line
      BY <2>2, <2>3, <2>5
    <3>4. /\ Hub[n].patch \in Nat /\ u.patch \in Nat
      <4>1. Hub[n] \in Packager!Version
        BY <1>2, Constants DEF Packager!PackagerConstants
      <4>2. u.patch \in 1..MaxPatch /\ MaxPatch \in Nat
        BY <2>3, Constants
      <4> QED  BY <4>1, <4>2 DEF Packager!Version, Packager!Patch
    <3> DEFINE same == {x \in Tags[r] : x.line = Hub[n].line /\ x.patch = Hub[n].patch}
    <3>5. same # {}
      OBVIOUS
    <3>6. u \in IF Hub[n] # NoVersion /\ t.line = Hub[n].line /\ t.patch > Hub[n].patch /\ same # {}
                THEN same ELSE {t}
      BY <3>2, Zenon DEF Packager!Capped
    <3>7. u \notin same
      BY <3>3, <3>4
    <3>8. u = t /\ ~(t.line = Hub[n].line /\ t.patch > Hub[n].patch)
      BY <3>5, <3>6, <3>7, Zenon
    <3> QED  BY <3>3, <3>8
  <2>w. Wanted(n, l)'
    <3>1. Wanted(n, l)
      BY <1>1, <1>2 DEF PackagerInv, AgendaRight, Right
    <3> QED  BY <1>1, <3>1, WantedKept
  <2>n. NotAbove(n, f)'
    BY <2>5, <2>9, <2>w DEF NotAbove
  <2>10. Right(item)'
    BY <1>1, <2>n DEF Right, Packager!VersionItem
  <2>11. Meets(item, <<n, l>>)
    BY <2>5 DEF Meets, Packager!VersionItem
  <2> HIDE DEF item
  <2>12. \A x \in El(agenda') : x \in El(agenda) \/ Right(x)'
    BY <1>2, <2>6, <2>10
  <2>13. \A x \in El(agenda) : x \in El(agenda') \/
           \A d \in Name \X Line : Meets(x, d) => \E y \in El(agenda') : Meets(y, d)
    BY <1>2, <1>4, <2>6, <2>11
  <2> QED  BY <1>1, <1>3, <1>6, <2>7, <2>8, <2>12, <2>13, AgendaStep
<1>7. blind \subseteq blind'
  BY DEF Packager!BuildDependency, Packager!Answers
<1> QED  BY <1>5, <1>6, <1>7 DEF Packager!BuildDependency

\* A version is built, or fails, with its folder left as the build has it.
LEMMA VersionBuilt ==
  ASSUME PackagerInv, Packager!BuildVersion
  PROVE  PackagerInv'
<1>h. PICK h : h = Head(agenda)
  OBVIOUS
<1>n. PICK n : n = h.name
  OBVIOUS
<1>t. PICK t : t = h.tag
  OBVIOUS
<1>a. PICK a : a = Packager!ArchiveOf(h)
  OBVIOUS
<1>q. PICK result : result = Packager!Packed(n, t, a)
  OBVIOUS
<1>f. PICK f : f = Packager!FolderOf(n, t)
  OBVIOUS
<1>1. /\ agenda # <<>> /\ h.kind = "version" /\ ~Packager!IsAvailable(n, t)
      /\ UNCHANGED <<script, repoOf, unresolved, blind>>
      /\ folder' = [folder EXCEPT ![f] = result.folder]
  BY <1>h, <1>n, <1>t, <1>a, <1>q, <1>f, Zenon DEF Packager!BuildVersion, Packager!Building
<1>2. \/ /\ ~result.built
         /\ failed' = failed \cup {<<n, t>>}
         /\ agenda' = Tail(agenda)
         /\ UNCHANGED available
      \/ /\ result.built
         /\ available' = available \cup {<<n, t>>}
         /\ \E order \in Packager!AllDependencies(a) :
              agenda' = [i \in DOMAIN order |-> Packager!DependencyItem(order[i])] \o Tail(agenda)
         /\ UNCHANGED failed
  BY <1>h, <1>n, <1>t, <1>a, <1>q, Zenon DEF Packager!BuildVersion
<1>3. /\ agenda \in Seq(Items) /\ h \in Items /\ n \in Name /\ t \in Packager!Tag /\ h.repo \in Repo
      /\ El(agenda) = {h} \cup El(Tail(agenda)) /\ Tail(agenda) \in Seq(Items)
  BY <1>h, <1>n, <1>t, <1>1, Pushed, ItemTypes DEF PackagerInv, PackagerTypes
<1>4. script = "package" /\ Idle'
  BY <1>1 DEF PackagerInv, Idle
<1>5. h.repo = repoOf[n] /\ NotAbove(n, t)
  BY <1>n, <1>t, <1>1, <1>3 DEF PackagerInv, AgendaRight, Right
<1>v. PICK v : v = <<h.repo, t.line, t.patch>>
  OBVIOUS
<1>6. a = Archive[v] /\ v \in Repo \X Line \X Packager!Patch
  <2>1. a = Archive[v]
    BY <1>a, <1>t, <1>v, Zenon DEF Packager!ArchiveOf
  <2>2. v \in Repo \X Line \X Packager!Patch
    BY <1>3, <1>v DEF Packager!Tag
  <2> QED  BY <2>1, <2>2
<1>7. /\ result.folder \in FolderType /\ result.folder.patch = t.patch
      /\ result.built => Packager!Whole(result.folder)
  BY <1>q, <1>3, <1>6, PackedFolder, Constants
<1>8. /\ f \in Packager!Folders /\ f = <<n, t.line, t.form>>
      /\ folder'[f] = result.folder
      /\ \A g \in Packager!Folders : g # f => folder'[g] = folder[g]
      /\ folder' \in [Packager!Folders -> FolderType]
      /\ t.patch \in 1..MaxPatch /\ MaxPatch \in Nat
  <2>1. f \in Packager!Folders /\ f = <<n, t.line, t.form>> /\ t.patch \in 1..MaxPatch /\ MaxPatch \in Nat
    BY <1>f, <1>3, Constants DEF Packager!FolderOf
  <2> QED  BY <1>1, <1>7, <2>1 DEF PackagerInv, PackagerTypes
<1>9. Filled'
  BY <1>7, <1>8 DEF PackagerInv, Filled
<1>w. PICK w : w = <<n, t>>
  OBVIOUS
<1>10. w[1] = n /\ w[2] = t /\ (w \in available' \cup failed') /\ (~result.built => w \in failed')
       /\ (w \in available' => w \in available \/ result.built)
  BY <1>w, <1>2
<1>11. /\ available \subseteq available' /\ failed \subseteq failed'
       /\ \A x \in available' : x \in available \/ x = w
  BY <1>w, <1>2
<1>12. AvailableIsWhole'
  <2> SUFFICES ASSUME NEW x \in available'
               PROVE  LET c == folder'[Packager!FolderOf(x[1], x[2])] IN
                      c.patch >= x[2].patch /\ (Packager!Whole(c) \/ \E y \in failed' :
                        y[1] = x[1] /\ Packager!FolderOf(x[1], y[2]) = Packager!FolderOf(x[1], x[2])
                        /\ y[2].patch > x[2].patch)
    BY DEF AvailableIsWhole, Packager!AvailableIsWhole
  <2>1. x[1] \in Name /\ x[2] \in Packager!Tag
    BY <1>3, <1>10, <1>11 DEF PackagerInv, PackagerTypes
  <2>2. Packager!FolderOf(x[1], x[2]) \in Packager!Folders /\ x[2].patch \in 1..MaxPatch
    BY <2>1, Constants
  <2>3. CASE Packager!FolderOf(x[1], x[2]) # f
    <3>1. x \in available
      BY <1>f, <1>10, <1>11, <2>3
    <3>2. folder'[Packager!FolderOf(x[1], x[2])] = folder[Packager!FolderOf(x[1], x[2])]
      BY <1>8, <2>2, <2>3
    <3> QED  BY <1>11, <3>1, <3>2 DEF PackagerInv, AvailableIsWhole, Packager!AvailableIsWhole
  <2>4. CASE Packager!FolderOf(x[1], x[2]) = f /\ x \in available
    <3>1. x[1] = n /\ x[2].line = t.line
      BY <1>8, <2>4 DEF Packager!FolderOf
    <3>2. x[2].patch < t.patch
      BY <1>1, <1>8, <2>2, <2>4, <3>1 DEF Packager!IsAvailable
    <3>3. folder'[Packager!FolderOf(x[1], x[2])].patch >= x[2].patch
      BY <1>7, <1>8, <2>2, <2>4, <3>2
    <3>4. CASE ~result.built
      <4>1. w \in failed' /\ w[1] = x[1] /\ Packager!FolderOf(x[1], w[2]) = f /\ w[2].patch > x[2].patch
        BY <1>f, <1>8, <1>10, <2>2, <3>1, <3>2, <3>4
      <4> QED  BY <2>4, <3>3, <4>1
    <3> QED  BY <1>7, <1>8, <2>4, <3>3, <3>4
  <2>5. CASE x \notin available
    <3>1. x = w /\ result.built
      BY <1>10, <1>11, <2>5
    <3>2. Packager!FolderOf(x[1], x[2]) = f /\ x[2].patch = t.patch
      BY <1>f, <1>10, <3>1
    <3> QED  BY <1>7, <1>8, <3>1, <3>2
  <2> QED  BY <2>3, <2>4, <2>5
<1>13. \A d \in Name \X Line : Meets(h, d) => Settled(d)'
  BY <1>n, <1>t, <1>1, <1>10 DEF Meets, Settled
<1>14. NotAbove(n, t)'
  BY <1>1, <1>5, <1>11, WantedKept
<1>15. CASE ~result.built
  <2>1. failed' = failed \cup {w} /\ agenda' = Tail(agenda) /\ available' = available
    BY <1>w, <1>2, <1>15
  <2>2. w \in Name \X Packager!Tag
    BY <1>w, <1>3
  <2>3. PackagerTypes'
    BY <1>1, <1>3, <1>8, <2>1, <2>2 DEF PackagerInv, PackagerTypes
  <2>4. AgendaRight'
    BY <1>1, <1>3, <1>11, <1>13, <2>1, AgendaKept
  <2> QED  BY <1>4, <1>9, <1>12, <2>3, <2>4 DEF PackagerInv
<1>16. ASSUME result.built, NEW order \in Packager!AllDependencies(a),
              agenda' = [i \in DOMAIN order |-> Packager!DependencyItem(order[i])] \o Tail(agenda),
              available' = available \cup {<<n, t>>}, UNCHANGED failed
       PROVE  PackagerInv'
  <2> DEFINE new == [i \in DOMAIN order |-> Packager!DependencyItem(order[i])]
  <2>1. /\ a.deps \subseteq Name \X Line /\ a.soft \subseteq Name \X Line
        /\ Packager!IsFiniteSet(a.deps) /\ Packager!IsFiniteSet(a.soft)
    BY <1>6, Constants DEF Packager!PackagerConstants
  <2>2. PICK hard \in Packager!SetToSeqs(a.deps), soft \in Packager!SetToSeqs(a.soft) : order = hard \o soft
    BY <1>16 DEF Packager!AllDependencies
  <2>3. /\ hard \in Seq(Name \X Line) /\ {hard[i] : i \in DOMAIN hard} = a.deps
        /\ soft \in Seq(Name \X Line) /\ {soft[i] : i \in DOMAIN soft} = a.soft
    BY <2>1, <2>2, Enumerates
  <2>4. order \in Seq(Name \X Line) /\ {order[i] : i \in DOMAIN order} = a.deps \cup a.soft
    <3>1. El(hard) = a.deps /\ El(soft) = a.soft
      BY <2>3 DEF El
    <3>2. order \in Seq(Name \X Line) /\ El(order) = a.deps \cup a.soft
      BY <2>2, <2>3, <3>1, Joined
    <3> QED  BY <3>2 DEF El
  <2>5. new \in Seq(Items) /\ El(new) = {Packager!DependencyItem(d) : d \in a.deps \cup a.soft}
    <3>1. DOMAIN order = 1..Len(order) /\ Len(order) \in Nat
      BY <2>4
    <3>2. \A i \in DOMAIN order : Packager!DependencyItem(order[i]) \in Items
      BY <2>4, DependencyItems
    <3> QED  BY <2>4, <3>1, <3>2 DEF El
  <2> HIDE DEF new
  <2>6. agenda' \in Seq(Items) /\ El(agenda') = El(new) \cup El(Tail(agenda))
    BY SMTT(60), <1>1, <1>3, <1>16, <2>5, Pushed DEF new
  <2>7. w \in Name \X Packager!Tag /\ available' = available \cup {w}
    BY <1>w, <1>3, <1>16
  <2>8. PackagerTypes'
    BY <1>1, <1>8, <1>16, <2>6, <2>7 DEF PackagerInv, PackagerTypes
  <2>9. \A x \in El(agenda') : x \in El(agenda) \/ Right(x)'
    <3> SUFFICES ASSUME NEW x \in El(new) PROVE Right(x)'
      BY <1>3, <2>6
    <3>1. PICK d \in a.deps \cup a.soft : x = Packager!DependencyItem(d)
      BY <2>5
    <3>2. x.kind = "dependency" /\ x.name = d[1] /\ x.line = d[2] /\ d = <<d[1], d[2]>>
      BY <2>1, <3>1 DEF Packager!DependencyItem
    <3>3. Packager!DependenciesOf(w[1], w[2])' = a.deps \cup a.soft
      <4>1. Packager!DependenciesOf(n, t)' = Archive[v].deps \cup Archive[v].soft
        BY <1>v, <1>1, <1>5, Zenon DEF Packager!DependenciesOf
      <4> QED  BY <1>6, <1>10, <4>1
    <3>4. Wanted(x.name, x.line)'
      BY <2>7, <3>2, <3>3 DEF Wanted
    <3> QED  BY <3>2, <3>4 DEF Right
  <2>10. \A x \in El(agenda) : x \in El(agenda') \/
           \A d \in Name \X Line : Meets(x, d) => Settled(d)'
    BY <1>3, <1>13, <2>6
  <2>11. ASSUME NEW d \in Packager!DependenciesOf(w[1], w[2])
         PROVE  \E y \in El(agenda') : Meets(y, d)
    <3>1. d \in a.deps \cup a.soft
      <4>1. Packager!DependenciesOf(n, t) = Archive[v].deps \cup Archive[v].soft
        BY <1>v, <1>5, Zenon DEF Packager!DependenciesOf
      <4> QED  BY <1>6, <1>10, <2>11, <4>1
    <3>2. Meets(Packager!DependencyItem(d), d)
      BY DEF Meets, Packager!DependencyItem
    <3> QED  BY <2>5, <2>6, <3>1, <3>2
  <2>12. AgendaRight'
    BY <1>1, <1>3, <1>5, <1>10, <1>11, <1>14, <1>16, <2>9, <2>10, <2>11, AgendaKept
  <2> QED  BY <1>4, <1>9, <1>12, <2>8, <2>12 DEF PackagerInv
<1> QED  BY <1>2, <1>15, <1>16

\* The script ends or dies: nothing is left to build, and folders are of a build.
LEMMA PackagerEnds ==
  ASSUME PackagerTypes, Filled, agenda' = <<>>, available' = {}, failed' = {}, unresolved' = {},
         repoOf' = repoOf,
         folder' = folder \/ \E f \in Packager!Folders, c \in FolderType :
           (c.files # {} => c.patch # 0) /\ folder' = [folder EXCEPT ![f] = c]
  PROVE  PackagerInv'
<1>1. folder' \in [Packager!Folders -> FolderType] /\ Filled'
  <2>1. CASE folder' = folder
    BY <2>1 DEF PackagerTypes, Filled
  <2>2. ASSUME NEW f \in Packager!Folders, NEW c \in FolderType, c.files # {} => c.patch # 0,
               folder' = [folder EXCEPT ![f] = c]
        PROVE  folder' \in [Packager!Folders -> FolderType] /\ Filled'
    <3>1. folder'[f] = c /\ \A g \in Packager!Folders : g # f => folder'[g] = folder[g]
      BY <2>2 DEF PackagerTypes
    <3> QED  BY <2>2, <3>1 DEF PackagerTypes, Filled
  <2> QED  BY <2>1, <2>2
<1>2. El(agenda') = {} /\ agenda' \in Seq(Items)
  BY DEF El
<1>3. PackagerTypes'
  BY <1>1, <1>2 DEF PackagerTypes
<1> QED  BY <1>1, <1>2, <1>3 DEF PackagerInv, Idle, AvailableIsWhole, Packager!AvailableIsWhole, AgendaRight

\* What is known of the version being built.
LEMMA VersionBeingBuilt ==
  ASSUME PackagerInv, Packager!Building,
         NEW h, h = Head(agenda)
  PROVE  /\ Packager!FolderOf(h.name, h.tag) \in Packager!Folders
         /\ Packager!Packed(h.name, h.tag, Packager!ArchiveOf(h)).folder \in FolderType
         /\ Packager!Packed(h.name, h.tag, Packager!ArchiveOf(h)).folder.patch # 0
         /\ Packager!Unpacked(Packager!ArchiveOf(h), h.tag) \in FolderType
         /\ Packager!Unpacked(Packager!ArchiveOf(h), h.tag).patch # 0
<1>1. agenda # <<>> /\ h.kind = "version" /\ agenda \in Seq(Items)
  BY DEF Packager!Building, PackagerInv, PackagerTypes
<1>2. h \in Items
  <2>1. <<>> \in Seq(Items)
    OBVIOUS
  <2> QED  BY <1>1, <2>1, Pushed
<1>3. h.name \in Name /\ h.tag \in Packager!Tag /\ h.repo \in Repo
  BY <1>1, <1>2, ItemTypes
<1>v. PICK v : v = <<h.repo, h.tag.line, h.tag.patch>>
  OBVIOUS
<1>4. Packager!ArchiveOf(h) = Archive[v]
  BY <1>v, Zenon DEF Packager!ArchiveOf
<1>5. v \in Repo \X Line \X Packager!Patch /\ h.tag.patch # 0
  BY <1>3, <1>v, Constants DEF Packager!Tag
<1>6. Packager!FolderOf(h.name, h.tag) \in Packager!Folders
  BY <1>3, Constants
<1>7. /\ Packager!Packed(h.name, h.tag, Archive[v]).folder \in FolderType
      /\ Packager!Packed(h.name, h.tag, Archive[v]).folder.patch = h.tag.patch
      /\ Packager!Unpacked(Archive[v], h.tag) \in FolderType
      /\ Packager!Unpacked(Archive[v], h.tag).patch = h.tag.patch
  BY <1>3, <1>5, PackedFolder, Constants
<1> QED  BY <1>4, <1>5, <1>6, <1>7

\* Every step of the packager keeps its invariant.
LEMMA PackagerStep ==
  ASSUME PackagerInv, Packager!PackagerNext
  PROVE  PackagerInv'
<1>1. CASE Packager!StartPackaging
  <2>1. /\ available = {} /\ script' = "package"
        /\ agenda' = [i \in DOMAIN WishList |-> Packager!LibraryItem(WishList[i])]
        /\ UNCHANGED <<repoOf, available, failed, unresolved, folder, blind>>
    BY <1>1 DEF Packager!StartPackaging, PackagerInv, Idle
  <2>2. WishList \in Seq(Name)
    BY Constants DEF Packager!PackagerConstants
  <2>3. agenda' \in Seq(Items)
    <3>1. DOMAIN WishList = 1..Len(WishList) /\ Len(WishList) \in Nat
          /\ \A i \in DOMAIN WishList : WishList[i] \in Name
      BY <2>2
    <3>2. \A i \in DOMAIN WishList : Packager!LibraryItem(WishList[i]) \in Items
      BY <3>1, ItemTypes
    <3> QED  BY <2>1, <3>1, <3>2
  <2>4. \A x \in El(agenda') : x.kind = "library"
    BY <2>1 DEF El, Packager!LibraryItem
  <2>5. PackagerTypes' /\ Filled'
    BY <2>1, <2>3 DEF PackagerInv, PackagerTypes, Filled
  <2> QED  BY <2>1, <2>4, <2>5
           DEF PackagerInv, Idle, AvailableIsWhole, Packager!AvailableIsWhole, AgendaRight, Right
<1>2. CASE Packager!PackagingDone
  <2>1. /\ agenda' = <<>> /\ available' = {} /\ failed' = {} /\ unresolved' = {}
        /\ repoOf' = repoOf /\ folder' = folder
    BY <1>2 DEF Packager!PackagingDone, Packager!Exit, Packager!Forget
  <2> QED  BY <2>1, PackagerEnds DEF PackagerInv
<1>h. PICK h : h = Head(agenda)
  OBVIOUS
<1>3. CASE Packager!SemanticsRefused
  <2>1. /\ agenda' = <<>> /\ available' = {} /\ failed' = {} /\ unresolved' = {}
        /\ repoOf' = repoOf
    BY <1>3 DEF Packager!SemanticsRefused, Packager!Exit, Packager!Forget
  <2>2. /\ Packager!Building
        /\ folder' = [folder EXCEPT ![Packager!FolderOf(h.name, h.tag)] =
                        Packager!Packed(h.name, h.tag, Packager!ArchiveOf(h)).folder]
    BY <1>3, <1>h, Zenon DEF Packager!SemanticsRefused
  <2> QED  BY <1>h, <2>1, <2>2, VersionBeingBuilt, PackagerEnds DEF PackagerInv
<1>4. CASE Packager!PackagingCrash
  <2>1. /\ agenda' = <<>> /\ available' = {} /\ failed' = {} /\ unresolved' = {}
        /\ repoOf' = repoOf
    BY <1>4 DEF Packager!PackagingCrash, Packager!Exit, Packager!Forget
  <2>2. CASE folder' = folder
    BY <2>1, <2>2, PackagerEnds DEF PackagerInv
  <2>3. ASSUME Packager!Building,
               NEW c \in {Packager!NoFolder, Packager!Unpacked(Packager!ArchiveOf(h), h.tag)},
               folder' = [folder EXCEPT ![Packager!FolderOf(h.name, h.tag)] = c]
        PROVE  PackagerInv'
    <3>1. Packager!NoFolder \in FolderType /\ Packager!NoFolder.files = {}
      BY Constants DEF Packager!NoFolder, FolderType
    <3>2. c \in FolderType /\ (c.files # {} => c.patch # 0)
      BY <1>h, <2>3, <3>1, VersionBeingBuilt
    <3>3. Packager!FolderOf(h.name, h.tag) \in Packager!Folders
      BY <1>h, <2>3, VersionBeingBuilt
    <3> QED  BY <2>1, <2>3, <3>2, <3>3, PackagerEnds DEF PackagerInv
  <2> QED  BY <1>4, <1>h, <2>2, <2>3 DEF Packager!PackagingCrash
<1> QED  BY <1>1, <1>2, <1>3, <1>4, LibraryLookedUp, VersionSkipped, VersionBuilt, DependencyLookedUp,
            DownloadFailed DEF Packager!PackagerNext, Packager!PackagingStep

\* When the packager has come to its end everything is settled.
LEMMA EndSettled ==
  ASSUME PackagerInv, agenda = <<>>,
         NEW v \in available, NEW d \in Packager!DependenciesOf(v[1], v[2])
  PROVE  Settled(d)
<1>1. El(agenda) = {}
  BY DEF El
<1> QED  BY <1>1 DEF PackagerInv, AgendaRight

(***************************************************************************)
(* The uploader.                                                           *)
(***************************************************************************)
\* What the contract sees of a folder whose files are s.
AssetsOf(s) == {x \in File \ {Uploader!Json} : s[x] # 0}

Barred ==
  <<[k \in Uploader!Keys |-> AssetsOf(Uploader!Seen(k))],
    [k \in Uploader!Keys |-> Uploader!Seen(k)[Uploader!Json]]>>

\* When what is seen of the folders stays the same, the contract takes no step; when
\* files are seen removed, or one is seen replaced by part of a newer version, it takes that step.
LEMMA ContractStutters ==
  ASSUME \A k \in Uploader!Keys : Uploader!Seen(k)' = Uploader!Seen(k)
  PROVE  [Uploader!Contract!Next]_Barred
BY DEF Barred, AssetsOf

LEMMA ContractRemoves ==
  ASSUME NEW k \in Uploader!Keys, NEW old, NEW new, Uploader!Json \in File,
         Uploader!Seen(k) = old, Uploader!Seen(k)' = new,
         \A x \in File : new[x] \in {0, old[x]},
         \A l \in Uploader!Keys : l # k => Uploader!Seen(l)' = Uploader!Seen(l)
  PROVE  Uploader!Contract!Next
<1>1. Uploader!Contract!Remove(k, AssetsOf(new), new[Uploader!Json])
  BY DEF Uploader!Contract!Remove, AssetsOf
<1>2. AssetsOf(new) \in SUBSET {x \in File \ {Uploader!Json} : Uploader!Seen(k)[x] # 0}
  BY DEF AssetsOf
<1>3. new[Uploader!Json] \in {Uploader!Contract!NoJson, Uploader!Seen(k)[Uploader!Json]}
  BY DEF Uploader!Contract!NoJson
<1> QED  BY <1>1, <1>2, <1>3 DEF Uploader!Contract!Next

LEMMA ContractUploads ==
  ASSUME NEW K \in Uploader!Keys, NEW p \in 1..MaxPatch, NEW old, NEW new,
         Uploader!Json \in File, MaxPatch \in Nat,
         Uploader!Seen(K) = old, Uploader!Seen(K)' = new,
         old \in [File -> 0..MaxPatch], new \in [File -> 0..MaxPatch],
         new[Uploader!Json] \in {0, old[Uploader!Json], p},
         old = Uploader!NoFile \/ (old[Uploader!Json] # 0 /\ p > old[Uploader!Json]),
         \A l \in Uploader!Keys : l # K => Uploader!Seen(l)' = Uploader!Seen(l)
  PROVE  Uploader!Contract!Next
<1>1. Uploader!Contract!Wanted(K, p)
  <2>1. CASE old = Uploader!NoFile
    BY <2>1 DEF Uploader!Contract!Wanted, Uploader!Contract!Empty, Uploader!Contract!NoJson, Uploader!NoFile
  <2>2. CASE old[Uploader!Json] # 0 /\ p > old[Uploader!Json]
    BY <2>2 DEF Uploader!Contract!Wanted, Uploader!Contract!NoJson
  <2> QED  BY <2>1, <2>2
<1>2. Uploader!Contract!Replace(K, p, AssetsOf(new), new[Uploader!Json])
  BY <1>1 DEF Uploader!Contract!Replace, Uploader!Contract!NoJson, AssetsOf
<1>3. AssetsOf(new) \in SUBSET (File \ {Uploader!Json})
  BY DEF AssetsOf
<1>4. new[Uploader!Json] \in {Uploader!Contract!NoJson, Uploader!Seen(K)[Uploader!Json], p}
  BY DEF Uploader!Contract!NoJson
<1> QED  BY <1>1, <1>2, <1>3, <1>4 DEF Uploader!Contract!Next, Uploader!Contract!Upload

Uploading == step \in {"compare", "clear", "send"}

\* The folder of S3 that is worked on, and the local folder it is to be a copy of.
There == Uploader!KeyOf(cur)
Mine  == folder[cur]

UploaderTypes ==
  /\ Uploader!UploaderTypeOK
  /\ was \in [File -> 0..MaxPatch]
  /\ source \in [Uploader!Keys -> [patch : 0..MaxPatch, files : SUBSET File]]

\* Folders that are empty are not uploaded, and nothing is lost of what was not sent.
Pending ==
  /\ step # "send" => lost = {}
  /\ step = "none" => todo = {}
  /\ \A f \in todo : folder[f].files # {}
  /\ Uploading => Mine.files # {}

\* The folder in S3 that is compared holds something, unless the job has removed it.
Compared ==
  /\ step \notin {"clear", "send"} => was = Uploader!NoFile
  /\ step = "compare" => There \in removed \/ s3[There] # Uploader!NoFile

\* A folder is cleared or filled if there was none, or an older one; its library.json is
\* then away, the old one, or the new one.
Held ==
  step \in {"clear", "send"} =>
    /\ \/ was = Uploader!NoFile
       \/ Uploader!Json \in Mine.files /\ was[Uploader!Json] # 0 /\ Mine.patch > was[Uploader!Json]
    /\ s3[There][Uploader!Json] \in {0, was[Uploader!Json], Mine.patch}

\* What has been sent is there, but for what the job has deleted since; and nothing else
\* is, unless the folder could not be cleared.
Sent ==
  step = "send" =>
    /\ left \subseteq Mine.files
    /\ There \in torn \/ s3[There] =
         [x \in File |-> IF x \in Mine.files \ (left \cup lost) THEN Mine.patch ELSE 0]
    /\ There \in removed \/ \A x \in Mine.files \ left : s3[There][x] = Mine.patch

\* FaithfulCopy, of a folder that is being compared as well.
Copies ==
  \A k \in Uploader!Keys :
    \/ k \in torn
    \/ step \in {"clear", "send"} /\ There = k
    \/ s3[k] = Uploader!CopyOf(source[k])

\* A folder the round is through with is in S3, and not in an older version.
UpToDate(f, s) ==
  s # Uploader!NoFile /\ (s[Uploader!Json] = 0 \/ s[Uploader!Json] >= folder[f].patch)

Rounds ==
  step # "none" =>
    \A f \in Uploader!Folders : folder[f].files # {} =>
      \/ f \in todo \/ f = cur \/ Uploader!KeyOf(f) \in removed
      \/ UpToDate(f, Uploader!Seen(Uploader!KeyOf(f)))

UploaderInv == UploaderTypes /\ Pending /\ Compared /\ Held /\ Sent /\ Copies /\ Rounds

\* What the uploader knows of the local folders.
Locals ==
  \A f \in Uploader!Folders :
    /\ folder[f].files \in SUBSET File /\ folder[f].patch \in 0..MaxPatch
    /\ folder[f].files # {} => folder[f].patch \in 1..MaxPatch

LEMMA UploaderFacts ==
  /\ Uploader!Json \in File /\ MaxPatch \in Nat /\ NoKey \notin Uploader!Folders
  /\ \A f \in Uploader!Folders : Uploader!KeyOf(f) \in Uploader!Keys
  /\ Uploader!NoFile \in [File -> 0..MaxPatch]
  /\ \A s \in [File -> 0..MaxPatch] : {x \in File : s[x] # 0} = {} => s = Uploader!NoFile
<1>1. MaxPatch \in Nat
  BY Constants
<1> QED  BY <1>1, SupplyAssumption
         DEF Uploader!UploaderConstants, Uploader!Folders, Uploader!Keys, Uploader!KeyOf,
             Uploader!NoFile

LEMMA LocalFolders ==
  ASSUME PackagerInv
  PROVE  Locals
<1>1. Uploader!Folders = Packager!Folders
  BY DEF Uploader!Folders, Packager!Folders
<1> QED  BY <1>1, Constants DEF PackagerInv, PackagerTypes, FolderType, Filled, Locals

\* The round is right as long as a folder is through only when it is up to date.
LEMMA RoundsKept ==
  ASSUME Rounds, step # "none", folder' = folder, removed \subseteq removed',
         \A k \in Uploader!Keys : k \in removed' \/ Uploader!Seen(k)' = Uploader!Seen(k),
         \A f \in Uploader!Folders : f \in todo \/ f = cur =>
           \/ f \in todo' \/ f = cur' \/ Uploader!KeyOf(f) \in removed' \/ folder[f].files = {}
           \/ UpToDate(f, Uploader!Seen(Uploader!KeyOf(f))')
  PROVE  Rounds'
<1> SUFFICES ASSUME NEW f \in Uploader!Folders, folder[f].files # {}, f \notin todo', f # cur',
                    Uploader!KeyOf(f) \notin removed'
             PROVE  UpToDate(f, Uploader!Seen(Uploader!KeyOf(f)))'
  BY DEF Rounds
<1>1. Uploader!KeyOf(f) \in Uploader!Keys
  BY UploaderFacts
<1>2. Uploader!Seen(Uploader!KeyOf(f))' = Uploader!Seen(Uploader!KeyOf(f))
  BY <1>1
<1>3. UpToDate(f, Uploader!Seen(Uploader!KeyOf(f)))
  BY <1>2 DEF Rounds
<1> QED  BY <1>2, <1>3 DEF UpToDate

\* The next folder is looked up.
LEMMA FolderLookedUp ==
  ASSUME UploaderInv, Locals, Uploader!CheckExists
  PROVE  UploaderInv' /\ [Uploader!Contract!Next]_Barred
<1>f. PICK f \in todo : /\ todo' = todo \ {f} /\ cur' = f
                        /\ IF Uploader!Here(Uploader!KeyOf(f)) = {}
                           THEN /\ step' = "send" /\ left' = folder[f].files
                                /\ torn' = torn \ {Uploader!KeyOf(f)}
                           ELSE step' = "compare" /\ UNCHANGED <<left, torn>>
  BY DEF Uploader!CheckExists
<1>K. PICK K : K = Uploader!KeyOf(f)
  OBVIOUS
<1>1. /\ step = "next" /\ cur = NoKey /\ was = Uploader!NoFile /\ lost = {}
      /\ UNCHANGED <<script, folder, s3, page, was, lost, source, removed>>
  BY DEF Uploader!CheckExists, UploaderInv, UploaderTypes, Uploader!UploaderTypeOK, Compared, Pending
<1>2. /\ f \in Uploader!Folders /\ K \in Uploader!Keys /\ cur' # NoKey /\ There' = K
      /\ folder[f].files # {} /\ folder[f].files \subseteq File
      /\ s3[K] \in [File -> 0..MaxPatch]
  BY <1>f, <1>K, UploaderFacts
     DEF UploaderInv, UploaderTypes, Uploader!UploaderTypeOK, Pending, Locals, There
<1>3. \/ step' = "send" /\ left' = folder[f].files /\ torn' = torn \ {K} /\ s3[K] = Uploader!NoFile
      \/ step' = "compare" /\ left' = left /\ torn' = torn /\ s3[K] # Uploader!NoFile
  <2>1. Uploader!Here(K) = {} => s3[K] = Uploader!NoFile
    BY <1>2, UploaderFacts DEF Uploader!Here
  <2>2. s3[K] = Uploader!NoFile => Uploader!Here(K) = {}
    BY DEF Uploader!Here, Uploader!NoFile
  <2> QED  BY <1>f, <1>K, <2>1, <2>2
<1>4. \A k \in Uploader!Keys : Uploader!Seen(k)' = Uploader!Seen(k)
  BY <1>f, <1>K, <1>1, <1>2, <1>3 DEF Uploader!Seen
<1>5. UploaderTypes'
  BY <1>f, <1>1, <1>2, <1>3, <1>K DEF UploaderInv, UploaderTypes, Uploader!UploaderTypeOK
<1>6. Pending'
  BY <1>f, <1>1, <1>2, <1>3 DEF UploaderInv, Pending, Mine
<1>7. Compared'
  BY <1>f, <1>K, <1>1, <1>2, <1>3 DEF Compared
<1>8. Held'
  BY <1>f, <1>K, <1>1, <1>2, <1>3, UploaderFacts DEF Held, Uploader!NoFile
<1>9. Sent'
  <2> SUFFICES ASSUME step' = "send" PROVE Sent'
    BY DEF Sent
  <2>1. Mine'.files \ (left' \cup lost') = {} /\ left' \subseteq Mine'.files
    BY <1>f, <1>1, <1>3 DEF Mine
  <2>2. s3'[K] = [x \in File |-> 0]
    BY <1>1, <1>3 DEF Uploader!NoFile
  <2>3. s3'[There'] = [x \in File |-> IF x \in Mine'.files \ (left' \cup lost') THEN Mine'.patch ELSE 0]
    BY <1>2, <2>1, <2>2
  <2>4. Mine'.files \ left' = {}
    BY <1>f, <1>1, <1>3 DEF Mine
  <2> QED  BY <1>2, <2>1, <2>3, <2>4 DEF Sent
<1>10. Copies'
  BY <1>1, <1>2, <1>3 DEF UploaderInv, Copies
<1>11. Rounds'
  <2>1. Rounds /\ step # "none" /\ folder' = folder /\ removed \subseteq removed'
    BY <1>1 DEF UploaderInv
  <2>2. \A g \in Uploader!Folders : g \in todo \/ g = cur => g \in todo' \/ g = cur'
    BY <1>f, <1>1, UploaderFacts
  <2> QED  BY <1>4, <2>1, <2>2, RoundsKept
<1> QED  BY <1>4, <1>5, <1>6, <1>7, <1>8, <1>9, <1>10, <1>11, ContractStutters DEF UploaderInv

\* What is known while a folder is worked on.
LEMMA WorkedOn ==
  ASSUME UploaderInv, Locals, Uploading
  PROVE  /\ cur \in Uploader!Folders /\ cur # NoKey /\ There \in Uploader!Keys
         /\ Mine.files # {} /\ Mine.files \subseteq File /\ Mine.patch \in 1..MaxPatch
         /\ s3[There] \in [File -> 0..MaxPatch] /\ was \in [File -> 0..MaxPatch]
         /\ step # "compare" => Uploader!Seen(There) = was
         /\ \A k \in Uploader!Keys : k # There => Uploader!Seen(k) = s3[k]
BY UploaderFacts DEF UploaderInv, UploaderTypes, Uploader!UploaderTypeOK, Pending, Uploading,
   Locals, There, Mine, Uploader!Seen

\* The patch versions are compared.
LEMMA VersionsCompared ==
  ASSUME UploaderInv, Locals, Uploader!CompareVersions
  PROVE  UploaderInv' /\ [Uploader!Contract!Next]_Barred
<1>K. PICK K : K = There
  OBVIOUS
<1>1. /\ step = "compare" /\ Uploader!Json \in Mine.files
      /\ UNCHANGED <<script, folder, s3, todo, page, torn, source, removed>>
      /\ IF Uploader!UpdateNeeded(Mine.patch, s3[K][Uploader!Json])
         THEN step' = "clear" /\ was' = s3[K] /\ UNCHANGED <<cur, left, lost>>
         ELSE step' = "next" /\ cur' = NoKey /\ left' = {} /\ lost' = {} /\ was' = Uploader!NoFile
  BY <1>K DEF Uploader!CompareVersions, Uploader!FolderDone, Mine, There
<1>2. /\ cur \in Uploader!Folders /\ cur # NoKey /\ K \in Uploader!Keys
      /\ Mine.files # {} /\ Mine.files \subseteq File /\ Mine.patch \in 1..MaxPatch
      /\ s3[K] \in [File -> 0..MaxPatch]
      /\ \A k \in Uploader!Keys : Uploader!Seen(k) = s3[k]
  BY <1>K, <1>1, WorkedOn DEF Uploading, Uploader!Seen
<1>3. (K \in removed \/ s3[K] # Uploader!NoFile) /\ lost = {}
  BY <1>K, <1>1 DEF UploaderInv, Compared, Pending
<1>4. \A k \in Uploader!Keys : Uploader!Seen(k)' = Uploader!Seen(k)
  BY <1>K, <1>1, <1>2 DEF Uploader!Seen, There
<1>5. UploaderTypes'
  BY <1>1, <1>2, UploaderFacts DEF UploaderInv, UploaderTypes, Uploader!UploaderTypeOK
<1>6. Pending' /\ Compared' /\ Sent'
  BY <1>1, <1>3 DEF UploaderInv, Pending, Compared, Sent, Mine, Uploading
<1>7. Held'
  <2> SUFFICES ASSUME step' = "clear" PROVE Held'
    BY <1>1 DEF Held
  <2>1. There' = K /\ Mine' = Mine /\ was' = s3[K]
    BY <1>K, <1>1 DEF There, Mine
  <2> QED  BY <1>1, <2>1 DEF Held, Uploader!UpdateNeeded
<1>8. Copies'
  BY <1>1 DEF UploaderInv, Copies
<1>9. Rounds'
  <2>1. Rounds /\ step # "none" /\ folder' = folder /\ removed \subseteq removed'
    BY <1>1 DEF UploaderInv
  <2>2. CASE step' = "clear"
    BY <1>1, <1>4, <2>1, <2>2, RoundsKept
  <2>3. CASE step' = "next"
    <3>1. K \in removed' \/ UpToDate(cur, s3[K])
      <4>1. ~Uploader!UpdateNeeded(Mine.patch, s3[K][Uploader!Json])
        BY <1>1, <2>3
      <4>2. s3[K][Uploader!Json] \in Nat /\ Mine.patch \in Nat
        BY <1>2, UploaderFacts
      <4> QED  BY <1>1, <1>3, <4>1, <4>2 DEF UpToDate, Uploader!UpdateNeeded, Mine
    <3>2. \A f \in Uploader!Folders : f \in todo \/ f = cur =>
             f \in todo' \/ Uploader!KeyOf(f) \in removed'
             \/ UpToDate(f, Uploader!Seen(Uploader!KeyOf(f))')
      BY <1>K, <1>1, <1>2, <1>4, <3>1 DEF There
    <3> QED  BY <1>4, <2>1, <3>2, RoundsKept
  <2> QED  BY <1>1, <2>2, <2>3
<1> QED  BY <1>4, <1>5, <1>6, <1>7, <1>8, <1>9, ContractStutters DEF UploaderInv

\* A local folder without library.json ends the script.
LEMMA NothingToCompare ==
  ASSUME UploaderInv, Locals, Uploader!NoLocalJson
  PROVE  UploaderInv' /\ [Uploader!Contract!Next]_Barred
<1>1. /\ step = "compare" /\ step' = "none" /\ script' = "none" /\ todo' = {} /\ cur' = NoKey
      /\ left' = {} /\ lost' = {} /\ was' = Uploader!NoFile /\ removed' = {}
      /\ UNCHANGED <<folder, s3, page, source, torn>>
  BY DEF Uploader!NoLocalJson, Uploader!GiveUp
<1>3. \A k \in Uploader!Keys : Uploader!Seen(k)' = Uploader!Seen(k)
  BY <1>1 DEF Uploader!Seen
<1>4. UploaderTypes'
  BY <1>1, UploaderFacts DEF UploaderInv, UploaderTypes, Uploader!UploaderTypeOK
<1>5. Pending' /\ Compared' /\ Held' /\ Sent' /\ Rounds'
  BY <1>1 DEF Pending, Compared, Held, Sent, Rounds, Uploading
<1>6. Copies'
  BY <1>1 DEF UploaderInv, Copies
<1> QED  BY <1>3, <1>4, <1>5, <1>6, ContractStutters DEF UploaderInv

\* Some keys of the folder are deleted.
LEMMA PageDeleted ==
  ASSUME UploaderInv, Locals, Uploader!DeletePage
  PROVE  UploaderInv' /\ [Uploader!Contract!Next]_Barred
<1>K. PICK K : K = There
  OBVIOUS
<1>1. /\ step = "clear"
      /\ UNCHANGED <<script, folder, step, todo, cur, left, page, was, torn, lost, source, removed>>
  BY DEF Uploader!DeletePage
<1>2. /\ cur \in Uploader!Folders /\ cur # NoKey /\ K \in Uploader!Keys
      /\ Mine.patch \in 1..MaxPatch /\ s3[K] \in [File -> 0..MaxPatch] /\ was \in [File -> 0..MaxPatch]
      /\ s3 \in [Uploader!Keys -> [File -> 0..MaxPatch]]
  BY <1>K, <1>1, WorkedOn DEF Uploading, UploaderInv, UploaderTypes, Uploader!UploaderTypeOK
<1>S. PICK S : s3' = [s3 EXCEPT ![K] = [x \in File |-> IF x \in S THEN 0 ELSE s3[K][x]]]
  <2>1. PICK S \in (SUBSET Uploader!Here(Uploader!KeyOf(cur))) \ {{}} :
          s3' = [s3 EXCEPT ![Uploader!KeyOf(cur)] = [x \in File |-> IF x \in S THEN 0 ELSE @[x]]]
    BY DEF Uploader!DeletePage
  <2> QED  BY <1>K, <1>2, <2>1 DEF There
<1>3. /\ s3' \in [Uploader!Keys -> [File -> 0..MaxPatch]]
      /\ \A k \in Uploader!Keys : k # K => s3'[k] = s3[k]
      /\ \A x \in File : s3'[K][x] \in {0, s3[K][x]}
  <2>1. [x \in File |-> IF x \in S THEN 0 ELSE s3[K][x]] \in [File -> 0..MaxPatch]
    BY <1>2, UploaderFacts
  <2> QED  BY <1>2, <1>S, <2>1
<1>4. \A k \in Uploader!Keys : Uploader!Seen(k)' = Uploader!Seen(k)
  BY <1>K, <1>1, <1>2, <1>3 DEF Uploader!Seen, There
<1>5. UploaderTypes'
  BY <1>1, <1>3 DEF UploaderInv, UploaderTypes, Uploader!UploaderTypeOK
<1>6. Pending' /\ Compared' /\ Sent'
  BY <1>1 DEF UploaderInv, Pending, Compared, Sent, Mine, Uploading
<1>7. Held'
  <2>1. There' = K /\ Mine' = Mine /\ was' = was
    BY <1>K, <1>1 DEF There, Mine
  <2>2. s3'[K][Uploader!Json] \in {0, s3[K][Uploader!Json]}
    BY <1>3, UploaderFacts
  <2> QED  BY <1>K, <1>1, <2>1, <2>2 DEF UploaderInv, Held
<1>8. Copies'
  BY <1>K, <1>1, <1>3 DEF UploaderInv, Copies, There
<1>9. Rounds'
  BY <1>1, <1>4, RoundsKept DEF UploaderInv
<1> QED  BY <1>4, <1>5, <1>6, <1>7, <1>8, <1>9, ContractStutters DEF UploaderInv

\* The folder counts as cleared.
LEMMA ClearingOver ==
  ASSUME UploaderInv, Locals, Uploader!FolderCleared
  PROVE  UploaderInv' /\ [Uploader!Contract!Next]_Barred
<1>K. PICK K : K = There
  OBVIOUS
<1>1. /\ step = "clear" /\ step' = "send" /\ left' = Mine.files
      /\ \/ Uploader!Here(K) = {} /\ torn' = torn \ {K}
         \/ torn' = torn \cup {K}
      /\ UNCHANGED <<script, folder, s3, todo, cur, page, was, lost, source, removed>>
  BY <1>K DEF Uploader!FolderCleared, There, Mine
<1>2. /\ K \in Uploader!Keys /\ Mine.files # {} /\ Mine.files \subseteq File
      /\ s3[K] \in [File -> 0..MaxPatch]
  BY <1>K, <1>1, WorkedOn DEF Uploading
<1>3. There' = K /\ Mine' = Mine
  BY <1>K, <1>1 DEF There, Mine
<1>4. \A k \in Uploader!Keys : Uploader!Seen(k)' = Uploader!Seen(k)
  BY <1>1 DEF Uploader!Seen
<1>5. UploaderTypes'
  BY <1>1, <1>2 DEF UploaderInv, UploaderTypes, Uploader!UploaderTypeOK
<1>6. Pending' /\ Compared' /\ Held'
  BY <1>1, <1>2, <1>3, <1>K DEF UploaderInv, Pending, Compared, Held, Uploading
<1>7. Sent'
  <2>1. /\ left' \subseteq Mine'.files /\ Mine'.files \ left' = {}
        /\ Mine'.files \ (left' \cup lost') = {}
    BY <1>1, <1>3
  <2>2. CASE torn' = torn \cup {K}
    BY <1>1, <1>3, <2>1, <2>2 DEF Sent
  <2>3. CASE Uploader!Here(K) = {}
    <3>1. s3[K] = Uploader!NoFile
      BY <1>2, <2>3, UploaderFacts DEF Uploader!Here
    <3>2. s3'[There'] = [x \in File |-> IF x \in Mine'.files \ (left' \cup lost') THEN Mine'.patch ELSE 0]
      BY <1>1, <1>3, <2>1, <3>1 DEF Uploader!NoFile
    <3> QED  BY <2>1, <3>2 DEF Sent
  <2> QED  BY <1>1, <2>2, <2>3
<1>8. Copies'
  BY <1>K, <1>1, <1>3 DEF UploaderInv, Copies
<1>9. Rounds'
  BY <1>1, <1>4, RoundsKept DEF UploaderInv
<1> QED  BY <1>4, <1>5, <1>6, <1>7, <1>8, <1>9, ContractStutters DEF UploaderInv

\* What storing some of the files changes.
LEMMA FilesStored ==
  ASSUME UploaderInv, Locals, step = "send", NEW S \in SUBSET left, s3' = Uploader!Stored(S)
  PROVE  /\ s3' \in [Uploader!Keys -> [File -> 0..MaxPatch]]
         /\ \A k \in Uploader!Keys : k # There => s3'[k] = s3[k]
         /\ \A x \in File : s3'[There][x] = IF x \in S THEN Mine.patch ELSE s3[There][x]
<1>K. PICK K : K = There
  OBVIOUS
<1>1. /\ K \in Uploader!Keys /\ Mine.patch \in 1..MaxPatch /\ s3[K] \in [File -> 0..MaxPatch]
      /\ s3 \in [Uploader!Keys -> [File -> 0..MaxPatch]]
  BY <1>K, WorkedOn DEF Uploading, UploaderInv, UploaderTypes, Uploader!UploaderTypeOK
<1>2. [x \in File |-> IF x \in S THEN Mine.patch ELSE s3[K][x]] \in [File -> 0..MaxPatch]
  BY <1>1, UploaderFacts
<1>3. s3' = [s3 EXCEPT ![K] = [x \in File |-> IF x \in S THEN Mine.patch ELSE s3[K][x]]]
  BY <1>K, <1>1 DEF Uploader!Stored, There, Mine
<1> QED  BY <1>K, <1>1, <1>2, <1>3

\* A batch is sent.
LEMMA BatchSent ==
  ASSUME UploaderInv, Locals, Uploader!SendBatch
  PROVE  UploaderInv' /\ [Uploader!Contract!Next]_Barred
<1>K. PICK K : K = There
  OBVIOUS
<1>1. /\ step = "send"
      /\ UNCHANGED <<script, folder, step, todo, cur, page, was, torn, source, removed>>
  BY DEF Uploader!SendBatch
<1>S. PICK S \in SUBSET left : s3' = Uploader!Stored(S) /\ left' = left \ S /\ lost' = lost \ S
  BY DEF Uploader!SendBatch, Uploader!Batches
<1>2. /\ s3' \in [Uploader!Keys -> [File -> 0..MaxPatch]]
      /\ \A k \in Uploader!Keys : k # K => s3'[k] = s3[k]
      /\ \A x \in File : s3'[K][x] = IF x \in S THEN Mine.patch ELSE s3[K][x]
  BY <1>K, <1>1, <1>S, FilesStored
<1>3. /\ cur # NoKey /\ K \in Uploader!Keys /\ Mine.files \subseteq File
      /\ s3[K] \in [File -> 0..MaxPatch] /\ s3'[K] \in [File -> 0..MaxPatch]
      /\ There' = K /\ Mine' = Mine
  BY <1>K, <1>1, <1>2, WorkedOn DEF Uploading, There, Mine
<1>4. \A k \in Uploader!Keys : Uploader!Seen(k)' = Uploader!Seen(k)
  BY <1>K, <1>1, <1>2, <1>3 DEF Uploader!Seen, There
<1>5. UploaderTypes'
  BY <1>1, <1>2, <1>S DEF UploaderInv, UploaderTypes, Uploader!UploaderTypeOK
<1>6. Pending' /\ Compared'
  BY <1>1 DEF UploaderInv, Pending, Compared, Mine, Uploading
<1>7. Held'
  <2>1. s3'[K][Uploader!Json] \in {Mine.patch, s3[K][Uploader!Json]}
    BY <1>2, UploaderFacts
  <2> QED  BY <1>K, <1>1, <1>3, <2>1 DEF UploaderInv, Held
<1>8. Sent'
  <2>1. /\ left \subseteq Mine.files
        /\ K \in torn \/ s3[K] =
             [x \in File |-> IF x \in Mine.files \ (left \cup lost) THEN Mine.patch ELSE 0]
        /\ K \in removed \/ \A x \in Mine.files \ left : s3[K][x] = Mine.patch
    BY <1>K, <1>1 DEF UploaderInv, Sent
  <2>2. /\ left' \subseteq Mine.files /\ Mine.files \ left' = (Mine.files \ left) \cup S
        /\ Mine.files \ (left' \cup lost') = (Mine.files \ (left \cup lost)) \cup S
    BY <1>S, <2>1
  <2>3. K \in torn \/ s3'[K] =
          [x \in File |-> IF x \in Mine.files \ (left' \cup lost') THEN Mine.patch ELSE 0]
    <3> SUFFICES ASSUME K \notin torn
                 PROVE  s3'[K] =
                   [x \in File |-> IF x \in Mine.files \ (left' \cup lost') THEN Mine.patch ELSE 0]
      OBVIOUS
    <3>1. \A x \in File : s3'[K][x] = IF x \in Mine.files \ (left' \cup lost') THEN Mine.patch ELSE 0
      BY <1>2, <2>1, <2>2
    <3> QED  BY <1>3, <3>1
  <2>4. K \in removed \/ \A x \in Mine.files \ left' : s3'[K][x] = Mine.patch
    BY <1>2, <1>3, <2>1, <2>2
  <2> QED  BY <1>1, <1>3, <2>2, <2>3, <2>4 DEF Sent
<1>9. Copies'
  BY <1>K, <1>1, <1>2, <1>3 DEF UploaderInv, Copies
<1>10. Rounds'
  BY <1>1, <1>4, RoundsKept DEF UploaderInv
<1> QED  BY <1>4, <1>5, <1>6, <1>7, <1>8, <1>9, <1>10, ContractStutters DEF UploaderInv

\* The folder is through: the contract sees its upload now.
LEMMA FolderThrough ==
  ASSUME UploaderInv, Locals, Uploader!FolderSent
  PROVE  UploaderInv' /\ Uploader!Contract!Next
<1>K. PICK K : K = There
  OBVIOUS
<1>c. PICK c : c = cur
  OBVIOUS
<1>o. PICK old : old = was
  OBVIOUS
<1>1. /\ step = "send" /\ left = {}
      /\ source' = [source EXCEPT ![K] = [patch |-> Mine.patch, files |-> Mine.files \ lost]]
      /\ step' = "next" /\ cur' = NoKey /\ left' = {} /\ lost' = {} /\ was' = Uploader!NoFile
      /\ UNCHANGED <<script, folder, s3, todo, page, torn, removed>>
  BY <1>K DEF Uploader!FolderSent, Uploader!FolderDone, Uploader!AllSent, Mine, There
<1>2. /\ c \in Uploader!Folders /\ cur # NoKey /\ K \in Uploader!Keys
      /\ Mine.files # {} /\ Mine.files \subseteq File /\ Mine.patch \in 1..MaxPatch
      /\ s3[K] \in [File -> 0..MaxPatch] /\ old \in [File -> 0..MaxPatch]
      /\ Uploader!Seen(K) = old
      /\ \A k \in Uploader!Keys : k # K => Uploader!Seen(k) = s3[k]
  BY <1>K, <1>c, <1>o, <1>1, WorkedOn DEF Uploading
<1>3. \A k \in Uploader!Keys : Uploader!Seen(k)' = s3[k]
  BY <1>1 DEF Uploader!Seen
<1>4. /\ \/ old = Uploader!NoFile
         \/ Uploader!Json \in Mine.files /\ old[Uploader!Json] # 0 /\ Mine.patch > old[Uploader!Json]
      /\ s3[K][Uploader!Json] \in {0, old[Uploader!Json], Mine.patch}
  BY <1>K, <1>o, <1>1 DEF UploaderInv, Held
<1>5. /\ K \in torn \/ s3[K] = [x \in File |-> IF x \in Mine.files \ lost THEN Mine.patch ELSE 0]
      /\ K \in removed \/ \A x \in Mine.files : s3[K][x] = Mine.patch
  BY <1>K, <1>1 DEF UploaderInv, Sent
<1>6. Uploader!Contract!Next
  <2>1. PICK p \in 1..MaxPatch : p = Mine.patch
    BY <1>2
  <2>2. PICK new : new = s3[K]
    OBVIOUS
  <2>3. /\ Uploader!Seen(K) = old /\ Uploader!Seen(K)' = new
        /\ new \in [File -> 0..MaxPatch]
        /\ new[Uploader!Json] \in {0, old[Uploader!Json], p}
        /\ old = Uploader!NoFile \/ (old[Uploader!Json] # 0 /\ p > old[Uploader!Json])
        /\ \A l \in Uploader!Keys : l # K => Uploader!Seen(l)' = Uploader!Seen(l)
    BY <1>2, <1>3, <1>4, <2>1, <2>2
  <2> QED  BY <1>2, <2>3, ContractUploads, UploaderFacts
<1>7. /\ source' \in [Uploader!Keys -> [patch : 0..MaxPatch, files : SUBSET File]]
      /\ source'[K] = [patch |-> Mine.patch, files |-> Mine.files \ lost]
      /\ \A k \in Uploader!Keys : k # K => source'[k] = source[k]
  <2>1. [patch |-> Mine.patch, files |-> Mine.files \ lost] \in [patch : 0..MaxPatch, files : SUBSET File]
    BY <1>2, UploaderFacts
  <2> QED  BY <1>1, <1>2, <2>1 DEF UploaderInv, UploaderTypes
<1>8. UploaderTypes'
  BY <1>1, <1>7, UploaderFacts DEF UploaderInv, UploaderTypes, Uploader!UploaderTypeOK
<1>9. Pending' /\ Compared' /\ Held' /\ Sent'
  BY <1>1 DEF UploaderInv, Pending, Compared, Held, Sent, Uploading
<1>10. Copies'
  <2>1. Uploader!CopyOf(source'[K]) = [x \in File |-> IF x \in Mine.files \ lost THEN Mine.patch ELSE 0]
    BY <1>7 DEF Uploader!CopyOf
  <2>2. \A k \in Uploader!Keys : k # K => k \in torn \/ s3[k] = Uploader!CopyOf(source[k])
    BY <1>K DEF UploaderInv, Copies
  <2> QED  BY <1>1, <1>5, <1>7, <2>1, <2>2 DEF Copies
<1>11. Rounds'
  <2> SUFFICES ASSUME NEW f \in Uploader!Folders, folder[f].files # {}, f \notin todo,
                      Uploader!KeyOf(f) \notin removed
               PROVE  UpToDate(f, s3[Uploader!KeyOf(f)])
    <3>1. \A f \in Uploader!Folders : Uploader!KeyOf(f) \in Uploader!Keys
      BY UploaderFacts
    <3>2. \A f \in Uploader!Folders : Uploader!Seen(Uploader!KeyOf(f))' = s3[Uploader!KeyOf(f)]
      BY <1>3, <3>1
    <3> QED  BY <1>1, <3>2 DEF Rounds, UpToDate
  <2>1. f = c \/ UpToDate(f, Uploader!Seen(Uploader!KeyOf(f)))
    BY <1>c, <1>1 DEF UploaderInv, Rounds
  <2>2. CASE Uploader!KeyOf(f) # K
    BY <1>K, <1>c, <1>2, <2>1, <2>2, UploaderFacts DEF There
  <2>3. CASE Uploader!KeyOf(f) = K
    <3>1. \A x \in Mine.files : s3[K][x] = Mine.patch
      BY <1>5, <2>3
    <3>2. s3[K] # Uploader!NoFile
      BY <1>2, <3>1 DEF Uploader!NoFile
    <3>3. CASE f = c
      <4>1. folder[f].patch = Mine.patch
        BY <1>c, <3>3 DEF Mine
      <4>2. s3[K][Uploader!Json] = 0 \/ s3[K][Uploader!Json] = Mine.patch
        BY <1>4, <3>1, UploaderFacts DEF Uploader!NoFile
      <4>3. Mine.patch \in Nat
        BY <1>2, UploaderFacts
      <4> QED  BY <2>3, <3>2, <4>1, <4>2, <4>3 DEF UpToDate
    <3>4. CASE f # c
      <4>1. old # Uploader!NoFile /\ (old[Uploader!Json] = 0 \/ old[Uploader!Json] >= folder[f].patch)
        BY <1>2, <2>1, <2>3, <3>4 DEF UpToDate
      <4>2. s3[K][Uploader!Json] = Mine.patch /\ Mine.patch > old[Uploader!Json]
            /\ old[Uploader!Json] >= folder[f].patch
        BY <1>4, <3>1, <4>1
      <4>3. Mine.patch \in Nat /\ old[Uploader!Json] \in Nat /\ folder[f].patch \in Nat
        BY <1>2, UploaderFacts DEF Locals
      <4> QED  BY <2>3, <3>2, <4>2, <4>3 DEF UpToDate
    <3> QED  BY <3>3, <3>4
  <2> QED  BY <2>2, <2>3
<1> QED  BY <1>6, <1>8, <1>9, <1>10, <1>11 DEF UploaderInv

\* An error or a kill: the contract sees what has become of the folder.
LEMMA UploadBroken ==
  ASSUME UploaderInv, Locals, Uploader!UploadFails
  PROVE  UploaderInv' /\ [Uploader!Contract!Next]_Barred
<1>K. PICK K : K = There
  OBVIOUS
<1>o. PICK old : old = was
  OBVIOUS
<1>1. /\ step # "none"
      /\ script' = "none" /\ step' = "none" /\ todo' = {}
      /\ cur' = NoKey /\ left' = {} /\ lost' = {} /\ was' = Uploader!NoFile /\ removed' = {}
      /\ torn' = IF step \in {"clear", "send"} THEN torn \cup {K} ELSE torn
      /\ UNCHANGED <<folder, page, source>>
  BY <1>K DEF Uploader!UploadFails, Uploader!GiveUp, There, UploaderInv, UploaderTypes, Uploader!UploaderTypeOK
<1>2. \/ s3' = s3
      \/ /\ step = "send"
         /\ \E T \in SUBSET left : s3' = Uploader!Stored(T)
  BY DEF Uploader!UploadFails, Uploader!Batches
<1>3. /\ s3' \in [Uploader!Keys -> [File -> 0..MaxPatch]]
      /\ \A k \in Uploader!Keys : k # K => s3'[k] = s3[k]
      /\ step # "send" => s3' = s3
      /\ step = "send" => \A x \in File : s3'[K][x] \in {s3[K][x], Mine.patch}
  BY <1>K, <1>2, FilesStored DEF UploaderInv, UploaderTypes, Uploader!UploaderTypeOK
<1>4. \A k \in Uploader!Keys : Uploader!Seen(k)' = s3'[k]
  BY <1>1 DEF Uploader!Seen
<1>5. Pending' /\ Compared' /\ Held' /\ Sent' /\ Rounds'
  BY <1>1 DEF Pending, Compared, Held, Sent, Rounds, Uploading
<1>6. CASE step \notin {"clear", "send"}
  <2>1. s3' = s3 /\ torn' = torn
    BY <1>1, <1>3, <1>6
  <2>2. UploaderTypes'
    BY <1>1, <2>1, UploaderFacts DEF UploaderInv, UploaderTypes, Uploader!UploaderTypeOK
  <2>3. Copies'
    BY <1>1, <1>6, <2>1 DEF UploaderInv, Copies
  <2>4. \A k \in Uploader!Keys : Uploader!Seen(k) = s3[k]
    BY <1>6 DEF Uploader!Seen
  <2> QED  BY <1>4, <1>5, <2>1, <2>2, <2>3, <2>4, ContractStutters DEF UploaderInv
<1>7. CASE step \in {"clear", "send"}
  <2>1. /\ K \in Uploader!Keys /\ Mine.patch \in 1..MaxPatch
        /\ old \in [File -> 0..MaxPatch] /\ Uploader!Seen(K) = old
        /\ \A k \in Uploader!Keys : k # K => Uploader!Seen(k) = s3[k]
    BY <1>K, <1>o, <1>7, WorkedOn DEF Uploading
  <2>2. UploaderTypes'
    BY <1>1, <1>3, <1>7, <2>1, UploaderFacts DEF UploaderInv, UploaderTypes, Uploader!UploaderTypeOK
  <2>3. Copies'
    BY <1>K, <1>1, <1>3, <1>7 DEF UploaderInv, Copies
  <2>4. /\ old = Uploader!NoFile \/ (old[Uploader!Json] # 0 /\ Mine.patch > old[Uploader!Json])
        /\ s3'[K][Uploader!Json] \in {0, old[Uploader!Json], Mine.patch}
    BY <1>K, <1>o, <1>3, <1>7, UploaderFacts DEF UploaderInv, Held
  <2>5. PICK p \in 1..MaxPatch : p = Mine.patch
    BY <2>1
  <2>6. PICK new : new = s3'[K]
    OBVIOUS
  <2>7. /\ Uploader!Seen(K) = old /\ Uploader!Seen(K)' = new
        /\ new \in [File -> 0..MaxPatch]
        /\ new[Uploader!Json] \in {0, old[Uploader!Json], p}
        /\ old = Uploader!NoFile \/ (old[Uploader!Json] # 0 /\ p > old[Uploader!Json])
        /\ \A l \in Uploader!Keys : l # K => Uploader!Seen(l)' = Uploader!Seen(l)
    BY <1>3, <1>4, <2>1, <2>4, <2>5, <2>6
  <2>8. Uploader!Contract!Next
    BY <2>1, <2>7, ContractUploads, UploaderFacts
  <2> QED  BY <1>5, <2>2, <2>3, <2>8 DEF UploaderInv
<1> QED  BY <1>6, <1>7

\* The script starts, or has come to its end.
LEMMA ScriptStarts ==
  ASSUME UploaderInv, Locals, Uploader!StartUpload
  PROVE  UploaderInv' /\ [Uploader!Contract!Next]_Barred
<1>1. /\ script = "none" /\ script' = "upload" /\ step' = "next" /\ step = "none"
      /\ todo' = {f \in Uploader!Folders : folder[f].files # {}}
      /\ UNCHANGED <<folder, s3, cur, left, page, was, torn, lost, source, removed>>
  BY DEF Uploader!StartUpload, UploaderInv, UploaderTypes, Uploader!UploaderTypeOK
<1>2. \A k \in Uploader!Keys : Uploader!Seen(k)' = Uploader!Seen(k)
  BY <1>1 DEF Uploader!Seen
<1>3. UploaderTypes'
  BY <1>1 DEF UploaderInv, UploaderTypes, Uploader!UploaderTypeOK
<1>4. Pending' /\ Compared' /\ Held' /\ Sent' /\ Rounds'
  BY <1>1 DEF UploaderInv, Pending, Compared, Held, Sent, Rounds, Uploading
<1>5. Copies'
  BY <1>1 DEF UploaderInv, Copies
<1> QED  BY <1>2, <1>3, <1>4, <1>5, ContractStutters DEF UploaderInv

LEMMA ScriptEnds ==
  ASSUME UploaderInv, Uploader!UploadDone
  PROVE  UploaderInv' /\ [Uploader!Contract!Next]_Barred
<1>1. /\ step = "next" /\ todo = {} /\ script' = "none" /\ step' = "none"
      /\ UNCHANGED <<folder, s3, todo, cur, left, page, was, torn, lost, source>>
  BY DEF Uploader!UploadDone
<1>2. \A k \in Uploader!Keys : Uploader!Seen(k)' = Uploader!Seen(k)
  BY <1>1 DEF Uploader!Seen
<1>3. UploaderTypes'
  BY <1>1 DEF UploaderInv, UploaderTypes, Uploader!UploaderTypeOK
<1>4. Pending' /\ Compared' /\ Held' /\ Sent' /\ Rounds'
  BY <1>1 DEF UploaderInv, Pending, Compared, Held, Sent, Rounds, Uploading
<1>5. Copies'
  BY <1>1 DEF UploaderInv, Copies
<1> QED  BY <1>2, <1>3, <1>4, <1>5, ContractStutters DEF UploaderInv

\* The job lists a page of a folder, at any moment.
LEMMA PageListed ==
  ASSUME UploaderInv, Uploader!JobLists
  PROVE  UploaderInv' /\ [Uploader!Contract!Next]_Barred
<1>1. UNCHANGED <<script, folder, s3, step, todo, cur, left, was, torn, lost, source, removed>>
  BY DEF Uploader!JobLists
<1>k. PICK k \in Uploader!Keys : \E S \in Uploader!Pages(k) : page' = [key |-> k, files |-> S]
  BY DEF Uploader!JobLists
<1>2. PICK S \in Uploader!Pages(k) : page' = [key |-> k, files |-> S]
  BY <1>k
<1>3. S # {} /\ S \subseteq File
  BY DEF Uploader!Pages, Uploader!Here
<1>4. UploaderTypes'
  BY <1>1, <1>2, <1>3 DEF UploaderInv, UploaderTypes, Uploader!UploaderTypeOK
<1>5. Pending' /\ Compared' /\ Held' /\ Sent' /\ Copies'
  BY <1>1 DEF UploaderInv, Pending, Compared, Held, Sent, Copies, Uploading, There, Mine
<1>6. Rounds'
  BY <1>1 DEF UploaderInv, Rounds, UpToDate, Uploader!Seen
<1>7. \A l \in Uploader!Keys : Uploader!Seen(l)' = Uploader!Seen(l)
  BY <1>1 DEF Uploader!Seen
<1> QED  BY <1>4, <1>5, <1>6, <1>7, ContractStutters DEF UploaderInv

\* The job deletes what it has listed, whatever has become of the folder: the contract
\* sees these files go, unless the folder is just being replaced.
LEMMA PageRemoved ==
  ASSUME UploaderInv, Locals, Uploader!JobDeletes
  PROVE  UploaderInv' /\ [Uploader!Contract!Next]_Barred
<1>k. PICK k : k = page.key
  OBVIOUS
<1>P. PICK P : P = page.files
  OBVIOUS
<1>1. /\ UNCHANGED <<script, folder, step, todo, cur, left, was, torn>>
      /\ P # {} /\ page' = Uploader!NoPage
      /\ lost' = IF step = "send" /\ There = k THEN lost \cup P ELSE lost
      /\ removed' = IF script = "upload" THEN removed \cup {k} ELSE removed
  BY <1>k, <1>P DEF Uploader!JobDeletes, There
<1>2. /\ k \in Uploader!Keys /\ P \subseteq File
      /\ s3 \in [Uploader!Keys -> [File -> 0..MaxPatch]]
      /\ source \in [Uploader!Keys -> [patch : 0..MaxPatch, files : SUBSET File]]
  BY <1>k, <1>P, <1>1 DEF UploaderInv, UploaderTypes, Uploader!UploaderTypeOK
<1>3. /\ s3' \in [Uploader!Keys -> [File -> 0..MaxPatch]]
      /\ \A x \in File : s3'[k][x] = IF x \in P THEN 0 ELSE s3[k][x]
      /\ \A l \in Uploader!Keys : l # k => s3'[l] = s3[l]
  <2>1. [x \in File |-> IF x \in P THEN 0 ELSE s3[k][x]] \in [File -> 0..MaxPatch]
    BY <1>2, UploaderFacts
  <2>2. s3' = [s3 EXCEPT ![k] = [x \in File |-> IF x \in P THEN 0 ELSE s3[k][x]]]
    BY <1>k, <1>P, <1>2 DEF Uploader!JobDeletes
  <2> QED  BY <1>2, <2>1, <2>2
<1>4. /\ source' \in [Uploader!Keys -> [patch : 0..MaxPatch, files : SUBSET File]]
      /\ source'[k].patch = source[k].patch /\ source'[k].files = source[k].files \ P
      /\ \A l \in Uploader!Keys : l # k => source'[l] = source[l]
  <2>1. PICK rest : rest = source[k].files \ P
    OBVIOUS
  <2>2. source' = [source EXCEPT ![k].files = rest]
    BY <1>k, <1>P, <1>2, <2>1 DEF Uploader!JobDeletes
  <2>3. rest \in SUBSET File
    BY <1>2, <2>1
  <2>4. source'[k] = [source[k] EXCEPT !.files = rest]
        /\ \A l \in Uploader!Keys : l # k => source'[l] = source[l]
    BY <1>2, <2>2
  <2>5. source' \in [Uploader!Keys -> [patch : 0..MaxPatch, files : SUBSET File]]
    BY <1>2, <2>2, <2>3
  <2> QED  BY <1>2, <2>1, <2>4, <2>5
<1>5. /\ removed \subseteq removed' /\ (step # "none" => k \in removed')
      /\ There' = There /\ Mine' = Mine
      /\ Uploading => cur # NoKey /\ There \in Uploader!Keys
  BY <1>1, WorkedOn DEF UploaderInv, UploaderTypes, Uploader!UploaderTypeOK, There, Mine
<1>6. UploaderTypes'
  <2>1. lost' \subseteq File
    BY <1>1, <1>2 DEF UploaderInv, UploaderTypes, Uploader!UploaderTypeOK
  <2>2. page' = Uploader!NoPage /\ page'.files = {}
    BY <1>1 DEF Uploader!NoPage
  <2> QED  BY <1>1, <1>3, <1>4, <2>1, <2>2 DEF UploaderInv, UploaderTypes, Uploader!UploaderTypeOK
<1>7. Pending'
  BY <1>1, <1>5 DEF UploaderInv, Pending, Uploading
<1>8. Compared'
  <2>1. step \notin {"clear", "send"} => was' = Uploader!NoFile
    BY <1>1 DEF UploaderInv, Compared
  <2>2. step = "compare" => There \in removed' \/ s3'[There] # Uploader!NoFile
    BY <1>3, <1>5 DEF UploaderInv, Compared, Uploading
  <2> QED  BY <1>1, <1>5, <2>1, <2>2 DEF Compared
<1>9. Held'
  <2> SUFFICES ASSUME step \in {"clear", "send"}
               PROVE  s3'[There][Uploader!Json] \in {0, was[Uploader!Json], Mine.patch}
    BY <1>1, <1>5 DEF UploaderInv, Held
  <2>1. s3'[There][Uploader!Json] \in {0, s3[There][Uploader!Json]}
    BY <1>3, <1>5, UploaderFacts DEF Uploading
  <2> QED  BY <2>1 DEF UploaderInv, Held
<1>10. Sent'
  <2> SUFFICES ASSUME step = "send" PROVE Sent'
    BY <1>1 DEF Sent
  <2>1. /\ left \subseteq Mine.files
        /\ There \in torn \/ s3[There] =
             [x \in File |-> IF x \in Mine.files \ (left \cup lost) THEN Mine.patch ELSE 0]
        /\ There \in removed \/ \A x \in Mine.files \ left : s3[There][x] = Mine.patch
    BY DEF UploaderInv, Sent
  <2>2. CASE There # k
    <3>1. s3'[There] = s3[There] /\ lost' = lost
      BY <1>1, <1>3, <1>5, <2>2 DEF Uploading
    <3> QED  BY <1>1, <1>5, <2>1, <3>1 DEF Sent
  <2>3. CASE There = k
    <3>1. lost' = lost \cup P /\ k \in removed'
      BY <1>1, <1>5, <2>3
    <3>2. ASSUME k \notin torn
          PROVE  s3'[k] = [x \in File |-> IF x \in Mine.files \ (left \cup lost') THEN Mine.patch ELSE 0]
      <4>1. \A x \in File : s3[k][x] = IF x \in Mine.files \ (left \cup lost) THEN Mine.patch ELSE 0
        BY <2>1, <2>3, <3>2
      <4>2. \A x \in File : s3'[k][x] = IF x \in Mine.files \ (left \cup lost') THEN Mine.patch ELSE 0
        BY <1>3, <3>1, <4>1
      <4>3. s3'[k] \in [File -> 0..MaxPatch]
        BY <1>2, <1>3
      <4> QED  BY <4>2, <4>3
    <3> QED  BY <1>1, <1>5, <2>1, <2>3, <3>1, <3>2 DEF Sent
  <2> QED  BY <2>2, <2>3
<1>11. Copies'
  <2> SUFFICES ASSUME NEW l \in Uploader!Keys, l \notin torn, ~(step \in {"clear", "send"} /\ There = l)
               PROVE  s3'[l] = Uploader!CopyOf(source'[l])
    BY <1>1, <1>5 DEF Copies
  <2>1. s3[l] = Uploader!CopyOf(source[l])
    BY DEF UploaderInv, Copies
  <2>2. CASE l # k
    BY <1>3, <1>4, <2>1, <2>2
  <2>3. CASE l = k
    <3>1. \A x \in File : s3[k][x] = IF x \in source[k].files THEN source[k].patch ELSE 0
      BY <2>1, <2>3 DEF Uploader!CopyOf
    <3>2. \A x \in File : s3'[k][x] = IF x \in source[k].files \ P THEN source[k].patch ELSE 0
      BY <1>3, <3>1
    <3>3. s3'[k] = [x \in File |-> IF x \in source[k].files \ P THEN source[k].patch ELSE 0]
      BY <1>2, <1>3, <3>2
    <3> QED  BY <1>4, <2>3, <3>3 DEF Uploader!CopyOf
  <2> QED  BY <2>2, <2>3
<1>12. \A l \in Uploader!Keys : l # k => Uploader!Seen(l)' = Uploader!Seen(l)
  BY <1>1, <1>3 DEF Uploader!Seen
<1>13. Rounds'
  <2>1. CASE step = "none"
    BY <1>1, <2>1 DEF Rounds
  <2>2. CASE step # "none"
    BY <1>1, <1>5, <1>12, <2>2, RoundsKept DEF UploaderInv
  <2> QED  BY <2>1, <2>2
<1>14. [Uploader!Contract!Next]_Barred
  <2>1. CASE step \in {"clear", "send"} /\ There = k
    <3>1. Uploader!Seen(k)' = Uploader!Seen(k)
      BY <1>1, <2>1 DEF Uploader!Seen, There
    <3> QED  BY <1>12, <3>1, ContractStutters
  <2>2. CASE ~(step \in {"clear", "send"} /\ There = k)
    <3>1. Uploader!Seen(k) = s3[k] /\ Uploader!Seen(k)' = s3'[k]
      BY <1>1, <2>2 DEF Uploader!Seen, There
    <3>2. \A x \in File : s3'[k][x] \in {0, s3[k][x]}
      BY <1>3
    <3> QED  BY <1>2, <1>12, <3>1, <3>2, ContractRemoves, UploaderFacts
  <2> QED  BY <2>1, <2>2
<1> QED  BY <1>6, <1>7, <1>8, <1>9, <1>10, <1>11, <1>13, <1>14 DEF UploaderInv

\* Every step of the uploader keeps its invariant and is one that its contract allows.
LEMMA UploaderStep ==
  ASSUME UploaderInv, Locals, Uploader!UploaderNext
  PROVE  UploaderInv' /\ [Uploader!Contract!Next]_Barred
BY ScriptStarts, FolderLookedUp, VersionsCompared, NothingToCompare, PageDeleted, ClearingOver, BatchSent,
   FolderThrough, ScriptEnds, UploadBroken, PageListed, PageRemoved
   DEF Uploader!UploaderNext, Uploader!UploadStep, Uploader!JobRemoves

\* While the uploader does not run, its invariant asks nothing of the local folders.
LEMMA UploaderRests ==
  ASSUME UploaderInv, script # "upload", script' # "upload", UNCHANGED uploading
  PROVE  UploaderInv' /\ [Uploader!Contract!Next]_Barred
<1>1. /\ step = "none" /\ step' = "none" /\ todo' = {}
      /\ UNCHANGED <<s3, step, todo, cur, left, page, was, torn, lost, source, removed>>
  BY DEF UploaderInv, UploaderTypes, Uploader!UploaderTypeOK, Pending, uploading
<1>2. UploaderTypes'
  BY <1>1 DEF UploaderInv, UploaderTypes, Uploader!UploaderTypeOK
<1>3. Pending' /\ Compared' /\ Held' /\ Sent' /\ Rounds'
  BY <1>1 DEF UploaderInv, Pending, Compared, Held, Sent, Rounds, Uploading
<1>4. Copies'
  BY <1>1 DEF UploaderInv, Copies
<1>5. \A k \in Uploader!Keys : Uploader!Seen(k)' = Uploader!Seen(k)
  BY <1>1 DEF Uploader!Seen
<1> QED  BY <1>2, <1>3, <1>4, <1>5, ContractStutters DEF UploaderInv

(***************************************************************************)
(* The scripts together: one runs at a time.                               *)
(***************************************************************************)
LEMMA MapAlone ==
  ASSUME RepoMap!MapNext
  PROVE  script \in {"none", "map"} /\ script' \in {"none", "map"}
BY DEF RepoMap!MapNext, RepoMap!StartMap, RepoMap!VisitOwner, RepoMap!WriteMap, RepoMap!MapCrash

\* The packager reads the map file and does not write it.
LEMMA PackagerAlone ==
  ASSUME PackagerInv, Packager!PackagerNext
  PROVE  script \in {"none", "package"} /\ script' \in {"none", "package"} /\ repoOf' = repoOf
<1>0. agenda # <<>> => script = "package"
  BY DEF PackagerInv, Idle
<1>1. CASE Packager!StartPackaging
  BY <1>1 DEF Packager!StartPackaging
<1>2. CASE Packager!BuildLibrary
  BY <1>0, <1>2 DEF Packager!BuildLibrary
<1>3. CASE Packager!SkipVersion
  BY <1>0, <1>3 DEF Packager!SkipVersion
<1>4. CASE Packager!BuildVersion
  BY <1>0, <1>4 DEF Packager!BuildVersion, Packager!Building
<1>5. CASE Packager!BuildDependency
  BY <1>0, <1>5 DEF Packager!BuildDependency
<1>6. CASE Packager!SemanticsRefused
  BY <1>0, <1>6 DEF Packager!SemanticsRefused, Packager!Building, Packager!Exit
<1>7. CASE Packager!PackagingDone
  BY <1>7 DEF Packager!PackagingDone, Packager!Exit
<1>8. CASE Packager!DownloadFails
  BY <1>0, <1>8 DEF Packager!DownloadFails, Packager!Building
<1>9. CASE Packager!PackagingCrash
  BY <1>9 DEF Packager!PackagingCrash, Packager!Exit
<1> QED  BY <1>1, <1>2, <1>3, <1>4, <1>5, <1>6, <1>7, <1>8, <1>9
         DEF Packager!PackagerNext, Packager!PackagingStep

\* The uploader reads the local folders; the job may strike while another script runs.
LEMMA UploaderAlone ==
  ASSUME UploaderInv, Uploader!UploaderNext
  PROVE  /\ script' = script \/ (script \in {"none", "upload"} /\ script' \in {"none", "upload"})
         /\ folder' = folder
<1>0. step # "none" => script = "upload"
  BY DEF UploaderInv, UploaderTypes, Uploader!UploaderTypeOK
<1>1. CASE Uploader!StartUpload
  BY <1>1 DEF Uploader!StartUpload
<1>2. CASE Uploader!CheckExists
  BY <1>2 DEF Uploader!CheckExists
<1>3. CASE Uploader!CompareVersions
  BY <1>3 DEF Uploader!CompareVersions
<1>4. CASE Uploader!NoLocalJson
  BY <1>0, <1>4 DEF Uploader!NoLocalJson, Uploader!GiveUp
<1>5. CASE Uploader!DeletePage
  BY <1>5 DEF Uploader!DeletePage
<1>6. CASE Uploader!FolderCleared
  BY <1>6 DEF Uploader!FolderCleared
<1>7. CASE Uploader!SendBatch
  BY <1>7 DEF Uploader!SendBatch
<1>8. CASE Uploader!FolderSent
  BY <1>8 DEF Uploader!FolderSent
<1>9. CASE Uploader!UploadDone
  BY <1>0, <1>9 DEF Uploader!UploadDone
<1>10. CASE Uploader!UploadFails
  BY <1>10 DEF Uploader!UploadFails, Uploader!GiveUp
<1>11. CASE Uploader!JobRemoves
  BY <1>11 DEF Uploader!JobRemoves, Uploader!JobLists, Uploader!JobDeletes
<1> QED  BY <1>1, <1>2, <1>3, <1>4, <1>5, <1>6, <1>7, <1>8, <1>9, <1>10, <1>11
         DEF Uploader!UploaderNext, Uploader!UploadStep

\* What the map and the packager go by does not change while neither is at work.
LEMMA OthersRest ==
  ASSUME DraftInv, PackagerInv, UNCHANGED <<repoOf, mapping, packaging, folder>>,
         script' = script \/ (script \in {"none", "upload"} /\ script' \in {"none", "upload"})
  PROVE  DraftInv' /\ PackagerInv'
<1>1. UNCHANGED <<repoOf, visit, draft, missed, agenda, available, failed, unresolved, blind, folder>>
  BY DEF mapping, packaging
<1>2. DraftInv'
  BY <1>1 DEF DraftInv, Visited, RepoMap!WonIn
<1>3. PackagerTypes' /\ Filled' /\ Idle' /\ AvailableIsWhole'
  BY <1>1 DEF PackagerInv, PackagerTypes, Filled, Idle, AvailableIsWhole, Packager!AvailableIsWhole
<1>4. AgendaRight'
  BY ZenonT(60), <1>1 DEF PackagerInv, AgendaRight, Right, NotAbove, Within, Wanted,
     Packager!BelowHub, Meets, Settled, Packager!DependenciesOf
<1> QED  BY <1>2, <1>3, <1>4 DEF PackagerInv

SupplyInv == DraftInv /\ PackagerInv /\ UploaderInv

LEMMA SupplyStarts ==
  ASSUME Init
  PROVE  SupplyInv /\ Uploader!Contract!Init
<1>1. /\ script = "none" /\ repoOf = RepoMap!Unmapped
      /\ agenda = <<>> /\ available = {} /\ failed = {} /\ unresolved = {}
      /\ folder = [f \in Packager!Folders |-> Packager!NoFolder]
      /\ step = "none" /\ todo = {} /\ cur = NoKey /\ left = {} /\ was = Uploader!NoFile /\ torn = {}
      /\ lost = {} /\ page = Uploader!NoPage /\ page.files = {}
  BY DEF Init, RepoMap!MapInit, Packager!PackagerInit, Uploader!UploaderInit, Uploader!NoPage
<1>2. DraftInv
  BY <1>1 DEF DraftInv
<1>3. PackagerInv
  <2>1. Packager!NoFolder \in FolderType /\ Packager!NoFolder.files = {}
    BY Constants DEF Packager!NoFolder, FolderType
  <2>2. <<>> \in Seq(Items) /\ El(agenda) = {}
    BY <1>1 DEF El
  <2>3. PackagerTypes
    BY <1>1, <2>1, <2>2 DEF PackagerTypes, RepoMap!Unmapped
  <2>4. Filled
    BY <1>1, <2>1 DEF Filled
  <2> QED  BY <1>1, <2>2, <2>3, <2>4
           DEF PackagerInv, Idle, AvailableIsWhole, Packager!AvailableIsWhole, AgendaRight
<1>4. PICK stock \in Stocked :
        /\ source = [k \in Name \X Line |->
                       [patch |-> stock[k], files |-> IF stock[k] = 0 THEN {} ELSE File]]
        /\ s3 = [k \in Name \X Line |-> Uploader!CopyOf(source[k])]
  BY DEF Init
<1>5. stock \in [Uploader!Keys -> 0..MaxPatch]
  BY SupplyAssumption DEF Uploader!Keys
<1>6. source \in [Uploader!Keys -> [patch : 0..MaxPatch, files : SUBSET File]]
  BY <1>4, <1>5 DEF Uploader!Keys
<1>7. /\ s3 \in [Uploader!Keys -> [File -> 0..MaxPatch]]
      /\ \A k \in Uploader!Keys : s3[k] = Uploader!CopyOf(source[k])
  <2>1. \A k \in Uploader!Keys : Uploader!CopyOf(source[k]) \in [File -> 0..MaxPatch]
    BY <1>6, UploaderFacts DEF Uploader!CopyOf
  <2> QED  BY <1>4, <2>1 DEF Uploader!Keys
<1>8. UploaderInv
  <2>1. UploaderTypes
    BY <1>1, <1>6, <1>7, UploaderFacts DEF UploaderTypes, Uploader!UploaderTypeOK
  <2> QED  BY <1>1, <1>7, <2>1 DEF UploaderInv, Pending, Compared, Held, Sent, Copies, Rounds, Uploading
<1>9. \A k \in Uploader!Keys : Uploader!Seen(k) \in [File -> 0..MaxPatch]
  BY <1>1, <1>7 DEF Uploader!Seen
<1>10. Uploader!Contract!Init
  <2>1. \A k \in Uploader!Keys : Uploader!Seen(k)[Uploader!Json] \in {0} \cup 1..MaxPatch
    BY <1>9, UploaderFacts
  <2> QED  BY <2>1 DEF Uploader!Contract!Init, Uploader!Contract!NoJson
<1> QED  BY <1>2, <1>3, <1>8, <1>10 DEF SupplyInv

\* Every step of the scripts keeps the invariant and the contract about uploads.
LEMMA SupplyStep ==
  ASSUME SupplyInv, [Next]_vars
  PROVE  SupplyInv' /\ [Uploader!Contract!Next]_Barred
<1>1. DraftInv /\ PackagerInv /\ UploaderInv /\ Locals
  BY LocalFolders DEF SupplyInv
<1>2. CASE MapScript
  <2>1. /\ RepoMap!MapNext /\ UNCHANGED <<packaging, folder, uploading>>
        /\ script \in {"none", "map"} /\ script' \in {"none", "map"}
    BY <1>2, MapAlone DEF MapScript
  <2>2. DraftInv'
    BY <1>1, <2>1, MapStep, SupplyAssumption
  <2>3. repoOf' \in [Name -> Repo \cup {NoRepo}]
    BY <1>1, <2>1
       DEF PackagerInv, PackagerTypes, DraftInv, RepoMap!MapNext, RepoMap!StartMap, RepoMap!VisitOwner,
           RepoMap!WriteMap, RepoMap!MapCrash
  <2>4. agenda' = <<>> /\ available' = {} /\ El(agenda') = {}
    BY <1>1, <2>1 DEF PackagerInv, Idle, packaging, El
  <2>5. PackagerTypes' /\ Filled'
    BY <1>1, <2>1, <2>3 DEF PackagerInv, PackagerTypes, Filled, packaging
  <2>6. PackagerInv'
    BY <2>4, <2>5 DEF PackagerInv, Idle, AvailableIsWhole, Packager!AvailableIsWhole, AgendaRight
  <2> QED  BY <1>1, <2>1, <2>2, <2>6, UploaderRests DEF SupplyInv
<1>3. CASE PackagerScript
  <2>1. /\ Packager!PackagerNext /\ UNCHANGED <<mapping, uploading>>
        /\ script \in {"none", "package"} /\ script' \in {"none", "package"}
    BY <1>1, <1>3, PackagerAlone DEF PackagerScript
  <2>2. DraftInv'
    BY <2>1 DEF DraftInv
  <2> QED  BY <1>1, <2>1, <2>2, PackagerStep, UploaderRests DEF SupplyInv
<1>4. CASE UploaderScript
  <2>1. /\ Uploader!UploaderNext /\ UNCHANGED <<repoOf, mapping, packaging, folder>>
        /\ script' = script \/ (script \in {"none", "upload"} /\ script' \in {"none", "upload"})
    BY <1>1, <1>4, UploaderAlone DEF UploaderScript
  <2>2. DraftInv' /\ PackagerInv'
    BY <1>1, <2>1, OthersRest
  <2> QED  BY <1>1, <2>1, <2>2, UploaderStep DEF SupplyInv
<1>5. CASE UNCHANGED vars
  <2>1. UNCHANGED <<repoOf, mapping, packaging, folder, uploading>> /\ script' = script
    BY <1>5 DEF vars
  <2>2. DraftInv' /\ PackagerInv'
    BY <1>1, <2>1, OthersRest
  <2>3. UploaderInv' /\ [Uploader!Contract!Next]_Barred
    <3>1. UNCHANGED <<script, folder, s3, step, todo, cur, left, page, was, torn, lost, source, removed>>
      BY <2>1 DEF uploading
    <3>2. UploaderTypes' /\ Pending' /\ Compared' /\ Held' /\ Sent' /\ Copies'
      BY <1>1, <3>1 DEF UploaderInv, UploaderTypes, Uploader!UploaderTypeOK, Pending, Compared, Held,
         Sent, Copies, Uploading, There, Mine
    <3>3. \A k \in Uploader!Keys : Uploader!Seen(k)' = Uploader!Seen(k)
      BY <3>1 DEF Uploader!Seen
    <3>4. Rounds'
      BY <1>1, <3>1 DEF UploaderInv, Rounds, UpToDate, Uploader!Seen
    <3> QED  BY <3>2, <3>3, <3>4, ContractStutters DEF UploaderInv
  <2> QED  BY <2>2, <2>3 DEF SupplyInv
<1> QED  BY <1>2, <1>3, <1>4, <1>5 DEF Next

\* The invariants of the three scripts hold together.
THEOREM SupplyInvariant == Spec => []SupplyInv
<1>1. Init => SupplyInv
  BY SupplyStarts
<1>2. SupplyInv /\ [Next]_vars => SupplyInv'
  BY SupplyStep
<1> QED  BY <1>1, <1>2, PTL DEF Spec

\* The state is what the variables say it is, whatever the scripts do and in whatever
\* order they are run.
THEOREM SupplyTypeCorrect == Spec => []TypeOK
<1>1. SupplyInv => TypeOK
  <2> SUFFICES ASSUME SupplyInv PROVE TypeOK
    OBVIOUS
  <2>1. \A i \in DOMAIN agenda : agenda[i].name \in Name
    BY ItemTypes DEF SupplyInv, PackagerInv, PackagerTypes
  <2>2. Packager!PackagerTypeOK
    BY <2>1 DEF SupplyInv, PackagerInv, PackagerTypes, FolderType, Packager!PackagerTypeOK
  <2> QED  BY <2>2 DEF SupplyInv, UploaderInv, UploaderTypes, TypeOK
<1> QED  BY <1>1, SupplyInvariant, PTL

\* Whatever the scripts do and in whatever order they are run: a fork is taken for the
\* original only if a call about the original failed.
THEOREM ForksOverridden == Spec => OfficialWins
<1> DEFINE Won == repoOf' # repoOf =>
                    \A i \in DOMAIN Owners : RepoMap!WonIn(repoOf', i, Len(Owners))
<1>1. ASSUME SupplyInv, [Next]_vars
      PROVE  Won
  <2>1. CASE MapScript
    BY <1>1, <2>1, MapStep, SupplyAssumption DEF MapScript, SupplyInv
  <2>2. CASE PackagerScript
    BY <1>1, <2>2, PackagerAlone DEF PackagerScript, SupplyInv
  <2>3. CASE UploaderScript
    BY <2>3 DEF UploaderScript
  <2>4. CASE UNCHANGED vars
    BY <2>4 DEF vars
  <2> QED  BY <1>1, <2>1, <2>2, <2>3, <2>4 DEF Next
<1>2. SupplyInv /\ [Next]_vars => [Won]_(RepoMap!mapVars)
  BY <1>1
<1> QED  BY <1>2, SupplyInvariant, PTL DEF Spec, OfficialWins, RepoMap!OfficialWins

\* When packaging has come to its end, whatever failed, and whatever cycles there are:
\* every dependency of what was built is built or was noted as failed.
THEOREM NoDependencyForgotten == Spec => DependenciesSettled
<1> DEFINE End == script = "package" /\ agenda = <<>> /\ script' = "none" =>
                    \A v \in available : \A d \in Packager!DependenciesOf(v[1], v[2]) :
                      \/ d \in unresolved
                      \/ \E w \in available \cup failed : w[1] = d[1] /\ w[2].line = d[2]
<1>1. SupplyInv => [End]_(Packager!packagerVars)
  BY EndSettled DEF SupplyInv, Settled
<1> QED  BY <1>1, SupplyInvariant, PTL DEF DependenciesSettled, Packager!DependenciesSettled

\* A version that counts as built has its folder, whole, or a newer one has taken it.
THEOREM BuiltIsWhole == Spec => []AvailableIsWhole
<1>1. SupplyInv => AvailableIsWhole
  BY DEF SupplyInv, PackagerInv
<1> QED  BY <1>1, SupplyInvariant, PTL

\* Of a library no version that is not below the Hub's is built but as a dependency of what
\* is built, and in the Hub's own line not above the Hub's version, as long as the calls
\* about it are answered, that version has a tag, and none is forced.
THEOREM NoneAboveHub == Spec => []HeldBack
<1>1. SupplyInv => HeldBack
  <2> SUFFICES ASSUME SupplyInv, NEW v \in available,
                      v[1] \notin blind, ~Packager!BelowHub(v[2], Hub[v[1]])
               PROVE  /\ Wanted(v[1], v[2].line)
                      /\ v[2].line = Hub[v[1]].line /\ v[2].patch > Hub[v[1]].patch =>
                           \/ Pinned[v[1], v[2].line] # 0
                           \/ ~\E u \in Tags[repoOf[v[1]]] :
                                 u.line = Hub[v[1]].line /\ u.patch = Hub[v[1]].patch
    BY Zenon DEF HeldBack, Packager!HeldBack, Wanted
  <2>1. NotAbove(v[1], v[2])
    BY DEF SupplyInv, PackagerInv, AgendaRight
  <2>2. Hub[v[1]] # NoVersion
    BY DEF Packager!BelowHub
  <2> QED  BY <2>1, <2>2, Zenon DEF NotAbove, Within
<1> QED  BY <1>1, SupplyInvariant, PTL

\* A folder in S3 is never a mixture: it is a copy of one local folder, but for what the
\* job has deleted of it, even while it was being copied, unless its upload was broken off.
THEOREM CopiesFaithful == Spec => []FaithfulCopy
<1>1. SupplyInv => FaithfulCopy
  BY DEF SupplyInv, UploaderInv, Copies, There, FaithfulCopy, Uploader!FaithfulCopy
<1> QED  BY <1>1, SupplyInvariant, PTL

\* A round that comes to its end has uploaded every local folder, also where an earlier
\* upload was broken off, unless the script finds files without a library.json or the job
\* deletes from the folder meanwhile.
THEOREM RoundsComplete == Spec => RoundUploads
<1> DEFINE End == step = "next" /\ todo = {} /\ script' = "none" =>
                    \A f \in Uploader!Folders : folder[f].files # {} =>
                      LET k == Uploader!KeyOf(f) IN
                      \/ k \in removed \/ (Uploader!Here(k) # {} /\ s3[k][Uploader!Json] = 0)
                      \/ s3[k][Uploader!Json] >= folder[f].patch
<1>1. SupplyInv => End
  <2> SUFFICES ASSUME SupplyInv, step = "next", todo = {},
                      NEW f \in Uploader!Folders, folder[f].files # {},
                      NEW k \in Uploader!Keys, k = Uploader!KeyOf(f), k \notin removed
               PROVE  \/ Uploader!Here(k) # {} /\ s3[k][Uploader!Json] = 0
                      \/ s3[k][Uploader!Json] >= folder[f].patch
    BY UploaderFacts
  <2>1. cur = NoKey /\ f # cur /\ s3[k] \in [File -> 0..MaxPatch]
    BY UploaderFacts DEF SupplyInv, UploaderInv, UploaderTypes, Uploader!UploaderTypeOK
  <2>2. UpToDate(f, s3[k])
    BY <2>1 DEF SupplyInv, UploaderInv, Rounds, Uploader!Seen
  <2>3. Uploader!Here(k) # {}
    BY <2>1, <2>2, UploaderFacts DEF UpToDate, Uploader!Here
  <2> QED  BY <2>2, <2>3 DEF UpToDate
<1>2. SupplyInv => [End]_(Uploader!uploaderVars)
  BY <1>1
<1> QED  BY <1>2, SupplyInvariant, PTL DEF RoundUploads, Uploader!RoundUploads

\* Uploads, finished or interrupted anywhere, do no more than the contract allows, from
\* which the library management job takes its uploads.
THEOREM UploadsKeepContract == Spec => UploadsAsExpected
<1>1. Init => Uploader!Contract!Init
  BY SupplyStarts
<1>2. SupplyInv /\ [Next]_vars => [Uploader!Contract!Next]_Barred
  BY SupplyStep
<1>3. SupplyInv /\ [Next]_vars => [Uploader!Contract!Next]_<<
         [k \in Uploader!Keys |-> {x \in File \ {Uploader!Json} : Uploader!Seen(k)[x] # 0}],
         [k \in Uploader!Keys |-> Uploader!Seen(k)[Uploader!Json]]>>
  BY <1>2 DEF Barred, AssetsOf
<1> QED  BY <1>1, <1>3, SupplyInvariant, PTL
         DEF Spec, UploadsAsExpected, Uploader!UploadsAsExpected, Uploader!Contract!Spec
(***************************************************************************)
(* Every script ends: each of its steps takes away something of which      *)
(* there is only a finite amount.  That nothing can be taken away without  *)
(* end is what it means for an order to be well founded.                   *)
(***************************************************************************)
\* Numbers by size; triples by their first component, then the second, then the third.
\* Finite sets are ordered by inclusion (StrictSubsetOrdering).
Below == {ss \in Nat \X Nat : ss[1] < ss[2]}

Lex3(R1, S1, R2, S2, R3, S3) ==
  LexPairOrdering(R1, LexPairOrdering(R2, R3, S2, S3), S1, S2 \X S3)

LEMMA BelowWellFounded == IsWellFoundedOn(Below, Nat)
<1>1. OpToRel(<, Nat) = Below
  BY DEF OpToRel, Below
<1> QED  BY <1>1, NatLessThanWellFounded

LEMMA Lex3WellFounded ==
  ASSUME NEW R1, NEW S1, NEW R2, NEW S2, NEW R3, NEW S3,
         IsWellFoundedOn(R1, S1), IsWellFoundedOn(R2, S2), IsWellFoundedOn(R3, S3)
  PROVE  IsWellFoundedOn(Lex3(R1, S1, R2, S2, R3, S3), S1 \X (S2 \X S3))
BY WFLexPairOrdering, Zenon DEF Lex3

LEMMA Lex3Pairs ==
  ASSUME NEW R1, NEW S1, NEW R2, NEW S2, NEW R3, NEW S3,
         NEW a \in S1, NEW b \in S2, NEW c \in S3,
         NEW x \in S1, NEW y \in S2, NEW z \in S3,
         \/ <<x, a>> \in R1
         \/ x = a /\ <<y, b>> \in R2
         \/ x = a /\ y = b /\ <<z, c>> \in R3
  PROVE  <<<<x, <<y, z>>>>, <<a, <<b, c>>>>>> \in Lex3(R1, S1, R2, S2, R3, S3)
<1>1. <<a, <<b, c>>>> \in S1 \X (S2 \X S3) /\ <<x, <<y, z>>>> \in S1 \X (S2 \X S3)
  OBVIOUS
<1>2. x # a \/ <<x, a>> \in R1 \/ <<<<y, z>>, <<b, c>>>> \in LexPairOrdering(R2, R3, S2, S3)
  BY DEF LexPairOrdering
<1> QED  BY <1>1, <1>2 DEF Lex3, LexPairOrdering

\* A set that has lost something, and still is finite.
LEMMA FewerOf ==
  ASSUME NEW S, NEW A \in FiniteSubsetsOf(S), NEW B, B \subseteq A
  PROVE  /\ B \in FiniteSubsetsOf(S)
         /\ B # A => <<B, A>> \in StrictSubsetOrdering(S)
<1>1. IsFiniteSet(B)
  BY FS_Subset DEF FiniteSubsetsOf
<1> QED  BY <1>1 DEF FiniteSubsetsOf, StrictSubsetOrdering

(***************************************************************************)
(* The packager.  A version is built or tried once; between two of them,   *)
(* libraries and dependencies are looked up, each of which puts nothing    *)
(* but versions in its place; and between two of those, versions are       *)
(* passed over.  The positions of look-ups are counted from the end of the *)
(* agenda, where pushing in front of them does not move them.              *)
(***************************************************************************)
Untried == (Name \X Packager!Tag) \ (available \cup failed)
LookUps(q) == {Len(q) - i : i \in {j \in DOMAIN q : q[j].kind # "version"}}

PackagingWork == <<Untried, <<LookUps(agenda), Len(agenda)>>>>

PackagingMeasures == FiniteSubsetsOf(Name \X Packager!Tag) \X (FiniteSubsetsOf(Nat) \X Nat)
PackagingOrder ==
  Lex3(StrictSubsetOrdering(Name \X Packager!Tag), FiniteSubsetsOf(Name \X Packager!Tag),
       StrictSubsetOrdering(Nat), FiniteSubsetsOf(Nat), Below, Nat)

LEMMA PackagingOrderWellFounded == IsWellFoundedOn(PackagingOrder, PackagingMeasures)
BY Lex3WellFounded, BelowWellFounded, FS_StrictSubsetOrderingWellFounded
   DEF PackagingOrder, PackagingMeasures

\* The two forms a tag or a folder's name has.
LEMMA FiniteForms == IsFiniteSet({"plain", "v"})
<1>1. IsFiniteSet({} \cup {"plain"})
  BY FS_EmptySet, FS_AddElement
<1>2. IsFiniteSet(({} \cup {"plain"}) \cup {"v"})
  BY <1>1, FS_AddElement
<1>3. ({} \cup {"plain"}) \cup {"v"} = {"plain", "v"}
  OBVIOUS
<1> QED  BY <1>2, <1>3

\* Names and tags, if there are finitely many names and lines.
LEMMA FiniteTags ==
  ASSUME IsFiniteSet(Name), IsFiniteSet(Line)
  PROVE  IsFiniteSet(Name \X Packager!Tag)
<1> DEFINE Triples == {"plain", "v"} \X (Line \X Packager!Patch)
           tag == [x \in Triples |-> [form |-> x[1], line |-> x[2][1], patch |-> x[2][2]]]
<1>1. IsFiniteSet(Packager!Patch)
  BY FS_Interval, Constants DEF Packager!Patch
<1>2. IsFiniteSet(Triples)
  BY <1>1, FiniteForms, FS_Product
<1>3. tag \in Surjection(Triples, Packager!Tag)
  <2>1. tag \in [Triples -> Packager!Tag]
    BY DEF Packager!Tag
  <2>2. ASSUME NEW t \in Packager!Tag
        PROVE  \E x \in Triples : tag[x] = t
    <3> DEFINE x == <<t.form, <<t.line, t.patch>>>>
    <3>1. x \in Triples /\ tag[x] = t
      BY DEF Packager!Tag
    <3> QED  BY <3>1
  <2> QED  BY <2>1, <2>2 DEF Surjection
<1>4. IsFiniteSet(Packager!Tag)
  BY <1>2, <1>3, FS_Surjection
<1> QED  BY <1>4, FS_Product

LEMMA LookUpTypes ==
  ASSUME NEW q \in Seq(Items)
  PROVE  LookUps(q) \in FiniteSubsetsOf(Nat) /\ Len(q) \in Nat
<1>1. /\ Len(q) \in Nat /\ DOMAIN q = 1..Len(q)
      /\ LookUps(q) \in SUBSET Nat /\ \A s \in LookUps(q) : s <= Len(q)
  BY DEF LookUps
<1>2. IsFiniteSet(LookUps(q))
  BY <1>1, FS_BoundedSetOfNaturals
<1> QED  BY <1>1, <1>2 DEF FiniteSubsetsOf

\* The head of the agenda gives way to versions.
LEMMA LookedUp ==
  ASSUME NEW T, NEW q \in Seq(T), q # <<>>, NEW s \in Seq(T),
         \A i \in DOMAIN s : s[i].kind = "version"
  PROVE  /\ LookUps(s \o Tail(q)) \subseteq LookUps(q)
         /\ Head(q).kind # "version" => LookUps(s \o Tail(q)) # LookUps(q)
         /\ Head(q).kind = "version" => LookUps(s \o Tail(q)) = LookUps(q)
<1> DEFINE r == s \o Tail(q)
           m == Len(s)
           n == Len(q)
<1>1. /\ m \in Nat /\ n \in Nat \ {0}
      /\ DOMAIN q = 1..n /\ DOMAIN s = 1..m /\ DOMAIN r = 1..(m + n - 1) /\ Len(r) = m + n - 1
      /\ Head(q) = q[1]
  OBVIOUS
<1>2. /\ \A i \in 1..m : r[i] = s[i]
      /\ \A i \in 1..(n - 1) : r[m + i] = q[i + 1]
  OBVIOUS
<1> HIDE DEF r, m, n
<1>3. ASSUME NEW i \in 1..(m + n - 1), r[i].kind # "version"
      PROVE  i - m + 1 \in 2..n /\ q[i - m + 1].kind # "version"
             /\ (m + n - 1) - i = n - (i - m + 1)
  <2>1. i \notin 1..m
    BY <1>1, <1>2, <1>3
  <2>2. i - m \in 1..(n - 1) /\ i = m + (i - m)
    BY <1>1, <2>1
  <2>3. r[m + (i - m)] = q[(i - m) + 1]
    BY <1>2, <2>2
  <2> QED  BY <1>1, <1>3, <2>2, <2>3
<1>4. ASSUME NEW i \in 2..n, q[i].kind # "version"
      PROVE  m + i - 1 \in 1..(m + n - 1) /\ r[m + i - 1].kind # "version"
             /\ (m + n - 1) - (m + i - 1) = n - i
  <2>1. i - 1 \in 1..(n - 1) /\ m + (i - 1) = m + i - 1 /\ (i - 1) + 1 = i
    BY <1>1
  <2>2. r[m + (i - 1)] = q[(i - 1) + 1]
    BY <1>2, <2>1
  <2> QED  BY <1>1, <1>4, <2>1, <2>2
<1>5. LookUps(q) = {n - i : i \in {j \in 1..n : q[j].kind # "version"}}
  BY <1>1 DEF LookUps, n
<1>6. LookUps(r) = {(m + n - 1) - i : i \in {j \in 1..(m + n - 1) : r[j].kind # "version"}}
  BY <1>1 DEF LookUps
<1>7. LookUps(r) = {n - i : i \in {j \in 2..n : q[j].kind # "version"}}
  <2>1. ASSUME NEW x \in LookUps(r)
        PROVE  x \in {n - i : i \in {j \in 2..n : q[j].kind # "version"}}
    <3>1. PICK i \in 1..(m + n - 1) : r[i].kind # "version" /\ x = (m + n - 1) - i
      BY <1>6
    <3>2. i - m + 1 \in 2..n /\ q[i - m + 1].kind # "version" /\ x = n - (i - m + 1)
      BY <1>3, <3>1
    <3> QED  BY <3>2
  <2>2. ASSUME NEW i \in 2..n, q[i].kind # "version"
        PROVE  n - i \in LookUps(r)
    BY <1>4, <1>6, <2>2
  <2> QED  BY <2>1, <2>2
<1>8. LookUps(r) \subseteq LookUps(q)
  BY <1>1, <1>5, <1>7
<1>9. CASE q[1].kind # "version"
  <2>1. n - 1 \in LookUps(q)
    BY <1>1, <1>5, <1>9
  <2>2. n - 1 \notin LookUps(r)
    BY <1>1, <1>7
  <2> QED  BY <1>1, <1>8, <1>9, <2>1, <2>2 DEF r
<1>10. CASE q[1].kind = "version"
  <2>1. \A j \in 1..n : q[j].kind # "version" => j \in 2..n
    BY <1>1, <1>10
  <2>2. LookUps(q) \subseteq LookUps(r)
    BY <1>5, <1>7, <2>1
  <2> QED  BY <1>1, <1>8, <1>10, <2>2 DEF r
<1> QED  BY <1>9, <1>10

LEMMA PackagingTypes ==
  ASSUME PackagerTypes, IsFiniteSet(Name), IsFiniteSet(Line)
  PROVE  /\ Untried \in FiniteSubsetsOf(Name \X Packager!Tag)
         /\ LookUps(agenda) \in FiniteSubsetsOf(Nat) /\ Len(agenda) \in Nat
         /\ PackagingWork \in PackagingMeasures
<1>1. Untried \in SUBSET (Name \X Packager!Tag)
  BY DEF Untried
<1>2. IsFiniteSet(Untried)
  BY <1>1, FiniteTags, FS_Subset
<1>3. LookUps(agenda) \in FiniteSubsetsOf(Nat) /\ Len(agenda) \in Nat
  BY LookUpTypes DEF PackagerTypes
<1> QED  BY <1>1, <1>2, <1>3 DEF FiniteSubsetsOf, PackagingWork, PackagingMeasures

\* A library gives way to versions of it, and a dependency to one version or none.
LEMMA VersionsPut ==
  ASSUME PackagerInv, Packager!BuildLibrary \/ Packager!BuildDependency
  PROVE  \E T, s : /\ Items \subseteq T /\ s \in Seq(T)
                   /\ \A i \in DOMAIN s : s[i].kind = "version"
                   /\ agenda' = s \o Tail(agenda)
<1>h. PICK h : h = Head(agenda)
  OBVIOUS
<1>n. PICK n : n = h.name
  OBVIOUS
<1>r. PICK r : r = repoOf[n]
  OBVIOUS
<1>1. /\ agenda # <<>> /\ agenda \in Seq(Items) /\ h \in Items /\ n \in Name /\ r \in Repo \cup {NoRepo}
      /\ Tail(agenda) \in Seq(Items)
  <2>1. agenda # <<>>
    BY DEF Packager!BuildLibrary, Packager!BuildDependency
  <2>2. agenda \in Seq(Items) /\ repoOf \in [Name -> Repo \cup {NoRepo}]
    BY DEF PackagerInv, PackagerTypes
  <2> QED  BY <1>h, <1>n, <1>r, <2>1, <2>2, ItemTypes
<1>2. CASE agenda' = Tail(agenda)
  <2> DEFINE s == <<>>
  <2>1. Items \subseteq Items /\ s \in Seq(Items) /\ \A i \in DOMAIN s : s[i].kind = "version"
    OBVIOUS
  <2>2. agenda' = s \o Tail(agenda)
    BY <1>1, <1>2
  <2> HIDE DEF s
  <2> QED  BY <2>1, <2>2
<1>3. ASSUME NEW v, v.kind = "version", agenda' = <<v>> \o Tail(agenda)
      PROVE  \E T, s : /\ Items \subseteq T /\ s \in Seq(T)
                       /\ \A i \in DOMAIN s : s[i].kind = "version"
                       /\ agenda' = s \o Tail(agenda)
  <2> DEFINE s == <<v>>
  <2>1. s \in Seq(Items \cup {v}) /\ \A i \in DOMAIN s : s[i].kind = "version"
    BY <1>3
  <2>2. Items \subseteq Items \cup {v} /\ agenda' = s \o Tail(agenda)
    BY <1>3
  <2> HIDE DEF s
  <2> QED  BY <2>1, <2>2
<1>4. ASSUME r # NoRepo, NEW bad, NEW tags \in Packager!HighestPatchTags(Packager!TagsSeen(r, bad)),
             NEW order \in Packager!SetToSeqs({t \in tags : Packager!BelowHub(t, Packager!HubSeen(n, bad))}),
             agenda' = [i \in DOMAIN order |-> Packager!VersionItem(n, order[i], r)] \o Tail(agenda)
      PROVE  \E T, s : /\ Items \subseteq T /\ s \in Seq(T)
                       /\ \A i \in DOMAIN s : s[i].kind = "version"
                       /\ agenda' = s \o Tail(agenda)
  <2> DEFINE taken == {t \in tags : Packager!BelowHub(t, Packager!HubSeen(n, bad))}
             s == [i \in DOMAIN order |-> Packager!VersionItem(n, order[i], r)]
  <2>1. r \in Repo /\ Packager!IsFiniteSet(Tags[r])
    BY <1>1, <1>4, Constants DEF Packager!PackagerConstants
  <2>2. tags \subseteq Tags[r]
    BY <1>4 DEF Packager!HighestPatchTags, Packager!TagsSeen
  <2>3. Packager!IsFiniteSet(taken)
    BY <2>1, <2>2, FiniteParts
  <2>4. order \in Seq(taken)
    BY <2>3, <1>4, Enumerates
  <2>5. DOMAIN order = 1..Len(order) /\ Len(order) \in Nat
    BY <2>4
  <2>6. s \in Seq(Items \cup {s[i] : i \in DOMAIN order})
    BY <2>5
  <2>7. \A i \in DOMAIN s : s[i].kind = "version"
    BY DEF Packager!VersionItem
  <2>8. agenda' = s \o Tail(agenda)
    BY <1>4
  <2> HIDE DEF s
  <2> QED  BY <2>6, <2>7, <2>8
<1>5. CASE Packager!BuildLibrary
  <2>1. \/ agenda' = Tail(agenda)
        \/ r # NoRepo /\ \E bad \in SUBSET {"tags", "hub"} :
             \E tags \in Packager!HighestPatchTags(Packager!TagsSeen(r, bad)) :
             \E order \in Packager!SetToSeqs({t \in tags : Packager!BelowHub(t, Packager!HubSeen(n, bad))}) :
               agenda' = [i \in DOMAIN order |-> Packager!VersionItem(n, order[i], r)] \o Tail(agenda)
    BY <1>5, <1>h, <1>n, <1>r, Zenon DEF Packager!BuildLibrary
  <2> QED  BY <1>2, <1>4, <2>1
<1>6. CASE Packager!BuildDependency
  <2>1. \/ agenda' = Tail(agenda)
        \/ \E t : agenda' = <<Packager!VersionItem(n, t, r)>> \o Tail(agenda)
    BY <1>6, <1>h, <1>n, <1>r, Zenon DEF Packager!BuildDependency
  <2>2. \A t : Packager!VersionItem(n, t, r).kind = "version"
    BY DEF Packager!VersionItem
  <2> QED  BY <1>2, <1>3, <2>1, <2>2
<1> QED  BY <1>5, <1>6

\* Every step of the packager ends it or leaves it less to do.
LEMMA PackagerAdvances ==
  ASSUME PackagerInv, PackagerInv', Packager!PackagerNext, script = "package",
         IsFiniteSet(Name), IsFiniteSet(Line)
  PROVE  script' = "none" \/ <<PackagingWork', PackagingWork>> \in PackagingOrder
<1>0. /\ PackagerTypes /\ PackagerTypes'
      /\ Untried \in FiniteSubsetsOf(Name \X Packager!Tag)
      /\ Untried' \in FiniteSubsetsOf(Name \X Packager!Tag)
      /\ LookUps(agenda) \in FiniteSubsetsOf(Nat) /\ Len(agenda) \in Nat
      /\ LookUps(agenda)' \in FiniteSubsetsOf(Nat) /\ Len(agenda') \in Nat
  <2>1. PackagerTypes /\ PackagerTypes'
    BY DEF PackagerInv
  <2>2. agenda' \in Seq(Items)
    BY <2>1 DEF PackagerTypes
  <2>3. LookUps(agenda') \in FiniteSubsetsOf(Nat) /\ Len(agenda') \in Nat
    BY <2>2, LookUpTypes
  <2>4. LookUps(agenda)' = LookUps(agenda')
    BY DEF LookUps
  <2>5. Untried' \subseteq Name \X Packager!Tag
    BY DEF Untried
  <2>6. Untried' \in FiniteSubsetsOf(Name \X Packager!Tag)
    BY <2>5, FiniteTags, FS_Subset DEF FiniteSubsetsOf
  <2> QED  BY <2>1, <2>3, <2>4, <2>6, PackagingTypes
<1>s. PackagingWork' = <<Untried', <<LookUps(agenda)', Len(agenda')>>>>
  BY DEF PackagingWork
<1>1. SUFFICES ASSUME script' # "none"
               PROVE  \/ <<Untried', Untried>> \in StrictSubsetOrdering(Name \X Packager!Tag)
                      \/ /\ Untried' = Untried
                         /\ <<LookUps(agenda)', LookUps(agenda)>> \in StrictSubsetOrdering(Nat)
                      \/ /\ Untried' = Untried /\ LookUps(agenda)' = LookUps(agenda)
                         /\ <<Len(agenda'), Len(agenda)>> \in Below
  BY <1>0, <1>s, Lex3Pairs DEF PackagingOrder, PackagingWork
<1>2. ASSUME agenda # <<>>, NEW T, Items \subseteq T, NEW s \in Seq(T),
             \A i \in DOMAIN s : s[i].kind = "version",
             agenda' = s \o Tail(agenda), Head(agenda).kind # "version", UNCHANGED <<available, failed>>
      PROVE  /\ Untried' = Untried
             /\ <<LookUps(agenda)', LookUps(agenda)>> \in StrictSubsetOrdering(Nat)
  <2>1. agenda \in Seq(T)
    BY <1>0, <1>2 DEF PackagerTypes
  <2>2. LookUps(agenda') \subseteq LookUps(agenda) /\ LookUps(agenda') # LookUps(agenda)
    BY <1>2, <2>1, LookedUp
  <2>3. LookUps(agenda)' = LookUps(agenda')
    BY DEF LookUps
  <2> QED  BY <1>0, <1>2, <2>2, <2>3, FewerOf DEF Untried
<1>3. CASE Packager!BuildLibrary
  BY <1>2, <1>3, VersionsPut DEF Packager!BuildLibrary
<1>4. CASE Packager!BuildDependency
  BY <1>2, <1>4, VersionsPut DEF Packager!BuildDependency
<1>5. CASE Packager!SkipVersion
  <2>1. /\ agenda # <<>> /\ Head(agenda).kind = "version" /\ agenda' = Tail(agenda)
        /\ UNCHANGED <<available, failed>>
    BY <1>5 DEF Packager!SkipVersion
  <2>2. agenda \in Seq(Items)
    BY <1>0 DEF PackagerTypes
  <2>3. Len(agenda') < Len(agenda)
    BY <2>1, <2>2
  <2>4. LookUps(agenda') = LookUps(agenda)
    <3> DEFINE s == <<>>
    <3>1. s \in Seq(Items) /\ \A i \in DOMAIN s : s[i].kind = "version"
      OBVIOUS
    <3>2. agenda' = s \o Tail(agenda)
      BY <2>1, <2>2
    <3> HIDE DEF s
    <3> QED  BY <2>1, <2>2, <3>1, <3>2, LookedUp
  <2> QED  BY <1>0, <2>1, <2>3, <2>4 DEF Below, Untried, LookUps
<1>h. PICK v : v = <<Head(agenda).name, Head(agenda).tag>>
  OBVIOUS
<1>6. ASSUME Packager!Building, v \in available' \cup failed',
             available \subseteq available', failed \subseteq failed'
      PROVE  <<Untried', Untried>> \in StrictSubsetOrdering(Name \X Packager!Tag)
  <2>1. /\ agenda # <<>> /\ Head(agenda).kind = "version"
        /\ ~Packager!IsAvailable(Head(agenda).name, Head(agenda).tag) /\ v \notin failed
    BY <1>6, <1>h DEF Packager!Building, Packager!IsAlreadyFailed
  <2>2. Head(agenda) \in Items
    BY <1>0, <2>1 DEF PackagerTypes
  <2>3. v \in Name \X Packager!Tag
    BY <1>h, <2>1, <2>2, ItemTypes
  <2>4. v \notin available
    <3>1. Head(agenda).tag.patch >= Head(agenda).tag.patch
      <4>1. Head(agenda).tag.patch \in 1..MaxPatch /\ MaxPatch \in Nat
        BY <2>1, <2>2, ItemTypes, Constants
      <4> QED  BY <4>1
    <3>2. v[1] = Head(agenda).name /\ v[2] = Head(agenda).tag
      BY <1>h
    <3> QED  BY <2>1, <3>1, <3>2 DEF Packager!IsAvailable
  <2>5. v \in Untried /\ v \notin Untried' /\ Untried' \subseteq Untried
    BY <1>6, <2>1, <2>3, <2>4 DEF Untried
  <2> QED  BY <1>0, <2>5, FewerOf
<1>7. CASE Packager!BuildVersion
  <2>1. /\ Packager!Building /\ v \in available' \cup failed'
        /\ available \subseteq available' /\ failed \subseteq failed'
    BY <1>7, <1>h DEF Packager!BuildVersion
  <2> QED  BY <1>6, <2>1
<1>8. CASE Packager!DownloadFails
  <2>1. /\ Packager!Building /\ v \in available' \cup failed'
        /\ available \subseteq available' /\ failed \subseteq failed'
    BY <1>8, <1>h DEF Packager!DownloadFails
  <2> QED  BY <1>6, <2>1
<1>9. ~Packager!StartPackaging /\ ~Packager!SemanticsRefused /\ ~Packager!PackagingDone
      /\ ~Packager!PackagingCrash
  BY <1>1 DEF Packager!StartPackaging, Packager!SemanticsRefused, Packager!PackagingDone,
     Packager!PackagingCrash, Packager!Exit
<1> QED  BY <1>3, <1>4, <1>5, <1>7, <1>8, <1>9 DEF Packager!PackagerNext, Packager!PackagingStep

\* Packaging ends, whatever versions need each other: as long as the script runs, each
\* step of it leaves less to do, in an order in which nothing decreases for ever.  The
\* only other steps there are meanwhile are removals by the job, which do not touch it.
THEOREM PackagingEnds ==
  ASSUME IsFiniteSet(Name), IsFiniteSet(Line)
  PROVE  /\ IsWellFoundedOn(PackagingOrder, PackagingMeasures)
         /\ Spec => [](PackagingWork \in PackagingMeasures)
         /\ Spec => [][script = "package" =>
                         \/ script' = "none"
                         \/ <<PackagingWork', PackagingWork>> \in PackagingOrder
                         \/ Uploader!JobRemoves /\ UNCHANGED <<script, PackagingWork>>]_vars
<1>1. SupplyInv => PackagingWork \in PackagingMeasures
  BY PackagingTypes DEF SupplyInv, PackagerInv
<1> DEFINE Advances == script = "package" =>
                         \/ script' = "none"
                         \/ <<PackagingWork', PackagingWork>> \in PackagingOrder
                         \/ Uploader!JobRemoves /\ UNCHANGED <<script, PackagingWork>>
<1>2. ASSUME SupplyInv, SupplyInv', Next, script = "package"
      PROVE  Advances
  <2>1. CASE MapScript
    BY <1>2, <2>1, MapAlone DEF MapScript
  <2>2. CASE PackagerScript
    BY <1>2, <2>2, PackagerAdvances DEF PackagerScript, SupplyInv
  <2>3. CASE UploaderScript
    <3>1. Uploader!UploaderNext /\ UNCHANGED packaging
      BY <2>3 DEF UploaderScript
    <3>2. step = "none"
      BY <1>2 DEF SupplyInv, UploaderInv, UploaderTypes, Uploader!UploaderTypeOK
    <3>3. Uploader!JobRemoves
      BY <1>2, <3>1, <3>2
         DEF Uploader!UploaderNext, Uploader!UploadStep, Uploader!StartUpload, Uploader!UploadFails,
             Uploader!CheckExists, Uploader!CompareVersions, Uploader!NoLocalJson, Uploader!DeletePage,
             Uploader!FolderCleared, Uploader!SendBatch, Uploader!FolderSent, Uploader!UploadDone
    <3>4. UNCHANGED <<script, PackagingWork>>
      BY <3>1, <3>3 DEF Uploader!JobRemoves, Uploader!JobLists, Uploader!JobDeletes, packaging, PackagingWork, Untried, LookUps
    <3> QED  BY <3>3, <3>4
  <2> QED  BY <1>2, <2>1, <2>2, <2>3 DEF Next
<1>3. SupplyInv /\ SupplyInv' /\ [Next]_vars => [Advances]_vars
  BY <1>2
<1>4. Spec => [](PackagingWork \in PackagingMeasures)
  BY <1>1, SupplyInvariant, PTL
<1>5. Spec => [][Advances]_vars
  BY <1>3, SupplyInvariant, PTL DEF Spec
<1> QED  BY <1>4, <1>5, PackagingOrderWellFounded

(***************************************************************************)
(* The uploader.  A folder is taken from todo once; the calls for it come  *)
(* in the order compare, clear, send; and clearing and sending take their  *)
(* files from what is there and what is left.                              *)
(***************************************************************************)
StepRank ==
  CASE step = "compare" -> 4 [] step = "clear" -> 3 [] step = "send" -> 2 [] step = "next" -> 1
    [] OTHER -> 0

\* The files the current call has to do with.
Ahead ==
  CASE step = "clear" -> Uploader!Here(Uploader!KeyOf(cur)) [] step = "send" -> left [] OTHER -> {}

UploadWork == <<todo, <<StepRank, Ahead>>>>

UploadMeasures == FiniteSubsetsOf(Uploader!Folders) \X (Nat \X FiniteSubsetsOf(File))
UploadOrder ==
  Lex3(StrictSubsetOrdering(Uploader!Folders), FiniteSubsetsOf(Uploader!Folders),
       Below, Nat, StrictSubsetOrdering(File), FiniteSubsetsOf(File))

LEMMA UploadOrderWellFounded == IsWellFoundedOn(UploadOrder, UploadMeasures)
BY Lex3WellFounded, BelowWellFounded, FS_StrictSubsetOrderingWellFounded
   DEF UploadOrder, UploadMeasures

LEMMA FiniteFolders ==
  ASSUME IsFiniteSet(Name), IsFiniteSet(Line)
  PROVE  IsFiniteSet(Uploader!Folders)
<1> DEFINE Triples == Name \X (Line \X {"plain", "v"})
           folderOf == [x \in Triples |-> <<x[1], x[2][1], x[2][2]>>]
<1>1. IsFiniteSet(Triples)
  BY FiniteForms, FS_Product
<1>2. folderOf \in [Triples -> Uploader!Folders]
  BY DEF Uploader!Folders
<1>3. ASSUME NEW f \in Uploader!Folders
      PROVE  \E x \in Triples : folderOf[x] = f
  <2> DEFINE x == <<f[1], <<f[2], f[3]>>>>
  <2>1. x \in Triples /\ folderOf[x] = f
    BY DEF Uploader!Folders
  <2> QED  BY <2>1
<1>4. folderOf \in Surjection(Triples, Uploader!Folders)
  BY <1>2, <1>3 DEF Surjection
<1> QED  BY <1>1, <1>4, FS_Surjection

LEMMA UploadTypes ==
  ASSUME UploaderTypes, IsFiniteSet(Name), IsFiniteSet(Line), IsFiniteSet(File)
  PROVE  /\ todo \in FiniteSubsetsOf(Uploader!Folders) /\ StepRank \in 0..4
         /\ Ahead \in FiniteSubsetsOf(File)
         /\ UploadWork \in UploadMeasures
<1>1. todo \subseteq Uploader!Folders /\ Ahead \subseteq File /\ StepRank \in 0..4
  BY DEF UploaderTypes, Uploader!UploaderTypeOK, Ahead, StepRank, Uploader!Here
<1>2. IsFiniteSet(Uploader!Folders)
  BY FiniteFolders
<1>3. IsFiniteSet(todo) /\ IsFiniteSet(Ahead)
  BY <1>1, <1>2, FS_Subset
<1> QED  BY <1>1, <1>3 DEF FiniteSubsetsOf, UploadWork, UploadMeasures

\* A step of the script, or a removal by the job, never leaves it more to do.
LEMMA UploaderAdvances ==
  ASSUME UploaderInv, UploaderInv', Uploader!UploaderNext, script = "upload", script' # "none",
         IsFiniteSet(Name), IsFiniteSet(Line), IsFiniteSet(File)
  PROVE  \/ <<UploadWork', UploadWork>> \in UploadOrder
         \/ Uploader!JobRemoves /\ UNCHANGED <<script, UploadWork>>
<1>0. /\ UploaderTypes /\ UploaderTypes'
      /\ todo \in FiniteSubsetsOf(Uploader!Folders) /\ StepRank \in 0..4
      /\ Ahead \in FiniteSubsetsOf(File)
  BY UploadTypes DEF UploaderInv
<1>s. UploadWork' = <<todo', <<StepRank', Ahead'>>>>
  BY DEF UploadWork
<1>t. StepRank' \in Nat /\ StepRank \in Nat
  BY <1>0 DEF StepRank
\* Three ways to have less to do.
<1>a. ASSUME todo' \subseteq todo, todo' # todo, Ahead' \subseteq File
      PROVE  <<UploadWork', UploadWork>> \in UploadOrder
  <2>1. todo' \in FiniteSubsetsOf(Uploader!Folders)
        /\ <<todo', todo>> \in StrictSubsetOrdering(Uploader!Folders)
    BY <1>0, <1>a, FewerOf
  <2>2. Ahead' \in FiniteSubsetsOf(File)
    BY <1>a, FS_Subset DEF FiniteSubsetsOf
  <2> QED  BY <1>0, <1>s, <1>t, <2>1, <2>2, Lex3Pairs DEF UploadOrder, UploadWork
<1>b. ASSUME todo' = todo, StepRank' < StepRank, Ahead' \subseteq File
      PROVE  <<UploadWork', UploadWork>> \in UploadOrder
  <2>1. <<StepRank', StepRank>> \in Below
    BY <1>t, <1>b DEF Below
  <2>2. Ahead' \in FiniteSubsetsOf(File)
    BY <1>b, FS_Subset DEF FiniteSubsetsOf
  <2> QED  BY <1>0, <1>s, <1>t, <1>b, <2>1, <2>2, Lex3Pairs DEF UploadOrder, UploadWork
<1>c. ASSUME todo' = todo, StepRank' = StepRank, Ahead' \subseteq Ahead, Ahead' # Ahead
      PROVE  <<UploadWork', UploadWork>> \in UploadOrder
  <2>1. Ahead' \in FiniteSubsetsOf(File) /\ <<Ahead', Ahead>> \in StrictSubsetOrdering(File)
    BY <1>0, <1>c, FewerOf
  <2> QED  BY <1>0, <1>s, <1>t, <1>c, <2>1, Lex3Pairs DEF UploadOrder, UploadWork
<1>f. Ahead' \subseteq File
  BY <1>0 DEF Ahead, Uploader!Here, UploaderTypes, Uploader!UploaderTypeOK
<1>1. CASE Uploader!CheckExists
  <2>1. \E f \in todo : todo' = todo \ {f}
    BY <1>1 DEF Uploader!CheckExists
  <2> QED  BY <2>1, <1>a, <1>f
<1>2. CASE Uploader!CompareVersions
  <2>1. todo' = todo /\ step = "compare" /\ step' \in {"clear", "next"}
    BY <1>2 DEF Uploader!CompareVersions, Uploader!FolderDone
  <2> QED  BY <2>1, <1>b, <1>f DEF StepRank
<1>3. CASE Uploader!DeletePage
  <2> DEFINE k == Uploader!KeyOf(cur)
  <2>1. PICK S \in (SUBSET Uploader!Here(k)) \ {{}} :
          s3' = [s3 EXCEPT ![k] = [x \in File |-> IF x \in S THEN 0 ELSE @[x]]]
    BY <1>3 DEF Uploader!DeletePage
  <2>2. step = "clear" /\ UNCHANGED <<step, todo, cur>> /\ k \in Uploader!Keys
        /\ s3 \in [Uploader!Keys -> [File -> 0..MaxPatch]]
    BY <1>0, <1>3, UploaderFacts DEF Uploader!DeletePage, UploaderTypes, Uploader!UploaderTypeOK
  <2>3. s3'[k] = [x \in File |-> IF x \in S THEN 0 ELSE s3[k][x]]
    BY <2>1, <2>2
  <2>4. Ahead = {x \in File : s3[k][x] # 0} /\ Ahead' = {x \in File : s3'[k][x] # 0}
    BY <2>2 DEF Ahead, Uploader!Here
  <2>5. S \subseteq Ahead /\ S # {} /\ Ahead' = Ahead \ S
    <3>1. S \subseteq Ahead /\ S # {}
      BY <2>1, <2>4 DEF Uploader!Here
    <3>2. \A x \in File : s3'[k][x] = IF x \in S THEN 0 ELSE s3[k][x]
      BY <2>3
    <3> QED  BY <2>4, <3>1, <3>2
  <2>6. Ahead' \subseteq Ahead /\ Ahead' # Ahead /\ StepRank' = StepRank
    BY <2>2, <2>5 DEF StepRank
  <2> QED  BY <2>2, <2>6, <1>c
<1>4. CASE Uploader!FolderCleared
  <2>1. todo' = todo /\ step = "clear" /\ step' = "send"
    BY <1>4 DEF Uploader!FolderCleared
  <2> QED  BY <2>1, <1>b, <1>f DEF StepRank
<1>5. CASE Uploader!SendBatch
  <2>1. PICK S \in Uploader!Batches : left' = left \ S
    BY <1>5 DEF Uploader!SendBatch
  <2>2. step = "send" /\ left # {} /\ UNCHANGED <<step, todo>>
    BY <1>5 DEF Uploader!SendBatch
  <2>3. S \subseteq left /\ S # {}
    <3>1. S \subseteq left /\ Cardinality(S) = IF Cardinality(left) < BatchSize
                                               THEN Cardinality(left) ELSE BatchSize
      BY <2>1 DEF Uploader!Batches, Uploader!Cardinality, Cardinality
    <3>2. IsFiniteSet(left)
      BY <1>0, FS_Subset DEF UploaderTypes, Uploader!UploaderTypeOK
    <3>3. Cardinality(left) # 0 /\ Cardinality({}) = 0
      BY <2>2, <3>2, FS_EmptySet
    <3>4. BatchSize # 0
      BY SupplyAssumption DEF Uploader!UploaderConstants
    <3> QED  BY <3>1, <3>3, <3>4
  <2>4. Ahead = left /\ Ahead' = left'
    BY <2>2 DEF Ahead
  <2> QED  BY <2>1, <2>2, <2>3, <2>4, <1>c DEF StepRank
<1>6. CASE Uploader!FolderSent
  <2>1. todo' = todo /\ step = "send" /\ step' = "next"
    BY <1>6 DEF Uploader!FolderSent, Uploader!FolderDone
  <2> QED  BY <2>1, <1>b, <1>f DEF StepRank
<1>7. CASE Uploader!JobLists
  BY <1>7, <1>s DEF Uploader!JobLists, Uploader!JobRemoves, UploadWork, StepRank, Ahead, Uploader!Here
<1>8. CASE Uploader!JobDeletes
  <2> DEFINE k == Uploader!KeyOf(cur)
  <2>j. PICK j : j = page.key
    OBVIOUS
  <2>P. PICK P : P = page.files
    OBVIOUS
  <2>1. /\ j \in Uploader!Keys
        /\ s3' = [s3 EXCEPT ![j] = [x \in File |-> IF x \in P THEN 0 ELSE s3[j][x]]]
    <3>1. j \in Uploader!Keys /\ s3 \in [Uploader!Keys -> [File -> 0..MaxPatch]]
      BY <1>0, <1>8, <2>j DEF Uploader!JobDeletes, UploaderTypes, Uploader!UploaderTypeOK
    <3> QED  BY <1>8, <2>j, <2>P, <3>1 DEF Uploader!JobDeletes
  <2>2. UNCHANGED <<script, step, todo, cur, left>>
    BY <1>8 DEF Uploader!JobDeletes
  <2>3. s3 \in [Uploader!Keys -> [File -> 0..MaxPatch]]
    BY <1>0 DEF UploaderTypes, Uploader!UploaderTypeOK
  <2>4. Ahead' \subseteq Ahead
    <3>1. CASE step = "clear"
      <4>1. k \in Uploader!Keys
        BY <1>0, <3>1, UploaderFacts DEF UploaderTypes, Uploader!UploaderTypeOK
      <4>2. Ahead = {x \in File : s3[k][x] # 0} /\ Ahead' = {x \in File : s3'[k][x] # 0}
        BY <2>2, <3>1 DEF Ahead, Uploader!Here
      <4>3. \A x \in File : s3'[k][x] = s3[k][x] \/ s3'[k][x] = 0
        BY <2>1, <2>3, <4>1
      <4> QED  BY <4>2, <4>3
    <3>2. CASE step # "clear"
      BY <2>2, <3>2 DEF Ahead
    <3> QED  BY <3>1, <3>2
  <2>5. StepRank' = StepRank
    BY <2>2 DEF StepRank
  <2>6. CASE Ahead' = Ahead
    BY <1>8, <1>s, <2>2, <2>5, <2>6 DEF UploadWork, Uploader!JobRemoves
  <2> QED  BY <2>2, <2>4, <2>5, <2>6, <1>c
<1>9. ~Uploader!StartUpload /\ ~Uploader!NoLocalJson /\ ~Uploader!UploadDone /\ ~Uploader!UploadFails
  BY DEF Uploader!StartUpload, Uploader!NoLocalJson, Uploader!UploadDone, Uploader!UploadFails,
         Uploader!GiveUp
<1> QED  BY <1>1, <1>2, <1>3, <1>4, <1>5, <1>6, <1>7, <1>8, <1>9
            DEF Uploader!UploaderNext, Uploader!UploadStep, Uploader!JobRemoves

\* An upload ends, however often the job takes folders from under it: each step of the
\* script ends it or leaves it less to do, and a removal by the job never leaves it more.
THEOREM UploadEnds ==
  ASSUME IsFiniteSet(Name), IsFiniteSet(Line), IsFiniteSet(File)
  PROVE  /\ IsWellFoundedOn(UploadOrder, UploadMeasures)
         /\ Spec => [](UploadWork \in UploadMeasures)
         /\ Spec => [][script = "upload" =>
                         \/ script' = "none"
                         \/ <<UploadWork', UploadWork>> \in UploadOrder
                         \/ Uploader!JobRemoves /\ UNCHANGED <<script, UploadWork>>]_vars
<1>1. SupplyInv => UploadWork \in UploadMeasures
  BY UploadTypes DEF SupplyInv, UploaderInv
<1> DEFINE Advances == script = "upload" =>
                         \/ script' = "none"
                         \/ <<UploadWork', UploadWork>> \in UploadOrder
                         \/ Uploader!JobRemoves /\ UNCHANGED <<script, UploadWork>>
<1>2. ASSUME SupplyInv, SupplyInv', Next, script = "upload"
      PROVE  Advances
  <2>1. CASE MapScript
    BY <1>2, <2>1, MapAlone DEF MapScript
  <2>2. CASE PackagerScript
    BY <1>2, <2>2, PackagerAlone DEF PackagerScript, SupplyInv
  <2>3. CASE UploaderScript
    BY <1>2, <2>3, UploaderAdvances DEF UploaderScript, SupplyInv
  <2> QED  BY <1>2, <2>1, <2>2, <2>3 DEF Next
<1>3. SupplyInv /\ SupplyInv' /\ [Next]_vars => [Advances]_vars
  BY <1>2
<1>4. Spec => [](UploadWork \in UploadMeasures)
  BY <1>1, SupplyInvariant, PTL
<1>5. Spec => [][Advances]_vars
  BY <1>3, SupplyInvariant, PTL DEF Spec
<1> QED  BY <1>4, <1>5, UploadOrderWellFounded

(***************************************************************************)
(* The map.  Nothing but the owners still to visit counts.                 *)
(***************************************************************************)
\* The update of the map ends: each of its steps ends it or leaves fewer owners to visit;
\* the only other steps there are meanwhile are removals by the job, which do not touch it.
THEOREM MapUpdateEnds ==
  /\ Spec => [](script = "map" => Len(visit) \in 0..Len(Owners))
  /\ Spec => [][script = "map" =>
                  \/ script' = "none"
                  \/ Len(visit') < Len(visit)
                  \/ Uploader!JobRemoves /\ UNCHANGED <<script, visit>>]_vars
<1> DEFINE Advances == script = "map" =>
                         \/ script' = "none"
                         \/ Len(visit') < Len(visit)
                         \/ Uploader!JobRemoves /\ UNCHANGED <<script, visit>>
<1>1. SupplyInv => (script = "map" => Len(visit) \in 0..Len(Owners))
  BY DEF SupplyInv, DraftInv, Visited
<1>2. ASSUME SupplyInv, Next, script = "map"
      PROVE  Advances
  <2>1. CASE MapScript
    <3>1. visit \in Seq({Owners[i] : i \in DOMAIN Owners})
      BY <1>2 DEF SupplyInv, DraftInv
    <3>2. CASE RepoMap!VisitOwner
      <4>1. visit # <<>> /\ visit' = Tail(visit)
        BY <3>2 DEF RepoMap!VisitOwner
      <4> QED  BY <3>1, <4>1
    <3> QED  BY <1>2, <2>1, <3>2
              DEF MapScript, RepoMap!MapNext, RepoMap!StartMap, RepoMap!WriteMap, RepoMap!MapCrash
  <2>2. CASE PackagerScript
    BY <1>2, <2>2, PackagerAlone DEF PackagerScript, SupplyInv
  <2>3. CASE UploaderScript
    <3>1. Uploader!UploaderNext /\ UNCHANGED <<mapping>>
      BY <2>3 DEF UploaderScript
    <3>2. step = "none"
      BY <1>2 DEF SupplyInv, UploaderInv, UploaderTypes, Uploader!UploaderTypeOK
    <3>3. Uploader!JobRemoves
      BY <1>2, <3>1, <3>2
         DEF Uploader!UploaderNext, Uploader!UploadStep, Uploader!StartUpload, Uploader!UploadFails,
             Uploader!CheckExists, Uploader!CompareVersions, Uploader!NoLocalJson, Uploader!DeletePage,
             Uploader!FolderCleared, Uploader!SendBatch, Uploader!FolderSent, Uploader!UploadDone
    <3> QED  BY <3>1, <3>3 DEF Uploader!JobRemoves, Uploader!JobLists, Uploader!JobDeletes, mapping
  <2> QED  BY <1>2, <2>1, <2>2, <2>3 DEF Next
<1>3. SupplyInv /\ [Next]_vars => [Advances]_vars
  BY <1>2
<1>4. Spec => [](script = "map" => Len(visit) \in 0..Len(Owners))
  BY <1>1, SupplyInvariant, PTL
<1>5. Spec => [][Advances]_vars
  BY <1>3, SupplyInvariant, PTL DEF Spec
<1> QED  BY <1>4, <1>5
=================================================================================
