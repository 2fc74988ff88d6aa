----------------------------- MODULE LibraryRepoMap -----------------------------
(***************************************************************************)
(* The script update-h5p-map: it asks GitHub for the repositories of some  *)
(* owners and writes the map from machine names to repositories the        *)
(* packaging script reads.  Owners are visited in order and a later one    *)
(* overrides the earlier ones, so the official organisation comes last.    *)
(***************************************************************************)
EXTENDS Integers, Sequences, FiniteSets

CONSTANTS
  Name,        \* machine names
  Repo,        \* repositories
  NoRepo,
  Owners,      \* the owners in the order they are visited
  Offers,      \* Offers[o]: pairs of a machine name and the repository stating it
  MaxMishaps   \* bound on failed calls and kills

\* What the constants are; LibrarySupply assumes it.
RepoConstants ==
  /\ NoRepo \notin Repo
  /\ Owners \in Seq({Owners[i] : i \in DOMAIN Owners})
  /\ \A i \in DOMAIN Owners : Offers[Owners[i]] \subseteq Name \X Repo

VARIABLES
  script,   \* the script that is running
  repoOf,   \* the map file
  visit,    \* owners still to visit
  draft,    \* the map built so far
  missed,   \* history: owners of which a repository was not read
  mishaps

mapVars == <<script, repoOf, visit, draft, missed, mishaps>>

Unmapped == [n \in Name |-> NoRepo]

\* Mishaps of the kinds in bad happen in one step.
Mishaps(bad) ==
  /\ bad = {} \/ mishaps + Cardinality(bad) <= MaxMishaps
  /\ mishaps' = mishaps + Cardinality(bad)

MapInit ==
  /\ script = "none"
  /\ repoOf = Unmapped /\ draft = Unmapped
  /\ visit = <<>> /\ missed = {}

StartMap ==
  /\ script = "none"
  /\ script' = "map"
  /\ visit' = Owners /\ draft' = Unmapped /\ missed' = {}
  /\ UNCHANGED <<repoOf, mishaps>>

\* The pages of an owner's repositories: one that cannot be read drops all of them.
Repositories(o, bad) == IF "page" \in bad THEN {} ELSE Offers[o]

\* Their library.json: one that cannot be read drops its repository.
JsonsRead(repos) == SUBSET repos

\* buildLibraryRepoMapFromRepos: one repository per machine name, the first
\* in the order GitHub lists them.
OwnMaps(seen) ==
  {m \in [Name -> Repo \cup {NoRepo}] :
     \A n \in Name : IF \E r \in Repo : <<n, r>> \in seen
                     THEN <<n, m[n]>> \in seen ELSE m[n] = NoRepo}

\* Mutant: the repositories of an earlier owner are kept.
MergeEarlier(old, own) == [n \in Name |-> IF old[n] # NoRepo THEN old[n] ELSE own[n]]

\* { ...libraryRepoMap, ...repoMap }
Merge(old, own) == [n \in Name |-> IF own[n] # NoRepo THEN own[n] ELSE old[n]]

\* One owner: whatever could not be read is logged and forgotten.
VisitOwner ==
  /\ script = "map" /\ visit # <<>>
  /\ LET o == Head(visit) IN
     \E bad \in SUBSET {"page"} : \E seen \in JsonsRead(Repositories(o, bad)) :
       /\ IF seen = Offers[o]
          THEN UNCHANGED <<missed, mishaps>>
          ELSE Mishaps({"github"}) /\ missed' = missed \cup {o}
       /\ \E own \in OwnMaps(seen) : draft' = Merge(draft, own)
  /\ visit' = Tail(visit)
  /\ UNCHANGED <<script, repoOf>>

WriteMap ==
  /\ script = "map" /\ visit = <<>>
  /\ repoOf' = draft
  /\ script' = "none" /\ draft' = Unmapped /\ missed' = {}
  /\ UNCHANGED <<visit, mishaps>>

\* A library.json that is no JSON, or a kill: the old map file stays.
MapCrash ==
  /\ script = "map"
  /\ Mishaps({"crash"})
  /\ script' = "none" /\ visit' = <<>> /\ draft' = Unmapped /\ missed' = {}
  /\ UNCHANGED repoOf

MapNext == StartMap \/ VisitOwner \/ WriteMap \/ MapCrash

\* The script on its own.
MapSpec == MapInit /\ mishaps = 0 /\ [][MapNext]_mapVars

\* Every name that the i-th owner offers, and all of whose repositories were read, is
\* mapped to a repository of this owner or of a later one, up to the k-th.
WonIn(map, i, k) ==
  \A n \in Name :
    (\E r \in Repo : <<n, r>> \in Offers[Owners[i]]) /\ Owners[i] \notin missed
      => \E j \in i..k : <<n, map[n]>> \in Offers[Owners[j]]

\* "the last organization/user will override the previous ones ... contains the
\* official libraries, which should override any forks": in a map that is written,
\* a name offered by an owner of which every repository was read has a repository
\* of this owner or of a later one.  A fork is taken for the original only if a
\* call about the original failed, which the script logs and forgets.
OfficialWins ==
  [][repoOf' # repoOf => \A i \in DOMAIN Owners : WonIn(repoOf', i, Len(Owners))]_mapVars
=================================================================================
