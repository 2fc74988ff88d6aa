----------------------------- MODULE LibraryPackager -----------------------------
(***************************************************************************)
(* The script package-h5p-libraries: for every wished machine name it      *)
(* builds the versions of the library found on GitHub, and whatever they   *)
(* depend on, into one folder per machine name and major.minor version.    *)
(*                                                                         *)
(* The recursion of the code is an agenda, worked off from the front:      *)
(* building a version puts its dependencies in front of what is left.  A   *)
(* line stands for a major and a minor version; tags that are not of the   *)
(* form [v]major.minor[.patch] are left out.                               *)
(***************************************************************************)
EXTENDS Integers, Sequences, FiniteSets, SequencesExt

CONSTANTS
  Name, Repo, NoRepo,
  WishList,     \* the machine names to package, in order
  Line,         \* major.minor versions, ordered
  MaxPatch,     \* bound on patch versions
  File,         \* files of a library, library.json among them
  Tags,         \* Tags[r]: the tags of a repository
  Master,       \* Master[r]: the version on its master branch, or NoVersion
  Hub,          \* Hub[n]: the version the client finds in the Hub's package, or NoVersion
  NoVersion,
  Archive,      \* Archive[r, l, p]: what the archive of a version holds
  Table,        \* Table[o]: the names and tags npm option o is listed for
  PathCorrected,\* names and tags whose library.json is cleaned of missing paths
  Unbuilt,      \* names that are never built with npm
  Pinned,       \* Pinned[n, l]: the patch forced for a dependency, 0 if none
  MaxMishaps    \* bound on failed calls and kills

Patch   == 1..MaxPatch
Version == [line : Line, patch : Patch]
Tag     == [form : {"plain", "v"}, line : Line, patch : Patch]
Json    == "json"
Option  == {"openssl", "legacyPeerDeps", "oldNode", "install"}

\* What the constants are; LibrarySupply assumes it.
PackagerConstants ==
  /\ NoRepo \notin Repo /\ NoVersion \notin Version
  /\ Line \subseteq Nat /\ MaxPatch \in Nat /\ MaxMishaps \in Nat
  /\ Json \in File
  /\ WishList \in Seq(Name)
  /\ Tags \in [Repo -> SUBSET Tag]
  /\ \A r \in Repo : IsFiniteSet(Tags[r])
  /\ Master \in [Repo -> Version \cup {NoVersion}]
  /\ Hub \in [Name -> Version \cup {NoVersion}]
  /\ Archive \in [Repo \X Line \X Patch ->
       [files : SUBSET File, needs : SUBSET File, styles : SUBSET File, ignored : SUBSET File,
        npm : BOOLEAN, made : SUBSET File, wants : SUBSET Option,
        deps : SUBSET (Name \X Line), soft : SUBSET (Name \X Line), readable : BOOLEAN]]
  /\ \A v \in DOMAIN Archive : IsFiniteSet(Archive[v].deps) /\ IsFiniteSet(Archive[v].soft)
  /\ Table \in [Option -> SUBSET (Name \X Tag)]
  /\ Pinned \in [Name \X Line -> 0..MaxPatch]

VARIABLES
  script,      \* the script that is running
  repoOf,      \* the map file
  agenda,      \* what is still to build
  tagsCached,  \* repositories whose tags are in tagsCache
  hubCached,   \* names whose Hub version is in versionCache
  available,   \* availableVersions
  failed,      \* failedLibraries: exact versions
  unresolved,  \* failedLibraries: "<name>-<major>.<minor>.x"
  folder,      \* folder[n, l, form]: a folder of the temporary directory
  blind,       \* history: names for which GitHub or the Hub did not answer
  mishaps

local == <<agenda, tagsCached, hubCached, available, failed, unresolved, blind>>
packagerVars == <<script, repoOf, local, folder, mishaps>>

Folders  == Name \X Line \X {"plain", "v"}
NoFolder == [patch |-> 0, files |-> {}, needs |-> {}]
Whole(c) == Json \in c.files /\ c.needs \subseteq c.files

LibraryItem(n)       == [kind |-> "library", name |-> n]
VersionItem(n, t, r) == [kind |-> "version", name |-> n, tag |-> t, repo |-> r]
DependencyItem(d)    == [kind |-> "dependency", name |-> d[1], line |-> d[2]]

Mishaps(bad) ==
  /\ bad = {} \/ mishaps + Cardinality(bad) <= MaxMishaps
  /\ mishaps' = mishaps + Cardinality(bad)

Forget ==
  /\ agenda' = <<>> /\ tagsCached' = {} /\ hubCached' = {} /\ blind' = {}
  /\ available' = {} /\ failed' = {} /\ unresolved' = {}

PackagerInit ==
  /\ agenda = <<>> /\ tagsCached = {} /\ hubCached = {} /\ blind = {}
  /\ available = {} /\ failed = {} /\ unresolved = {}
  /\ folder = [f \in Folders |-> NoFolder]

StartPackaging ==
  /\ script = "none"
  /\ script' = "package"
  /\ agenda' = [i \in DOMAIN WishList |-> LibraryItem(WishList[i])]
  /\ UNCHANGED <<repoOf, tagsCached, hubCached, available, failed, unresolved,
                 folder, blind, mishaps>>

(***************************************************************************)
(* What GitHub and the Hub answer.  bad are the calls that fail in the     *)
(* step; an answer is kept in a cache, a failure is not.                   *)
(***************************************************************************)
TagsSeen(r, bad) == IF "tags" \in bad THEN {} ELSE Tags[r]

MasterSeen(r, l, bad) ==
  IF "master" \notin bad /\ Master[r] # NoVersion /\ Master[r].line = l
  THEN {[form |-> "plain", line |-> l, patch |-> Master[r].patch]} ELSE {}

\* A library the Hub does not have is an error like any other.
HubDownloads(n, bad) == "hub" \notin bad /\ Hub[n] # NoVersion

HubSeen(n, bad) == IF HubDownloads(n, bad) THEN Hub[n] ELSE NoVersion

Answers(n, r, bad) ==
  /\ "tags" \in bad => r \notin tagsCached
  /\ "hub" \in bad => n \notin hubCached
  /\ Mishaps(bad)
  /\ tagsCached' = IF "tags" \in bad THEN tagsCached ELSE tagsCached \cup {r}
  /\ blind' = IF bad = {} THEN blind ELSE blind \cup {n}

HubAnswers(n, bad) ==
  hubCached' = IF HubSeen(n, bad) = NoVersion THEN hubCached ELSE hubCached \cup {n}

(***************************************************************************)
(* Tags.                                                                   *)
(***************************************************************************)
HighestOf(tags, l) ==
  {t \in tags : t.line = l /\ \A u \in tags : u.line = l => u.patch <= t.patch}

\* getHighestPatchTags: one tag per line, of the highest patch version.
HighestPatchTags(tags) ==
  {S \in SUBSET tags : \A l \in Line : IF \E t \in tags : t.line = l
     THEN \E t \in HighestOf(tags, l) : {u \in S : u.line = l} = {t}
     ELSE \A u \in S : u.line # l}

\* filterTagsByH5pHubVersion: strictly below the Hub's version.
BelowHub(t, v) ==
  \/ v = NoVersion
  \/ t.line < v.line
  \/ t.line = v.line /\ t.patch < v.patch

BuildLibrary ==
  /\ agenda # <<>> /\ Head(agenda).kind = "library"
  /\ LET n == Head(agenda).name  r == repoOf[n] IN
     \/ /\ r = NoRepo
        /\ agenda' = Tail(agenda)
        /\ UNCHANGED <<tagsCached, hubCached, blind, mishaps>>
     \/ /\ r # NoRepo
        /\ \E bad \in SUBSET {"tags", "hub"} :
             /\ Answers(n, r, bad) /\ HubAnswers(n, bad)
             /\ \E tags \in HighestPatchTags(TagsSeen(r, bad)) :
                \E order \in SetToSeqs({t \in tags : BelowHub(t, HubSeen(n, bad))}) :
                  agenda' = [i \in DOMAIN order |-> VersionItem(n, order[i], r)] \o Tail(agenda)
  /\ UNCHANGED <<script, repoOf, available, failed, unresolved, folder>>

(***************************************************************************)
(* buildLibraryTagFromGitHub: the archive is unpacked, its version and its *)
(* paths corrected, npm run, what .h5pignore lists removed, and the result *)
(* checked for the preloaded scripts and styles.                           *)
(***************************************************************************)
Unpacked(a, t) == [patch |-> t.patch, files |-> a.files, needs |-> a.needs]

NpmRuns(n, a) == n \notin Unbuilt /\ a.npm

\* The tables are looked up by the tag as it is written.
OptionsOf(n, t) == {o \in Option : <<n, t>> \in Table[o]}

NpmSucceeds(n, t, a) == a.wants \subseteq OptionsOf(n, t)

\* checkAndCorrectLibraryJsonPaths: what is missing is no longer needed.  The scripts
\* come first; the styles are looked at only when no script is missing.
PathsCorrected(n, t, c, a) ==
  LET missing == c.needs \ c.files  scripts == missing \ a.styles IN
  IF <<n, t>> \in PathCorrected
  THEN [c EXCEPT !.needs = @ \ (IF scripts # {} THEN scripts ELSE missing)] ELSE c

\* cleanUpUnwantedFilesInLibraryFolder: what .h5pignore lists goes, needed or not.
CleanedUp(c, a) == [c EXCEPT !.files = @ \ a.ignored]

\* Mutant: the check comes before the clean-up.
PackedUncleaned(n, t, a) ==
  LET c == PathsCorrected(n, t, [Unpacked(a, t) EXCEPT !.files =
             @ \cup (IF NpmRuns(n, a) THEN a.made ELSE {})], a)
  IN  IF NpmRuns(n, a) /\ ~NpmSucceeds(n, t, a)
      THEN [built |-> FALSE, folder |-> Unpacked(a, t)]
      ELSE [built |-> Whole(c), folder |-> CleanedUp(c, a)]

Packed(n, t, a) ==
  LET c == PathsCorrected(n, t, [Unpacked(a, t) EXCEPT !.files =
             @ \cup (IF NpmRuns(n, a) THEN a.made ELSE {})], a)
      d == CleanedUp(c, a)
  IN  IF NpmRuns(n, a) /\ ~NpmSucceeds(n, t, a)
      THEN [built |-> FALSE, folder |-> Unpacked(a, t)]
      ELSE [built |-> Whole(d), folder |-> d]

FolderOf(n, t) == <<n, t.line, t.form>>

(***************************************************************************)
(* buildLibraryVersionAndDependencies.                                     *)
(***************************************************************************)
\* isCurrentVersionAvailable, isNewerPatchVersionAvailable
IsAvailable(n, t) ==
  \E v \in available : v[1] = n /\ v[2].line = t.line /\ v[2].patch >= t.patch

IsAlreadyFailed(n, t) == <<n, t>> \in failed \/ <<n, t.line>> \in unresolved

SkipVersion ==
  /\ agenda # <<>> /\ Head(agenda).kind = "version"
  /\ LET v == Head(agenda) IN IsAvailable(v.name, v.tag) \/ IsAlreadyFailed(v.name, v.tag)
  /\ agenda' = Tail(agenda)
  /\ UNCHANGED <<script, repoOf, tagsCached, hubCached, available, failed,
                 unresolved, folder, blind, mishaps>>

\* The version that is next to be built, and its archive.
Building ==
  /\ agenda # <<>> /\ Head(agenda).kind = "version"
  /\ LET v == Head(agenda) IN ~IsAvailable(v.name, v.tag) /\ ~IsAlreadyFailed(v.name, v.tag)

ArchiveOf(v) == Archive[v.repo, v.tag.line, v.tag.patch]

\* collectAllDependencies: those of library.json, then the library fields of
\* semantics.json, each in the order of its file.
AllDependencies(a) == {hard \o soft : hard \in SetToSeqs(a.deps), soft \in SetToSeqs(a.soft)}

\* An archive that cannot be downloaded leaves the folder of an earlier run.
DownloadFails ==
  /\ Building
  /\ Mishaps({"download"})
  /\ LET v == Head(agenda) IN failed' = failed \cup {<<v.name, v.tag>>}
  /\ agenda' = Tail(agenda)
  /\ UNCHANGED <<script, repoOf, tagsCached, hubCached, available, unresolved, folder, blind>>

\* A version that fails leaves its folder behind, in the state it has reached.
BuildVersion ==
  /\ Building
  /\ LET n == Head(agenda).name  t == Head(agenda).tag
         a == ArchiveOf(Head(agenda))  result == Packed(n, t, a)
     IN  /\ folder' = [folder EXCEPT ![FolderOf(n, t)] = result.folder]
         /\ \/ /\ ~result.built
               /\ failed' = failed \cup {<<n, t>>}
               /\ agenda' = Tail(agenda)
               /\ UNCHANGED available
            \/ /\ result.built /\ a.readable
               /\ available' = available \cup {<<n, t>>}
               /\ \E order \in AllDependencies(a) :
                    agenda' = [i \in DOMAIN order |-> DependencyItem(order[i])] \o Tail(agenda)
               /\ UNCHANGED failed
  /\ UNCHANGED <<script, repoOf, tagsCached, hubCached, unresolved, blind, mishaps>>

(***************************************************************************)
(* buildLibraryDependency.                                                 *)
(***************************************************************************)
\* Mutant: a dependency is not held back to the version of the Hub.
Uncapped(t, tags, v) == {t}

\* Not above the patch version of the Hub, if there is a tag for that one.
Capped(t, tags, v) ==
  LET same == {u \in tags : u.line = v.line /\ u.patch = v.patch} IN
  IF v # NoVersion /\ t.line = v.line /\ t.patch > v.patch /\ same # {}
  THEN same ELSE {t}

Forced(n, t) ==
  IF Pinned[n, t.line] = 0 THEN t
  ELSE [form |-> "plain", line |-> t.line, patch |-> Pinned[n, t.line]]

\* Mutant: a dependency without a version is not noted.
DropSilently(n, l) == UNCHANGED unresolved

NoteUnresolved(n, l) == unresolved' = unresolved \cup {<<n, l>>}

BuildDependency ==
  /\ agenda # <<>> /\ Head(agenda).kind = "dependency"
  /\ LET n == Head(agenda).name  l == Head(agenda).line  r == repoOf[n] IN
     \/ /\ r = NoRepo
        /\ NoteUnresolved(n, l)
        /\ agenda' = Tail(agenda)
        /\ UNCHANGED <<tagsCached, hubCached, blind, mishaps>>
     \/ /\ r # NoRepo
        /\ \E bad \in SUBSET {"tags", "master", "hub"} :
           LET tags  == TagsSeen(r, bad)
               found == IF HighestOf(tags, l) # {} THEN HighestOf(tags, l) ELSE MasterSeen(r, l, bad)
           IN  /\ Answers(n, r, bad)
               /\ "master" \in bad => HighestOf(tags, l) = {}
               /\ \/ /\ found = {} /\ "hub" \notin bad
                     /\ NoteUnresolved(n, l)
                     /\ agenda' = Tail(agenda)
                     /\ UNCHANGED hubCached
                  \/ \E t \in found : \E u \in Capped(t, tags, HubSeen(n, bad)) :
                       /\ agenda' = <<VersionItem(n, Forced(n, u), r)>> \o Tail(agenda)
                       /\ HubAnswers(n, bad)
                       /\ UNCHANGED unresolved
  /\ UNCHANGED <<script, repoOf, available, failed, folder>>

Exit == script' = "none" /\ Forget

PackagingDone ==
  /\ script = "package" /\ agenda = <<>>
  /\ Exit
  /\ UNCHANGED <<repoOf, folder, mishaps>>

\* A semantics.json that is refused is caught by nobody: the process ends.
SemanticsRefused ==
  /\ Building
  /\ LET v == Head(agenda)  result == Packed(v.name, v.tag, ArchiveOf(v)) IN
     /\ result.built /\ ~ArchiveOf(v).readable
     /\ folder' = [folder EXCEPT ![FolderOf(v.name, v.tag)] = result.folder]
  /\ Exit
  /\ UNCHANGED <<repoOf, mishaps>>

\* A kill, or an archive that cannot be unpacked.  The folder of the version being
\* built is then as it was, gone, or unpacked only.
PackagingCrash ==
  /\ script = "package"
  /\ Mishaps({"crash"})
  /\ \/ UNCHANGED folder
     \/ /\ Building
        /\ LET v == Head(agenda) IN
           \E c \in {NoFolder, Unpacked(ArchiveOf(v), v.tag)} :
             folder' = [folder EXCEPT ![FolderOf(v.name, v.tag)] = c]
  /\ Exit
  /\ UNCHANGED repoOf

PackagingStep ==
  \/ BuildLibrary \/ SkipVersion \/ BuildVersion \/ BuildDependency
  \/ SemanticsRefused \/ PackagingDone

PackagerNext == StartPackaging \/ PackagingStep \/ DownloadFails \/ PackagingCrash

(***************************************************************************)
(* Properties.                                                             *)
(***************************************************************************)
PackagerTypeOK ==
  /\ repoOf \in [Name -> Repo \cup {NoRepo}]
  /\ \A i \in DOMAIN agenda : agenda[i].name \in Name
  /\ available \subseteq Name \X Tag /\ failed \subseteq Name \X Tag
  /\ unresolved \subseteq Name \X Line
  /\ folder \in [Folders -> [patch : 0..MaxPatch, files : SUBSET File, needs : SUBSET File]]

\* The lines a version that is available depends on.
DependenciesOf(n, t) ==
  LET a == Archive[repoOf[n], t.line, t.patch] IN a.deps \cup a.soft

\* When packaging has come to its end, every dependency of every version that was
\* built is available in its line, or was noted as failed, however versions need
\* each other and however often a version is met.
DependenciesSettled ==
  [][script = "package" /\ agenda = <<>> /\ script' = "none" =>
       \A v \in available : \A d \in DependenciesOf(v[1], v[2]) :
         \/ d \in unresolved
         \/ \E w \in available \cup failed : w[1] = d[1] /\ w[2].line = d[2]]_packagerVars

\* The folder of an available version holds it whole, or a newer patch version, or
\* what is left of a newer one that was tried later and failed.
AvailableIsWhole ==
  \A v \in available :
    LET c == folder[FolderOf(v[1], v[2])] IN
    c.patch >= v[2].patch /\ (Whole(c) \/ \E w \in failed :
      w[1] = v[1] /\ FolderOf(v[1], w[2]) = FolderOf(v[1], v[2]) /\ w[2].patch > v[2].patch)

\* Of a library no version that is not below the Hub's is built on its own account: an
\* available version depends on its line.  In the Hub's own line even such a dependency
\* is not above the Hub's version, if that one has a tag and none is forced.  Exceptions
\* are libraries about which a call failed.
HeldBack ==
  \A v \in available :
    LET n == v[1]  t == v[2]  h == Hub[n] IN
    n \notin blind /\ ~BelowHub(t, h) =>
      /\ \E w \in available : <<n, t.line>> \in DependenciesOf(w[1], w[2])
      /\ t.line = h.line /\ t.patch > h.patch =>
           \/ Pinned[n, t.line] # 0
           \/ ~\E u \in Tags[repoOf[n]] : u.line = h.line /\ u.patch = h.patch
=================================================================================
