------------------------------- MODULE S3Adapter -------------------------------
(***************************************************************************)
(* S3ClientAdapter: every public operation, called by several clients on   *)
(* one bucket that may not exist yet.  A request to S3 is one step; the    *)
(* steps of different calls interleave, requests fail, clients are killed. *)
(*                                                                         *)
(* A file is a key; the folder Dir is a set of keys, listed in their order *)
(* and in pages.  What a key holds is the number of the call that created  *)
(* it.                                                                     *)
(***************************************************************************)
EXTENDS Integers, FiniteSets

CONSTANTS
  Client,
  Key,          \* file keys: natural numbers, in the order S3 lists them
  Dir,          \* the keys under the prefix the directory operations are given
  Twin,         \* Twin[k]: where copy puts a copy of k
  CallsOf,      \* CallsOf[c]: the calls a client makes
  PageSize,     \* keys in a page of a listing
  Rule,         \* lifecycle rules: a folder and a number of days
  RulesOf,      \* the rules a client is configured with, at most one per folder
  Foreign,      \* the rules the bucket has already, at most one per folder
  MaxCalls, MaxMishaps

Absent == 0
Cut    == -1    \* a file without the part of it that a first attempt consumed

Moves   == {"trash", "trashDir", "restore"}
Writers == Moves \cup {"create", "copy", "delete", "deleteDir"}
Ops     == Writers \cup {"configure", "list", "get", "head"}
Place   == {"live", "trash"} \X Key

\* At most one rule for a folder.
OneRule(R) == \A r, s \in R : r.folder = s.folder => r = s

ASSUME AdapterAssumption ==
  /\ Key \subseteq Nat \ {0} /\ Dir \subseteq Key /\ IsFiniteSet(Key)
  /\ Twin \in [Key -> Key]
  /\ \A c \in Client : CallsOf[c] \subseteq [op : Ops, keys : SUBSET Key, limit : Nat]
  /\ PageSize \in Nat \ {0}
  /\ RulesOf \in [Client -> SUBSET Rule] /\ Foreign \subseteq Rule
  /\ OneRule(Foreign) /\ \A c \in Client : OneRule(RulesOf[c])
  /\ MaxCalls \in Nat \ {0} /\ MaxMishaps \in Nat

VARIABLES
  bucket,     \* the bucket exists
  at,         \* at[<<area, k>>]: what is stored, in the trash folder or outside
  rules,      \* the lifecycle rules of the bucket
  call,       \* call[c]: the call of c that is under way
  answer,     \* how the last call of c ended
  calls,      \* calls made so far
  mishaps,
  newest,     \* history: newest[k]: the last whole file stored under k
  waived,     \* history: keys whose newest file may be gone, see Kept
  configured, \* history: clients whose rules have been confirmed
  crossed     \* history: two configurations have overlapped

store   == <<bucket, at, rules>>
history == <<newest, waived, configured, crossed>>
vars    == <<store, call, answer, calls, mishaps, history>>

Idle ==
  [op |-> "none", keys |-> {}, limit |-> 0, step |-> "idle", file |-> 0, page |-> {},
   todo |-> {}, marker |-> 0, more |-> FALSE, spent |-> FALSE, read |-> {},
   found |-> {}, met |-> {}]

\* The first request of a call.
FirstStep(op) ==
  CASE op = "create" -> "put"
    [] op = "configure" -> "rules"
    [] op \in {"trash", "restore", "copy"} -> "copy"
    [] op = "delete" -> "delete"
    [] op \in {"trashDir", "deleteDir", "list"} -> "list"
    [] op \in {"get", "head"} -> "read"

\* The keys a call may touch.
Touches(x) ==
  CASE x.op \in {"trashDir", "deleteDir", "list"} -> Dir
    [] x.op = "copy" -> x.keys \cup {Twin[k] : k \in x.keys}
    [] OTHER -> x.keys

Rivals(c) == {d \in Client \ {c} : call[d].op \in Writers}

Init ==
  /\ bucket \in BOOLEAN
  /\ \E K \in IF bucket THEN {{}, Key} ELSE {{}} :
          newest = [k \in Key |-> IF k \in K THEN 1 ELSE Absent]
  /\ at = [x \in Place |-> IF x[1] = "live" THEN newest[x[2]] ELSE Absent]
  /\ rules = IF bucket THEN Foreign ELSE {}
  /\ call = [c \in Client |-> Idle] /\ answer = [c \in Client |-> "none"]
  /\ calls = 1 /\ mishaps = 0
  /\ waived = {} /\ configured = {} /\ crossed = FALSE

Fault ==
  /\ mishaps < MaxMishaps
  /\ mishaps' = mishaps + 1

Go(c, next) == call' = [call EXCEPT ![c] = next]

\* The call is over for its caller.
Answer(c, how) ==
  /\ answer' = [answer EXCEPT ![c] = how]
  /\ Go(c, Idle)

Begin(c) ==
  /\ call[c] = Idle /\ calls < MaxCalls
  /\ calls' = calls + 1
  /\ \E x \in CallsOf[c] :
       /\ call' = [d \in Client |->
            IF d = c
            THEN [Idle EXCEPT !.op = x.op, !.keys = x.keys, !.limit = x.limit,
                    !.step = FirstStep(x.op), !.file = calls + 1,
                    !.page = x.keys, !.todo = IF FirstStep(x.op) = "copy" THEN x.keys ELSE {},
                    !.met = Touches(x) \cap UNION {Touches(call[e]) : e \in Rivals(c)}]
            ELSE IF call[d].op # "none" /\ x.op \in Writers
            THEN [call[d] EXCEPT !.met = @ \cup (Touches(x) \cap Touches(call[d]))]
            ELSE call[d]]
       /\ crossed' = (crossed \/ (x.op = "configure" /\
                        \E d \in Client \ {c} : call[d].op = "configure"))
  /\ UNCHANGED <<store, answer, mishaps, newest, waived, configured>>

(***************************************************************************)
(* create, createBucket and the errors they meet.                          *)
(***************************************************************************)
\* Upload.done: the file is stored whole, or, on a second attempt with a stream
\* the first one has read from, without that part.
Put(c) ==
  /\ call[c].step = "put" /\ bucket
  /\ \E k \in call[c].keys :
       IF ~call[c].spent
       THEN /\ at' = [at EXCEPT ![<<"live", k>>] = call[c].file]
            /\ newest' = [newest EXCEPT ![k] = call[c].file]
            /\ waived' = waived \ {k}
       ELSE /\ at' = [at EXCEPT ![<<"live", k>>] = Cut]
            /\ waived' = waived \cup {k}
            /\ UNCHANGED newest
  /\ Answer(c, "ok")
  /\ UNCHANGED <<bucket, rules, calls, mishaps, configured, crossed>>

\* The upload fails, its stream breaks, or it is aborted: it may have been stored.
PutFails(c) ==
  /\ call[c].step = "put" /\ bucket
  /\ Fault
  /\ \E k \in call[c].keys :
       \/ UNCHANGED <<at, newest, waived>>
       \/ /\ at' = [at EXCEPT ![<<"live", k>>] = IF call[c].spent THEN Cut ELSE call[c].file]
          /\ IF call[c].spent
             THEN waived' = waived \cup {k} /\ UNCHANGED newest
             ELSE waived' = waived \ {k} /\ newest' = [newest EXCEPT ![k] = call[c].file]
  /\ Answer(c, "error")
  /\ UNCHANGED <<bucket, rules, calls, configured, crossed>>

\* handleCreateError, handleConfigureFolderLifecycleError: NoSuchBucket.
NoSuchBucket(c) ==
  /\ call[c].step \in {"put", "rules"} /\ ~bucket
  /\ Go(c, [call[c] EXCEPT !.step = "bucket", !.spent = TRUE])
  /\ UNCHANGED <<store, answer, calls, mishaps, history>>

\* Any other request to a bucket that does not exist.
BucketMissing(c) ==
  /\ ~bucket
  /\ \/ call[c].step \in {"list", "read"}
     \/ call[c].step = "delete" /\ call[c].page # {}
  /\ Answer(c, IF call[c].op = "list" THEN "notFound" ELSE "error")
  /\ UNCHANGED <<store, calls, mishaps, history>>

\* createBucketInternal; then the operation starts over.
CreateBucket(c) ==
  /\ call[c].step = "bucket" /\ ~bucket
  /\ bucket' = TRUE
  /\ Go(c, [call[c] EXCEPT !.step = FirstStep(call[c].op)])
  /\ UNCHANGED <<at, rules, answer, calls, mishaps, history>>

\* Another client has created it.  S3 reports an error, which handleCreateBucketError
\* throws, or, in some regions, success.
BucketExists(c) ==
  /\ call[c].step = "bucket" /\ bucket
  /\ \/ Answer(c, "error")
     \/ Go(c, [call[c] EXCEPT !.step = FirstStep(call[c].op)]) /\ UNCHANGED answer
  /\ UNCHANGED <<store, calls, mishaps, history>>

(***************************************************************************)
(* The lifecycle rules, configured when a client starts.                   *)
(***************************************************************************)
\* Mutant: rules are compared whole, not by their folder.
MissingByValue(read, mine) == mine \ read

\* filterMissingFolderLifecycleRules: a folder that has a rule keeps it.
Missing(read, mine) == {r \in mine : \A s \in read : s.folder # r.folder}

\* [...existingRules, ...newRules]
AllRules(read, mine) == read \cup Missing(read, mine)

ReadRules(c) ==
  /\ call[c].step = "rules" /\ bucket
  /\ IF Missing(rules, RulesOf[c]) = {}
     THEN Answer(c, "ok") /\ configured' = configured \cup {c}
     ELSE /\ Go(c, [call[c] EXCEPT !.step = "putRules", !.read = rules])
          /\ UNCHANGED <<answer, configured>>
  /\ UNCHANGED <<store, calls, mishaps, newest, waived, crossed>>

\* The configuration is replaced as a whole.
PutRules(c) ==
  /\ call[c].step = "putRules"
  /\ rules' = AllRules(call[c].read, RulesOf[c])
  /\ configured' = configured \cup {c}
  /\ Answer(c, "ok")
  /\ UNCHANGED <<bucket, at, calls, mishaps, newest, waived, crossed>>

\* A failure is reported to the error handler and the client starts all the same.
RulesFail(c) ==
  /\ call[c].step \in {"rules", "putRules"} /\ bucket
  /\ Fault
  /\ Answer(c, "ok")
  /\ UNCHANGED <<store, calls, history>>

(***************************************************************************)
(* Copies: moveToTrash, moveDirectoryToTrash, restore, copy.               *)
(***************************************************************************)
Source(c, k) == IF call[c].op = "restore" THEN <<"trash", k>> ELSE <<"live", k>>

Target(c, k) ==
  CASE call[c].op = "restore" -> <<"live", k>>
    [] call[c].op = "copy" -> <<"live", Twin[k]>>
    [] OTHER -> <<"trash", k>>

\* What a copy of the file from does to the key k: copy stores it there like a new
\* file, restore gives up another file that is there.
Arrives(c, k, from) ==
  CASE call[c].op = "copy" /\ from # Cut ->
         newest' = [newest EXCEPT ![Twin[k]] = from] /\ waived' = waived \ {Twin[k]}
    [] call[c].op = "copy" /\ from = Cut ->
         waived' = waived \cup {Twin[k]} /\ UNCHANGED newest
    [] call[c].op = "restore" /\ at[<<"live", k>>] \notin {Absent, from} ->
         waived' = waived \cup {k} /\ UNCHANGED newest
    [] OTHER -> UNCHANGED <<newest, waived>>

\* One CopyObject of those sent together.
CopyObject(c) ==
  /\ call[c].step = "copy" /\ bucket
  /\ \E k \in call[c].todo :
       LET from == at[Source(c, k)] IN
       /\ Go(c, [call[c] EXCEPT !.todo = @ \ {k}])
       /\ IF from = Absent THEN UNCHANGED <<at, newest, waived>>
          ELSE at' = [at EXCEPT ![Target(c, k)] = from] /\ Arrives(c, k, from)
  /\ UNCHANGED <<bucket, rules, answer, calls, mishaps, configured, crossed>>

\* A copy that fails is reported to the error handler and forgotten: a move then
\* deletes the original all the same.
CopyFails(c) ==
  /\ call[c].step = "copy"
  /\ IF bucket THEN Fault ELSE UNCHANGED mishaps
  /\ \E k \in call[c].todo :
       Go(c, [call[c] EXCEPT !.todo = @ \ {k}, !.met = @ \cup {k}])
  /\ UNCHANGED <<store, answer, calls, history>>

\* Mutant: the originals are deleted while copies are under way.
SettledAny(c) == TRUE

\* Promise.allSettled
Settled(c) == call[c].todo = {}

CopiesSettled(c) ==
  /\ call[c].step = "copy" /\ Settled(c)
  /\ IF call[c].op = "copy" THEN Answer(c, "ok")
     ELSE Go(c, [call[c] EXCEPT !.step = "delete"]) /\ UNCHANGED answer
  /\ UNCHANGED <<store, calls, mishaps, history>>

(***************************************************************************)
(* Deletions.                                                              *)
(***************************************************************************)
\* Mutant: a directory is done after its first page.
NeverMore(c) == FALSE

\* IsTruncated: the next page of the directory.
MorePages(c) == call[c].more

Truncated(c, left) ==
  IF MorePages(c)
  THEN Go(c, [call[c] EXCEPT !.step = "list", !.page = {}, !.met = @ \cup left]) /\ UNCHANGED answer
  ELSE Answer(c, "ok")

\* What a deletion gives up: what its caller wants deleted, and, of what a move
\* deletes, the files whose copy failed or that another call has touched.
GivenUp(c) == IF call[c].op \in Moves THEN call[c].page \cap call[c].met ELSE call[c].page

Without(c, K) ==
  [x \in Place |-> IF \E k \in K : x = Source(c, k) THEN Absent ELSE at[x]]

\* DeleteObjects: the keys S3 could not delete are named in an answer nobody reads.
DeleteObjects(c) ==
  /\ call[c].step = "delete" /\ (bucket \/ call[c].page = {})
  /\ \E left \in SUBSET call[c].page :
       /\ IF left = {} THEN UNCHANGED mishaps ELSE Fault
       /\ at' = Without(c, call[c].page \ left)
       /\ Truncated(c, left)
  /\ waived' = waived \cup GivenUp(c)
  /\ UNCHANGED <<bucket, rules, calls, newest, configured, crossed>>

DeleteFails(c) ==
  /\ call[c].step = "delete" /\ bucket /\ call[c].page # {}
  /\ Fault
  /\ \E done \in SUBSET call[c].page : at' = Without(c, done)
  /\ waived' = waived \cup GivenUp(c)
  /\ Answer(c, "error")
  /\ UNCHANGED <<bucket, rules, calls, newest, configured, crossed>>

(***************************************************************************)
(* Listings: moveDirectoryToTrash, deleteDirectory, list.                  *)
(***************************************************************************)
Present(marker) == {k \in Dir : k > marker /\ at[<<"live", k>>] # Absent}

FirstOf(n, K) == {k \in K : Cardinality({i \in K : i < k}) < n}

Last(K, marker) == IF K = {} THEN marker ELSE CHOOSE k \in K : \A i \in K : i <= k

\* MaxKeys: what is left of the caller's limit; S3 returns at most a page.
PageLength(x) ==
  LET wanted == x.limit - Cardinality(x.found) IN
  IF x.limit = 0 \/ wanted > PageSize THEN PageSize ELSE wanted

\* Mutant: without a limit a listing stops after its first page.
GoesOnToLimit(x, found, more) == more /\ Cardinality(found) < x.limit

GoesOn(x, found, more) == more /\ (x.limit = 0 \/ Cardinality(found) < x.limit)

ListPage(c) ==
  /\ call[c].step = "list" /\ bucket
  /\ LET x == call[c]
         rest == Present(x.marker)
         page == FirstOf(PageLength(x), rest)
         found == x.found \cup page
         more == page # rest
         next == [x EXCEPT !.page = page, !.marker = Last(page, @), !.more = more]
     IN CASE x.op = "trashDir" -> Go(c, [next EXCEPT !.step = "copy", !.todo = page]) /\ UNCHANGED answer
          [] x.op = "deleteDir" -> Go(c, [next EXCEPT !.step = "delete"]) /\ UNCHANGED answer
          [] x.op = "list" /\ GoesOn(x, found, more) ->
               Go(c, [next EXCEPT !.found = found]) /\ UNCHANGED answer
          [] OTHER -> Go(c, [next EXCEPT !.found = found, !.step = "listed"]) /\ UNCHANGED answer
  /\ UNCHANGED <<store, calls, mishaps, history>>

Listed(c) ==
  /\ call[c].step = "listed"
  /\ Answer(c, "ok")
  /\ UNCHANGED <<store, calls, mishaps, history>>

RequestFails(c) ==
  /\ call[c].step \in {"list", "read", "bucket"}
  /\ Fault
  /\ Answer(c, IF call[c].op = "list" THEN "notFound" ELSE "error")
  /\ UNCHANGED <<store, calls, history>>

(***************************************************************************)
(* head and get.  The stream get returns is a PassThrough the stream of S3 *)
(* is piped into; a timer that every chunk restarts destroys both.         *)
(***************************************************************************)
\* A missing file is recognised by the error's code in get, in head by its message,
\* which depends on the server.
Missed(c) ==
  /\ call[c].step = "read" /\ bucket
  /\ \A k \in call[c].keys : at[<<"live", k>>] = Absent
  /\ \/ Answer(c, "notFound")
     \/ call[c].op = "head" /\ Answer(c, "error")
  /\ UNCHANGED <<store, calls, mishaps, history>>

Read(c) ==
  /\ call[c].step = "read" /\ bucket
  /\ \E k \in call[c].keys : at[<<"live", k>>] # Absent
  /\ IF call[c].op = "head" THEN Answer(c, "ok")
     ELSE /\ answer' = [answer EXCEPT ![c] = "ok"]
          /\ Go(c, [call[c] EXCEPT !.step = "stream"])
  /\ UNCHANGED <<store, calls, mishaps, history>>

\* The stream ends, or one of its halves fails and takes the other along.
StreamEnds(c) ==
  /\ call[c].step = "stream"
  /\ Go(c, Idle)
  /\ UNCHANGED <<store, answer, calls, mishaps, history>>

\* The reader destroys its half without an error: nobody tells the half of S3.
ReaderLeaves(c) ==
  /\ call[c].step = "stream"
  /\ Go(c, [call[c] EXCEPT !.step = "left"])
  /\ UNCHANGED <<store, answer, calls, mishaps, history>>

\* Mutant: the timer does nothing once one half is destroyed.
BothOpen(c) == call[c].step = "stream"

NotBothDestroyed(c) == call[c].step \in {"stream", "left"}

StreamTimesOut(c) ==
  /\ NotBothDestroyed(c)
  /\ Go(c, Idle)
  /\ UNCHANGED <<store, answer, calls, mishaps, history>>

\* The client's process dies.
Kill(c) ==
  /\ call[c] # Idle
  /\ Fault
  /\ answer' = [answer EXCEPT ![c] = "none"]
  /\ Go(c, Idle)
  /\ UNCHANGED <<store, calls, history>>

Progress(c) ==
  \/ Put(c) \/ NoSuchBucket(c) \/ BucketMissing(c) \/ CreateBucket(c) \/ BucketExists(c)
  \/ ReadRules(c) \/ PutRules(c)
  \/ CopyObject(c) \/ (CopyFails(c) /\ ~bucket) \/ CopiesSettled(c) \/ DeleteObjects(c)
  \/ ListPage(c) \/ Listed(c) \/ Missed(c) \/ Read(c) \/ StreamEnds(c) \/ StreamTimesOut(c)

Mishap(c) ==
  \/ PutFails(c) \/ RulesFail(c) \/ (CopyFails(c) /\ bucket) \/ DeleteFails(c)
  \/ RequestFails(c) \/ Kill(c)

Next == \E c \in Client : Begin(c) \/ Progress(c) \/ ReaderLeaves(c) \/ Mishap(c)

\* Requests are answered, by S3 or by the client's own time limits.
Spec == Init /\ [][Next]_vars /\ \A c \in Client : WF_vars(Progress(c))

(***************************************************************************)
(* Properties.                                                             *)
(***************************************************************************)
TypeOK ==
  /\ at \in [Place -> {Cut, Absent} \cup 1..MaxCalls]
  /\ ~bucket => (\A x \in Place : at[x] = Absent) /\ rules = {}
  /\ rules \subseteq Rule
  /\ \A c \in Client :
       /\ call[c].op \in Ops \cup {"none"}
       /\ (call[c].op = "none") <=> (call[c] = Idle)
       /\ call[c].step \in {"idle", "put", "bucket", "rules", "putRules", "copy", "delete",
                           "list", "listed", "read", "stream", "left"}
       /\ call[c].todo \subseteq call[c].page \cup call[c].keys
  /\ answer \in [Client -> {"none", "ok", "error", "notFound"}]
  /\ newest \in [Key -> 0..MaxCalls]

\* "try catch with rollback is not needed, because the second copyRequest try override
\* existing files in trash folder": however moves to the trash and back, page by page,
\* fail, die and are repeated, the newest file stored whole under a key is in place or
\* in the trash.  It may be gone (waived) only if it was deleted, if another file was
\* restored over it, if its own copy failed in a move, if another call touched it
\* during a move, or if an upload was repeated after the bucket was found missing.
Kept ==
  \A k \in Key : newest[k] # Absent /\ k \notin waived =>
    newest[k] \in {at[<<"live", k>>], at[<<"trash", k>>]}

\* No rule of the bucket is ever lost and a client that has configured its rules finds
\* them there, unless two clients start at the same time; even then a folder never
\* gets a second rule.
RulesKept ==
  [][/\ ~crossed => rules \subseteq rules'
     /\ \A c \in configured' \ configured : \A r \in RulesOf[c] : \E s \in rules' : s.folder = r.folder
     /\ OneRule(rules')]_vars

\* When a whole directory has been deleted or moved and no error was reported, no file
\* is left in it, except what another call has touched meanwhile, what S3 refused
\* to delete and, in a move, what could not be copied.
DirectoryEmptied ==
  [][\A c \in Client :
       call[c].op \in {"deleteDir", "trashDir"} /\ call'[c] = Idle /\ answer'[c] = "ok"
         /\ mishaps' = mishaps
       => \A k \in Dir \ call[c].met : at'[<<"live", k>>] = Absent]_vars

\* A listing returns the files of the directory, in their order, up to the limit it
\* was given and no more; other calls may blur what they touch.
ListsDirectory ==
  \A c \in Client : call[c].step = "listed" =>
    LET x == call[c]  here == Present(0) IN
    /\ x.limit # 0 => Cardinality(x.found) <= x.limit
    /\ x.met = {} => x.found = (IF x.limit = 0 THEN here ELSE FirstOf(x.limit, here))

\* Every call ends, and so does every stream that was opened: creating the bucket and
\* starting over does not go round for ever.
CallsEnd == \A c \in Client : (call[c] # Idle ~> call[c] = Idle)
================================================================================
