----------------------------- MODULE S3AdapterProofs -----------------------------
(***************************************************************************)
(* Theorems about the S3 adapter, for any clients, keys, calls and rules,  *)
(* whatever fails and however the requests of the calls interleave.        *)
(***************************************************************************)
EXTENDS S3Adapter, FiniteSetTheorems, WellFoundedInduction, TLAPS

(***************************************************************************)
(* What the state may be.                                                  *)
(***************************************************************************)
\* An operation and a step its calls may be at.
Stage ==
  {<<"none", "idle">>, <<"create", "put">>, <<"create", "bucket">>,
   <<"configure", "rules">>, <<"configure", "bucket">>, <<"configure", "putRules">>,
   <<"trash", "copy">>, <<"trash", "delete">>, <<"restore", "copy">>, <<"restore", "delete">>,
   <<"copy", "copy">>, <<"delete", "delete">>,
   <<"trashDir", "list">>, <<"trashDir", "copy">>, <<"trashDir", "delete">>,
   <<"deleteDir", "list">>, <<"deleteDir", "delete">>, <<"list", "list">>, <<"list", "listed">>,
   <<"get", "read">>, <<"get", "stream">>, <<"get", "left">>, <<"head", "read">>}

StepName == {"idle", "put", "bucket", "rules", "putRules", "copy", "delete", "list", "listed",
             "read", "stream", "left"}

Call == [op : Ops \cup {"none"}, keys : SUBSET Key, limit : Nat, step : StepName,
         file : 0..MaxCalls, page : SUBSET Key, todo : SUBSET Key, marker : Nat, more : BOOLEAN,
         spent : BOOLEAN, read : SUBSET Rule, found : SUBSET Key, met : SUBSET Key]

\* A call as it may be between two of its requests.
CallOK(x) ==
  /\ x \in Call
  /\ <<x.op, x.step>> \in Stage
  /\ x.op = "none" => x = Idle
  /\ x.op # "none" => x.file # Absent
  /\ x.step \in {"copy", "delete"} => x.page \subseteq Touches(x)
  /\ x.todo \subseteq IF x.op = "copy" THEN x.keys ELSE x.page
  /\ x.todo # {} => x.step = "copy"
  /\ x.more => x.op \in {"trashDir", "deleteDir", "list"}

StoreOK ==
  /\ bucket \in BOOLEAN
  /\ at \in [Place -> {Cut, Absent} \cup 1..MaxCalls]
  /\ rules \subseteq Rule
  /\ ~bucket => (\A x \in Place : at[x] = Absent) /\ rules = {}
  /\ newest \in [Key -> 0..MaxCalls]
  /\ waived \subseteq Key

CallsOK ==
  /\ call \in [Client -> Call]
  /\ calls \in 1..MaxCalls
  /\ answer \in [Client -> {"none", "ok", "error", "notFound"}]
  /\ \A c \in Client : /\ CallOK(call[c])
                       /\ call[c].step = "putRules" => bucket

TypeInv == StoreOK /\ CallsOK

(***************************************************************************)
(* Types.                                                                  *)
(***************************************************************************)
\* A client that has made no call.
LEMMA IdleOK == CallOK(Idle)
<1>1. Idle \in Call
  <2>1. 0 \in 0..MaxCalls /\ 0 \in Nat
    BY AdapterAssumption
  <2>2. "none" \in Ops \cup {"none"} /\ "idle" \in StepName
    BY DEF StepName
  <2>3. FALSE \in BOOLEAN /\ {} \in SUBSET Key /\ {} \in SUBSET Rule
    BY Zenon
  <2> QED  BY <2>1, <2>2, <2>3, Zenon DEF Idle, Call
<1>2. /\ Idle.op = "none" /\ Idle.step = "idle" /\ Idle.todo = {} /\ Idle.page = {}
      /\ ~Idle.more /\ <<"none", "idle">> \in Stage
  BY DEF Idle, Stage
<1> QED  BY <1>1, <1>2 DEF CallOK

\* A call goes on as a call of the declared form.
LEMMA GoOK ==
  ASSUME CallsOK, NEW c \in Client, NEW next, Go(c, next), CallOK(next), bucket => bucket',
         next.step = "putRules" => bucket', UNCHANGED calls,
         answer' \in [Client -> {"none", "ok", "error", "notFound"}]
  PROVE  CallsOK'
<1>1. next \in Call
  BY DEF CallOK
<1>2. call' \in [Client -> Call]
  BY <1>1 DEF CallsOK, Go
<1>3. \A d \in Client : call'[d] = IF d = c THEN next ELSE call[d]
  BY DEF CallsOK, Go
<1>4. ASSUME NEW d \in Client
      PROVE  CallOK(call'[d]) /\ (call'[d].step = "putRules" => bucket')
  BY <1>3 DEF CallsOK
<1> QED  BY <1>2, <1>4 DEF CallsOK

\* The end of a call.
LEMMA AnswerOK ==
  ASSUME CallsOK, NEW c \in Client, bucket => bucket', UNCHANGED calls,
         NEW how \in {"none", "ok", "error", "notFound"}, Answer(c, how)
  PROVE  CallsOK'
<1>1. Go(c, Idle) /\ Idle.step # "putRules"
  BY DEF Answer, Idle
<1>2. answer' \in [Client -> {"none", "ok", "error", "notFound"}]
  BY DEF Answer, CallsOK
<1> QED  BY <1>1, <1>2, IdleOK, GoOK

\* y is the call x, apart from the fields that are named.
Same(x, y, fields) ==
  /\ y \in Call
  /\ "op" \in fields \/ y.op = x.op
  /\ "keys" \in fields \/ y.keys = x.keys
  /\ "limit" \in fields \/ y.limit = x.limit
  /\ "step" \in fields \/ y.step = x.step
  /\ "file" \in fields \/ y.file = x.file
  /\ "page" \in fields \/ y.page = x.page
  /\ "todo" \in fields \/ y.todo = x.todo
  /\ "marker" \in fields \/ y.marker = x.marker
  /\ "more" \in fields \/ y.more = x.more
  /\ "spent" \in fields \/ y.spent = x.spent
  /\ "read" \in fields \/ y.read = x.read
  /\ "found" \in fields \/ y.found = x.found
  /\ "met" \in fields \/ y.met = x.met

\* A change of some fields of a call.
LEMMA SetStep ==
  ASSUME NEW x \in Call, NEW s \in StepName
  PROVE  LET y == [x EXCEPT !.step = s] IN
         Same(x, y, {"step"}) /\ y.step = s
BY DEF Call, Same

LEMMA SetStepSpent ==
  ASSUME NEW x \in Call, NEW s \in StepName, NEW b \in BOOLEAN
  PROVE  LET y == [x EXCEPT !.step = s, !.spent = b] IN
         Same(x, y, {"step", "spent"}) /\ y.step = s /\ y.spent = b
BY DEF Call, Same

LEMMA SetStepRead ==
  ASSUME NEW x \in Call, NEW s \in StepName, NEW R \in SUBSET Rule
  PROVE  LET y == [x EXCEPT !.step = s, !.read = R] IN
         Same(x, y, {"step", "read"}) /\ y.step = s /\ y.read = R
BY DEF Call, Same

LEMMA SetTodo ==
  ASSUME NEW x \in Call, NEW S, S \subseteq Key
  PROVE  LET y == [x EXCEPT !.todo = S] IN
         Same(x, y, {"todo"}) /\ y.todo = S
BY DEF Call, Same

\* A call that goes on.
LEMMA GoesOK ==
  ASSUME NEW x, CallOK(x), x.op # "none", NEW y \in Call, y.op = x.op, y.keys = x.keys,
         y.file = x.file, <<y.op, y.step>> \in Stage,
         y.step \in {"copy", "delete"} => y.page \subseteq Touches(x),
         y.todo \subseteq IF x.op = "copy" THEN x.keys ELSE y.page,
         y.todo # {} => y.step = "copy",
         y.more => x.more \/ x.op \in {"trashDir", "deleteDir", "list"}
  PROVE  CallOK(y)
BY DEF CallOK, Touches


\* Every step leaves the bucket, its files and its rules well formed.
LEMMA StoreType ==
  ASSUME TypeInv, [Next]_vars
  PROVE  StoreOK'
<1> SUFFICES ASSUME NEW c \in Client, Begin(c) \/ Progress(c) \/ ReaderLeaves(c) \/ Mishap(c)
             PROVE  StoreOK'
  <2>1. CASE UNCHANGED vars
    BY <2>1 DEF vars, store, history, StoreOK, TypeInv
  <2> QED  BY <2>1 DEF Next
<1>a. CallOK(call[c]) /\ call[c] \in Call /\ (call[c].step = "putRules" => bucket)
  BY DEF TypeInv, CallsOK, CallOK
<1>b. \A k \in Key : \A area \in {"live", "trash"} : <<area, k>> \in Place
  BY DEF Place
<1>c. ASSUME UNCHANGED <<store, newest, waived>>
      PROVE  StoreOK'
  BY <1>c DEF StoreOK, TypeInv, store
<1>1. CASE Put(c)
  <2>1. PICK k \in call[c].keys :
       IF ~call[c].spent
       THEN /\ at' = [at EXCEPT ![<<"live", k>>] = call[c].file]
            /\ newest' = [newest EXCEPT ![k] = call[c].file]
            /\ waived' = waived \ {k}
       ELSE /\ at' = [at EXCEPT ![<<"live", k>>] = Cut]
            /\ waived' = waived \cup {k}
            /\ UNCHANGED newest
    BY <1>1 DEF Put
  <2>2. k \in Key /\ call[c].file \in 1..MaxCalls
    BY <1>1, <1>a, AdapterAssumption DEF Put, CallOK, Call, Idle, Absent
  <2>3. at' \in [Place -> {Cut, Absent} \cup 1..MaxCalls]
    BY <1>b, <2>1, <2>2 DEF TypeInv, StoreOK
  <2>4. newest' \in [Key -> 0..MaxCalls] /\ waived' \subseteq Key
    BY <2>1, <2>2 DEF TypeInv, StoreOK
  <2> QED  BY <1>1, <2>3, <2>4 DEF Put, TypeInv, StoreOK
<1>2. CASE PutFails(c)
  <2>1. PICK k \in call[c].keys :
       \/ UNCHANGED <<at, newest, waived>>
       \/ /\ at' = [at EXCEPT ![<<"live", k>>] = IF call[c].spent THEN Cut ELSE call[c].file]
          /\ IF call[c].spent
             THEN waived' = waived \cup {k} /\ UNCHANGED newest
             ELSE waived' = waived \ {k} /\ newest' = [newest EXCEPT ![k] = call[c].file]
    BY <1>2 DEF PutFails
  <2>2. k \in Key /\ call[c].file \in 1..MaxCalls
    BY <1>2, <1>a, AdapterAssumption DEF PutFails, CallOK, Call, Idle, Absent
  <2>3. at' \in [Place -> {Cut, Absent} \cup 1..MaxCalls]
    BY <1>b, <2>1, <2>2 DEF TypeInv, StoreOK
  <2>4. newest' \in [Key -> 0..MaxCalls] /\ waived' \subseteq Key
    BY <2>1, <2>2 DEF TypeInv, StoreOK
  <2> QED  BY <1>2, <2>3, <2>4 DEF PutFails, TypeInv, StoreOK
<1>3. CASE CreateBucket(c)
  BY <1>3 DEF CreateBucket, history, StoreOK, TypeInv
<1>4. CASE PutRules(c)
  <2>1. call[c].read \subseteq Rule /\ RulesOf[c] \subseteq Rule /\ bucket
    BY <1>4, <1>a, AdapterAssumption DEF PutRules, Call
  <2>2. rules' \subseteq Rule
    BY <1>4, <2>1 DEF PutRules, AllRules, Missing
  <2> QED  BY <1>4, <2>1, <2>2 DEF PutRules, StoreOK, TypeInv
<1>5. CASE CopyObject(c)
  <2>1. PICK k \in call[c].todo :
          IF at[Source(c, k)] = Absent THEN UNCHANGED <<at, newest, waived>>
          ELSE /\ at' = [at EXCEPT ![Target(c, k)] = at[Source(c, k)]]
               /\ Arrives(c, k, at[Source(c, k)])
    BY <1>5 DEF CopyObject
  <2>2. k \in Key /\ Twin[k] \in Key
    BY <1>a, AdapterAssumption DEF Call
  <2>3. Source(c, k) \in Place /\ Target(c, k) \in Place
    BY <1>b, <2>2 DEF Source, Target
  <2>4. at[Source(c, k)] \in {Cut, Absent} \cup 1..MaxCalls
    BY <2>3 DEF TypeInv, StoreOK
  <2>5. at' \in [Place -> {Cut, Absent} \cup 1..MaxCalls]
    BY <2>1, <2>3, <2>4 DEF TypeInv, StoreOK
  <2>6. newest' \in [Key -> 0..MaxCalls] /\ waived' \subseteq Key
    BY <2>1, <2>2, <2>4 DEF Arrives, TypeInv, StoreOK
  <2> QED  BY <1>5, <2>5, <2>6 DEF CopyObject, StoreOK, TypeInv
<1>6. ASSUME NEW K, at' = Without(c, K), waived' = waived \cup GivenUp(c),
             UNCHANGED <<bucket, rules, newest>>
      PROVE  StoreOK'
  <2>1. at' \in [Place -> {Cut, Absent} \cup 1..MaxCalls]
    BY <1>6 DEF Without, TypeInv, StoreOK
  <2>2. waived' \subseteq Key
    BY <1>6, <1>a DEF GivenUp, Call, TypeInv, StoreOK
  <2>3. ~bucket => \A x \in Place : at'[x] = Absent
    BY <1>6 DEF Without, TypeInv, StoreOK
  <2> QED  BY <1>6, <2>1, <2>2, <2>3 DEF TypeInv, StoreOK
<1>7. CASE DeleteObjects(c)
  BY <1>6, <1>7 DEF DeleteObjects
<1>8. CASE DeleteFails(c)
  BY SMTT(60), <1>6, <1>8 DEF DeleteFails
<1>9. CASE Begin(c)
  BY ZenonT(60), <1>c, <1>9 DEF Begin
<1>10. CASE NoSuchBucket(c) \/ BucketMissing(c) \/ BucketExists(c) \/ ReadRules(c)
              \/ RulesFail(c) \/ CopyFails(c) \/ CopiesSettled(c)
  BY <1>c, <1>10 DEF NoSuchBucket, BucketMissing, BucketExists, ReadRules, RulesFail,
                     CopyFails, CopiesSettled, history
<1>11. CASE ListPage(c) \/ Listed(c) \/ RequestFails(c) \/ Missed(c) \/ Read(c)
              \/ StreamEnds(c) \/ ReaderLeaves(c) \/ StreamTimesOut(c) \/ Kill(c)
  BY <1>c, <1>11 DEF ListPage, Listed, RequestFails, Missed, Read, StreamEnds, ReaderLeaves,
                     StreamTimesOut, Kill, history
<1> QED  BY <1>1, <1>2, <1>3, <1>4, <1>5, <1>7, <1>8, <1>9, <1>10, <1>11
         DEF Progress, Mishap
\* What the beginning of a call, as x asks for it, changes.
Begun(c, x) ==
  /\ x.op \in Ops /\ x.keys \in SUBSET Key /\ x.limit \in Nat
  /\ call' \in [Client -> Call]
  /\ call'[c].op = x.op /\ call'[c].keys = x.keys /\ call'[c].limit = x.limit
  /\ call'[c].step = FirstStep(x.op) /\ call'[c].file = calls + 1
  /\ call'[c].page = x.keys
  /\ call'[c].todo = IF FirstStep(x.op) = "copy" THEN x.keys ELSE {}
  /\ call'[c].marker = 0 /\ ~call'[c].more /\ call'[c].read = {} /\ call'[c].found = {}
  /\ call'[c].met = Touches(x) \cap UNION {Touches(call[e]) : e \in Rivals(c)}
  /\ \A d \in Client \ {c} :
       /\ Same(call[d], call'[d], {"met"})
       /\ call'[d].met = IF call[d].op # "none" /\ x.op \in Writers
                         THEN call[d].met \cup (Touches(x) \cap Touches(call[d]))
                         ELSE call[d].met
       /\ call[d].op = "none" => call'[d] = call[d]
  /\ crossed' = (crossed \/ (x.op = "configure" /\
                   \E d \in Client \ {c} : call[d].op = "configure"))

\* What the first step of a call leaves behind.
LEMMA BeginEffect ==
  ASSUME TypeInv, NEW c \in Client, Begin(c)
  PROVE  \E x \in CallsOf[c] : Begun(c, x)
<1> DEFINE New(x) == [Idle EXCEPT !.op = x.op, !.keys = x.keys, !.limit = x.limit,
                        !.step = FirstStep(x.op), !.file = calls + 1,
                        !.page = x.keys, !.todo = IF FirstStep(x.op) = "copy" THEN x.keys ELSE {},
                        !.met = Touches(x) \cap UNION {Touches(call[e]) : e \in Rivals(c)}]
           Met(x, d) == call[d].met \cup (Touches(x) \cap Touches(call[d]))
           Old(x, d) == [call[d] EXCEPT !.met = Met(x, d)]
<1>1. PICK x \in CallsOf[c] :
        /\ call' = [d \in Client |-> IF d = c THEN New(x)
                                     ELSE IF call[d].op # "none" /\ x.op \in Writers THEN Old(x, d)
                                     ELSE call[d]]
        /\ crossed' = (crossed \/ (x.op = "configure" /\
                            \E d \in Client \ {c} : call[d].op = "configure"))
  BY ZenonT(60) DEF Begin
<1>2. /\ x \in [op : Ops, keys : SUBSET Key, limit : Nat]
      /\ x.op \in Ops /\ x.keys \in SUBSET Key /\ x.limit \in Nat
  BY AdapterAssumption
<1>3. calls + 1 \in 0..MaxCalls
  <2>1. calls \in 1..MaxCalls /\ calls < MaxCalls
    BY DEF Begin, TypeInv, CallsOK
  <2> QED  BY <2>1, AdapterAssumption
<1>4. FirstStep(x.op) \in StepName
  BY <1>2 DEF FirstStep, StepName, Ops, Writers, Moves
<1>5. Touches(x) \subseteq Key
  BY <1>2, AdapterAssumption DEF Touches
<1>6. PICK s \in StepName, T \in SUBSET Key, M \in SUBSET Key, n \in 0..MaxCalls :
        /\ s = FirstStep(x.op) /\ n = calls + 1
        /\ T = (IF FirstStep(x.op) = "copy" THEN x.keys ELSE {})
        /\ M = Touches(x) \cap UNION {Touches(call[e]) : e \in Rivals(c)}
  <2>1. (IF FirstStep(x.op) = "copy" THEN x.keys ELSE {}) \in SUBSET Key
    BY <1>2
  <2>2. Touches(x) \cap UNION {Touches(call[e]) : e \in Rivals(c)} \in SUBSET Key
    BY <1>5
  <2> QED  BY <1>3, <1>4, <2>1, <2>2
<1>7. PICK new : new = New(x)
  OBVIOUS
<1>8. /\ new.op = x.op /\ new.keys = x.keys /\ new.limit = x.limit /\ new.step = s
      /\ new.file = n /\ new.page = x.keys /\ new.todo = T /\ new.met = M
      /\ new.marker = 0 /\ new.more = FALSE /\ new.spent = FALSE /\ new.read = {} /\ new.found = {}
      /\ new = [op |-> new.op, keys |-> new.keys, limit |-> new.limit, step |-> new.step,
                file |-> new.file, page |-> new.page, todo |-> new.todo, marker |-> new.marker,
                more |-> new.more, spent |-> new.spent, read |-> new.read, found |-> new.found,
                met |-> new.met]
  BY <1>6, <1>7 DEF Idle
<1>9. new \in Call
  <2>1. new.more \in BOOLEAN /\ new.spent \in BOOLEAN
    BY <1>8, Zenon
  <2>2. /\ new.op \in Ops \cup {"none"} /\ new.marker \in Nat /\ new.read \in SUBSET Rule
        /\ new.found \in SUBSET Key
    BY <1>2, <1>8
  <2> QED  BY <1>2, <1>6, <1>8, <2>1, <2>2 DEF Call
<1>10. ASSUME NEW d \in Client
       PROVE  Old(x, d) \in Call /\ Same(call[d], Old(x, d), {"met"}) /\ Old(x, d).met = Met(x, d)
  <2>1. call[d] \in Call
    BY DEF TypeInv, CallsOK
  <2>2. Met(x, d) \in SUBSET Key
    BY <1>5, <2>1 DEF Call
  <2> HIDE DEF Met
  <2>3. PICK y \in Call, K \in SUBSET Key : y = call[d] /\ K = Met(x, d)
    BY <2>1, <2>2
  <2>4. /\ [y EXCEPT !.met = K] \in Call /\ Same(y, [y EXCEPT !.met = K], {"met"})
        /\ [y EXCEPT !.met = K].met = K
    BY DEF Call, Same
  <2> QED  BY <2>3, <2>4
<1> HIDE DEF New, Old
<1>11. call' \in [Client -> Call]
  <2>1. \A d \in Client : call[d] \in Call
    BY DEF TypeInv, CallsOK
  <2> QED  BY <1>1, <1>7, <1>9, <1>10, <2>1
<1>12. call'[c] = new
  BY <1>1, <1>7
<1>13. ASSUME NEW d \in Client \ {c}
       PROVE  /\ Same(call[d], call'[d], {"met"})
              /\ call'[d].met = IF call[d].op # "none" /\ x.op \in Writers THEN Met(x, d)
                                ELSE call[d].met
              /\ call[d].op = "none" => call'[d] = call[d]
  <2>1. Same(call[d], call[d], {"met"})
    BY DEF Same, TypeInv, CallsOK
  <2> QED  BY <1>1, <1>10, <2>1
<1>14. /\ call'[c].op = x.op /\ call'[c].keys = x.keys /\ call'[c].limit = x.limit
       /\ call'[c].step = FirstStep(x.op) /\ call'[c].file = calls + 1
       /\ call'[c].page = x.keys
       /\ call'[c].todo = IF FirstStep(x.op) = "copy" THEN x.keys ELSE {}
       /\ call'[c].marker = 0 /\ call'[c].read = {} /\ call'[c].found = {}
       /\ call'[c].met = Touches(x) \cap UNION {Touches(call[e]) : e \in Rivals(c)}
  BY <1>6, <1>8, <1>12
<1>15. ~call'[c].more
  BY <1>8, <1>12, Zenon
<1> QED  BY ZenonT(60), <1>1, <1>2, <1>11, <1>13, <1>14, <1>15 DEF Begun

(***************************************************************************)
(* Pages of a listing.                                                     *)
(***************************************************************************)
\* A finite set of keys that is not empty has a last one.
LEMMA LastExists ==
  ASSUME NEW K \in SUBSET Nat, IsFiniteSet(K), K # {}
  PROVE  \E k \in K : \A i \in K : i <= k
<1> DEFINE After(k) == {i \in K : i > k}
           Sizes == {Cardinality(After(k)) : k \in K}
<1>0. \A i \in K : i \in Nat
  OBVIOUS
<1>1. \A k \in K : IsFiniteSet(After(k)) /\ Cardinality(After(k)) \in Nat
  BY FS_Subset, FS_CardinalityType
<1>2. Sizes \subseteq Nat /\ Sizes # {}
  BY <1>1
<1> HIDE DEF Sizes
<1>3. PICK n \in Sizes : \A m \in Sizes : ~ (<<m, n>> \in OpToRel(<, Nat))
  BY <1>2, WFMin, NatLessThanWellFounded
<1>4. \A m \in Sizes : ~ (m < n)
  BY <1>2, <1>3 DEF OpToRel
<1>5. PICK k \in K : n = Cardinality(After(k))
  BY DEF Sizes
<1>6. ASSUME NEW i \in K, i > k
      PROVE  FALSE
  <2>0. ASSUME NEW j \in K, j > i
        PROVE  j > k
    BY <1>0, <1>5, <1>6, <2>0
  <2>1. After(i) \subseteq After(k)
    BY <2>0
  <2>a. i \in After(k) /\ i \notin After(i)
    BY <1>0, <1>6
  <2>2. Cardinality(After(i)) < Cardinality(After(k))
    <3>1. Cardinality(After(i)) <= Cardinality(After(k)) /\ After(i) # After(k)
      BY <2>1, <2>a, <1>1, <1>5, FS_Subset
    <3>2. Cardinality(After(k)) # Cardinality(After(i))
      BY <2>1, <3>1, <1>1, <1>5, FS_Subset
    <3> QED  BY <3>1, <3>2, <1>1, <1>5
  <2>3. Cardinality(After(i)) \in Sizes
    BY DEF Sizes
  <2> QED  BY <1>4, <1>5, <2>2, <2>3
<1> QED  BY <1>6

LEMMA LastOfPage ==
  ASSUME NEW K \in SUBSET Nat, IsFiniteSet(K), NEW marker \in Nat
  PROVE  /\ Last(K, marker) \in Nat
         /\ K = {} => Last(K, marker) = marker
         /\ K # {} => Last(K, marker) \in K
         /\ \A i \in K : i <= Last(K, marker)
BY LastExists DEF Last

\* What S3 returns is the beginning of what is there.
LEMMA PageIsFirst ==
  ASSUME NEW K \in SUBSET Nat, IsFiniteSet(K), NEW n \in Int
  PROVE  /\ FirstOf(n, K) \subseteq K
         /\ \A k \in FirstOf(n, K), i \in K : i < k => i \in FirstOf(n, K)
         /\ IsFiniteSet(FirstOf(n, K))
         /\ n \in Nat => Cardinality(FirstOf(n, K)) <= n
<1> DEFINE Before(k) == {i \in K : i < k}
           page == FirstOf(n, K)
<1>0. \A i \in K : i \in Nat
  OBVIOUS
<1>1. \A k \in K : IsFiniteSet(Before(k)) /\ Cardinality(Before(k)) \in Nat
  BY FS_Subset, FS_CardinalityType
<1>2. page \subseteq K /\ \A k \in K : k \in page <=> Cardinality(Before(k)) < n
  BY DEF FirstOf
<1>3. ASSUME NEW k \in page, NEW i \in K, i < k
      PROVE  i \in page
  <2>0. k \in K
    BY <1>2
  <2>1. \A j \in Before(i) : j \in Before(k)
    BY <1>0, <1>3, <2>0
  <2>2. Cardinality(Before(i)) <= Cardinality(Before(k))
    BY <2>0, <2>1, <1>1, FS_Subset
  <2> QED  BY <1>0, <1>1, <1>2, <2>0, <2>2
<1>4. IsFiniteSet(page) /\ Cardinality(page) \in Nat
  BY <1>2, FS_Subset, FS_CardinalityType
<1>5. ASSUME n \in Nat
      PROVE  Cardinality(page) <= n
  <2>1. CASE page = {}
    BY <1>5, <2>1, FS_EmptySet
  <2>2. CASE page # {}
    <3> HIDE DEF page
    <3>1. PICK k \in page : \A i \in page : i <= k
      BY <1>2, <1>4, <2>2, LastExists
    <3>2. page = Before(k) \cup {k} /\ k \notin Before(k)
      <4>0. k \in K /\ page \subseteq K
        BY <1>2
      <4>1. \A j \in page : j \in Before(k) \/ j = k
        BY <1>0, <3>1, <4>0
      <4>2. \A j \in Before(k) : j \in page
        BY <1>3
      <4>3. k \notin Before(k)
        BY <1>0, <4>0
      <4> QED  BY <4>1, <4>2, <4>3
    <3>3. Cardinality(page) = Cardinality(Before(k)) + 1
      BY <1>1, <1>2, <3>2, FS_AddElement
    <3> QED  BY <1>1, <1>2, <1>5, <3>3
  <2> QED  BY <2>1, <2>2
<1> QED  BY <1>2, <1>3, <1>4, <1>5

\* The beginning of a set of keys is determined by its length.
LEMMA FirstIsUnique ==
  ASSUME NEW K \in SUBSET Nat, IsFiniteSet(K), NEW n \in Nat, NEW D \in SUBSET K,
         \A k \in D, i \in K : i < k => i \in D,
         Cardinality(D) = n \/ (D = K /\ Cardinality(D) <= n)
  PROVE  D = FirstOf(n, K)
<1> DEFINE Before(k) == {i \in K : i < k}
<1>0. \A i \in K : i \in Nat
  OBVIOUS
<1>1. \A k \in K : IsFiniteSet(Before(k)) /\ Cardinality(Before(k)) \in Nat
  BY FS_Subset, FS_CardinalityType
<1>2. IsFiniteSet(D) /\ Cardinality(D) \in Nat
  BY FS_Subset, FS_CardinalityType
<1>3. \A k \in K : k \in FirstOf(n, K) <=> Cardinality(Before(k)) < n
  BY DEF FirstOf
<1>4. ASSUME NEW k \in D
      PROVE  Cardinality(Before(k)) < n
  <2>0. k \notin Before(k)
    BY <1>0, <1>4
  <2>1. Before(k) \in SUBSET D /\ Before(k) # D
    BY <1>4, <2>0
  <2>2. Cardinality(Before(k)) <= Cardinality(D) /\ Cardinality(Before(k)) # Cardinality(D)
    BY <1>2, <2>1, FS_Subset
  <2> QED  BY <1>1, <1>2, <2>2
<1>5. ASSUME NEW k \in K \ D
      PROVE  ~(Cardinality(Before(k)) < n)
  <2>1. D \in SUBSET Before(k)
    <3>1. ASSUME NEW d \in D
          PROVE  d < k
      BY <1>0, <1>5
    <3> QED  BY <3>1
  <2>2. Cardinality(D) <= Cardinality(Before(k))
    BY <1>1, <2>1, FS_Subset
  <2> QED  BY <1>1, <1>2, <1>5, <2>2
<1>6. FirstOf(n, K) \subseteq K
  BY DEF FirstOf
<1> QED  BY <1>3, <1>4, <1>5, <1>6

\* The files of the directory are finitely many.
LEMMA PresentOK ==
  ASSUME NEW marker \in Nat
  PROVE  Present(marker) \in SUBSET Dir /\ Dir \in SUBSET Nat /\ IsFiniteSet(Present(marker))
<1>1. Present(marker) \in SUBSET Key /\ Dir \in SUBSET Nat
  BY AdapterAssumption DEF Present
<1>2. IsFiniteSet(Present(marker))
  BY <1>1, AdapterAssumption, FS_Subset
<1> QED  BY <1>1, <1>2 DEF Present


\* Every step leaves the calls well formed.
LEMMA CallsType ==
  ASSUME TypeInv, [Next]_vars
  PROVE  CallsOK'
<1> SUFFICES ASSUME NEW c \in Client, Begin(c) \/ Progress(c) \/ ReaderLeaves(c) \/ Mishap(c)
             PROVE  CallsOK'
  <2>1. CASE UNCHANGED vars
    BY <2>1 DEF vars, store, CallsOK, TypeInv
  <2> QED  BY <2>1 DEF Next
<1>a. CallOK(call[c]) /\ call[c] \in Call /\ (call[c].step = "putRules" => bucket)
  BY DEF TypeInv, CallsOK, CallOK
<1>b. ASSUME bucket => bucket', UNCHANGED calls,
             \E how \in {"none", "ok", "error", "notFound"} : Answer(c, how)
      PROVE  CallsOK'
  BY <1>b, AnswerOK DEF TypeInv
<1>c. ASSUME NEW next, Go(c, next), CallOK(next), bucket => bucket',
             next.step = "putRules" => bucket', UNCHANGED <<answer, calls>>
      PROVE  CallsOK'
  BY <1>c, GoOK DEF TypeInv, CallsOK
<1>1. CASE Put(c) \/ PutFails(c) \/ BucketMissing(c) \/ PutRules(c) \/ RulesFail(c)
             \/ DeleteFails(c) \/ Listed(c) \/ RequestFails(c) \/ Missed(c)
  BY <1>b, <1>1 DEF Put, PutFails, BucketMissing, PutRules, RulesFail, DeleteFails, Listed,
                    RequestFails, Missed, store
<1>2. CASE Kill(c)
  BY <1>b, <1>2 DEF Kill, Answer, store
<1>3. CASE StreamEnds(c) \/ StreamTimesOut(c)
  BY <1>c, <1>3, IdleOK DEF StreamEnds, StreamTimesOut, store, Idle
<1>4. CASE ReaderLeaves(c)
  <2> DEFINE next == [call[c] EXCEPT !.step = "left"]
  <2>a. "left" \in StepName
    BY DEF StepName
  <2>1. Same(call[c], next, {"step"}) /\ next.step = "left"
    BY <1>a, SetStep, <2>a
  <2> HIDE DEF next
  <2>2. call[c].op = "get" /\ call[c].todo = {} /\ <<"get", "left">> \in Stage
    BY <1>4, <1>a DEF ReaderLeaves, CallOK, Stage
  <2>3. CallOK(next)
    BY <1>a, <2>1, <2>2, GoesOK DEF Same
  <2> QED  BY <1>4, <1>c, <2>1, <2>3 DEF ReaderLeaves, store, next
<1>5. CASE NoSuchBucket(c)
  <2> DEFINE next == [call[c] EXCEPT !.step = "bucket", !.spent = TRUE]
  <2>a. "bucket" \in StepName
    BY DEF StepName
  <2>1. Same(call[c], next, {"step", "spent"}) /\ next.step = "bucket"
    BY <1>a, SetStepSpent, <2>a
  <2> HIDE DEF next
  <2>2. call[c].op # "none" /\ call[c].todo = {} /\ <<call[c].op, "bucket">> \in Stage
    BY <1>5, <1>a DEF NoSuchBucket, CallOK, Stage
  <2>3. CallOK(next)
    BY <1>a, <2>1, <2>2, GoesOK DEF Same
  <2> QED  BY <1>5, <1>c, <2>1, <2>3 DEF NoSuchBucket, store, next
<1>6. CASE CreateBucket(c) \/ BucketExists(c)
  <2> DEFINE s == FirstStep(call[c].op)
             next == [call[c] EXCEPT !.step = s]
  <2>1. /\ call[c].op \in {"create", "configure"} /\ call[c].todo = {}
        /\ <<call[c].op, s>> \in Stage /\ s \in {"put", "rules"}
    BY <1>6, <1>a DEF CreateBucket, BucketExists, CallOK, Stage, FirstStep
  <2>a. s \in StepName
    BY <2>1 DEF StepName
  <2> HIDE DEF s
  <2>2. Same(call[c], next, {"step"}) /\ next.step = s
    BY <1>a, <2>a, SetStep
  <2> HIDE DEF next
  <2>3. CallOK(next)
    BY <1>a, <2>1, <2>2, GoesOK DEF Same
  <2>4. next.step # "putRules"
    BY <2>1, <2>2
  <2>5. \/ Answer(c, "error") /\ UNCHANGED <<bucket, calls>>
        \/ Go(c, next) /\ UNCHANGED <<answer, calls>> /\ (bucket => bucket')
    BY <1>6 DEF CreateBucket, BucketExists, store, next, s
  <2> QED  BY <1>b, <1>c, <2>3, <2>4, <2>5
<1>7. CASE ReadRules(c)
  <2> DEFINE next == [call[c] EXCEPT !.step = "putRules", !.read = rules]
  <2>a. "putRules" \in StepName
    BY DEF StepName
  <2>b. rules \in SUBSET Rule
    BY DEF TypeInv, StoreOK
  <2>1. Same(call[c], next, {"step", "read"}) /\ next.step = "putRules"
    BY ZenonT(60), <1>a, SetStepRead, <2>a, <2>b
  <2> HIDE DEF next
  <2>2. call[c].op # "none" /\ call[c].todo = {} /\ <<call[c].op, "putRules">> \in Stage
    BY <1>7, <1>a DEF ReadRules, CallOK, Stage
  <2>3. CallOK(next)
    BY <1>a, <2>1, <2>2, GoesOK DEF Same
  <2>4. \/ Answer(c, "ok")
        \/ Go(c, next) /\ UNCHANGED answer
    BY <1>7 DEF ReadRules, next
  <2>5. bucket' /\ UNCHANGED calls
    BY <1>7 DEF ReadRules, store
  <2> QED  BY <1>b, <1>c, <2>3, <2>4, <2>5
<1>8. CASE CopyObject(c)
  <2>1. PICK k \in call[c].todo : Go(c, [call[c] EXCEPT !.todo = @ \ {k}])
    BY <1>8 DEF CopyObject
  <2> DEFINE S == call[c].todo \ {k}
             next == [call[c] EXCEPT !.todo = S]
  <2>2. Same(call[c], next, {"todo"}) /\ next.todo = S
    BY <1>a, SetTodo DEF Call
  <2>3. Go(c, next)
    BY <2>1
  <2> HIDE DEF next
  <2>4. CallOK(next)
    BY <1>8, <1>a, <2>2, GoesOK DEF Same, CopyObject, CallOK, Stage
  <2> QED  BY <1>8, <1>c, <2>2, <2>3, <2>4 DEF CopyObject, Same
<1>9. CASE CopyFails(c)
  <2>1. PICK k \in call[c].todo : Go(c, [call[c] EXCEPT !.todo = @ \ {k}, !.met = @ \cup {k}])
    BY <1>9 DEF CopyFails
  <2>2. PICK S \in SUBSET Key, T \in SUBSET Key :
               S = call[c].todo \ {k} /\ T = call[c].met \cup {k}
    BY <1>a DEF Call
  <2>a. PICK x \in Call : x = call[c]
    BY <1>a
  <2> DEFINE next == [x EXCEPT !.todo = S, !.met = T]
  <2>3. Same(x, next, {"todo", "met"}) /\ next.todo = S
    BY DEF Call, Same
  <2>4. Go(c, next)
    BY <2>1, <2>2, <2>a
  <2> HIDE DEF next
  <2>5. CallOK(next)
    BY <1>9, <1>a, <2>2, <2>3, <2>a, GoesOK DEF Same, CopyFails, CallOK, Stage
  <2> QED  BY <1>9, <1>c, <2>3, <2>4, <2>5, <2>a DEF CopyFails, Same, store
<1>10. CASE CopiesSettled(c)
  <2> DEFINE next == [call[c] EXCEPT !.step = "delete"]
  <2>a. "delete" \in StepName
    BY DEF StepName
  <2>1. Same(call[c], next, {"step"}) /\ next.step = "delete"
    BY <1>a, SetStep, <2>a
  <2> HIDE DEF next
  <2>2. /\ call[c].op # "none" /\ call[c].todo = {}
        /\ call[c].op # "copy" => <<call[c].op, "delete">> \in Stage
        /\ call[c].page \subseteq Touches(call[c])
    BY <1>10, <1>a DEF CopiesSettled, Settled, CallOK, Stage
  <2>3. call[c].op # "copy" => CallOK(next)
    BY <1>a, <2>1, <2>2, GoesOK DEF Same
  <2>4. \/ Answer(c, "ok")
        \/ call[c].op # "copy" /\ Go(c, next) /\ UNCHANGED answer
    BY <1>10 DEF CopiesSettled, next
  <2>5. UNCHANGED <<bucket, calls>>
    BY <1>10 DEF CopiesSettled, store
  <2> QED  BY <1>b, <1>c, <2>1, <2>3, <2>4, <2>5
<1>11. CASE DeleteObjects(c)
  <2>1. PICK left \in SUBSET call[c].page : Truncated(c, left)
    BY <1>11 DEF DeleteObjects
  <2>2. PICK S \in SUBSET Key, T \in SUBSET Key : S = {} /\ T = call[c].met \cup left
    BY <1>a DEF Call
  <2>b. PICK x \in Call : x = call[c]
    BY <1>a
  <2> DEFINE next == [x EXCEPT !.step = "list", !.page = S, !.met = T]
  <2>a. "list" \in StepName
    BY DEF StepName
  <2>3. Same(x, next, {"step", "page", "met"}) /\ next.step = "list"
    BY <2>a DEF Call, Same
  <2>4. \/ Answer(c, "ok")
        \/ call[c].more /\ Go(c, next) /\ UNCHANGED answer
    BY <2>1, <2>2, <2>b DEF Truncated, MorePages
  <2> HIDE DEF next
  <2>5. ASSUME call[c].more
        PROVE  CallOK(next)
    <3>1. call[c].op # "none" /\ call[c].todo = {} /\ <<call[c].op, "list">> \in Stage
      BY <1>11, <1>a, <2>5 DEF DeleteObjects, CallOK, Stage
    <3> QED  BY <1>a, <2>3, <2>b, <3>1, GoesOK DEF Same
  <2>6. UNCHANGED <<bucket, calls>>
    BY <1>11 DEF DeleteObjects
  <2> QED  BY <1>b, <1>c, <2>3, <2>4, <2>5, <2>6
<1>12. CASE ListPage(c)
  <2> DEFINE rest == Present(call[c].marker)
             first == FirstOf(PageLength(call[c]), rest)
  <2>1. /\ first \subseteq Dir /\ first \subseteq Key /\ Last(first, call[c].marker) \in Nat
        /\ (first # rest) \in BOOLEAN /\ call[c].found \cup first \subseteq Key
    <3>1. rest \in SUBSET Dir /\ Dir \in SUBSET Nat /\ IsFiniteSet(rest)
      BY <1>a, PresentOK DEF Call
    <3>2. first \subseteq rest
      BY DEF FirstOf
    <3>3. first \in SUBSET Nat /\ IsFiniteSet(first)
      BY <3>1, <3>2, FS_Subset
    <3>4. Last(first, call[c].marker) \in Nat
      BY <1>a, <3>3, LastOfPage DEF Call
    <3> QED  BY <1>a, <3>1, <3>2, <3>4, AdapterAssumption DEF Call
  <2> HIDE DEF first, rest
  <2>a. PICK x \in Call : x = call[c]
    BY <1>a
  <2>b. PICK page \in SUBSET Key, m \in Nat, b \in BOOLEAN, found \in SUBSET Key :
          /\ page = first /\ m = Last(first, call[c].marker) /\ b = (first # rest)
          /\ found = call[c].found \cup first
    BY <2>1
  <2>c. PICK next \in Call : next = [x EXCEPT !.page = page, !.marker = m, !.more = b]
    BY DEF Call
  <2>2. Same(x, next, {"page", "marker", "more"}) /\ next.page = page
    BY <2>c DEF Call, Same
  <2>3. /\ call[c].op \in {"trashDir", "deleteDir", "list"} /\ call[c].todo = {}
        /\ call[c].op = "trashDir" => <<call[c].op, "copy">> \in Stage
        /\ call[c].op = "deleteDir" => <<call[c].op, "delete">> \in Stage
        /\ call[c].op = "list" => <<call[c].op, "list">> \in Stage /\ <<call[c].op, "listed">> \in Stage
        /\ page \subseteq Touches(call[c])
    BY <1>12, <1>a, <2>1, <2>b DEF ListPage, CallOK, Stage, Touches
  <2>5. CASE call[c].op = "trashDir" /\ Go(c, [next EXCEPT !.step = "copy", !.todo = page]) /\ UNCHANGED answer
    <3> DEFINE last == [next EXCEPT !.step = "copy", !.todo = page]
    <3>1. Same(next, last, {"step", "todo"}) /\ last.step = "copy" /\ last.todo = page
      BY DEF Call, Same, StepName
    <3> HIDE DEF last
    <3>2. CallOK(last)
      BY <1>a, <2>a, <2>2, <2>3, <2>5, <3>1, GoesOK DEF Same
    <3> QED  BY <1>12, <1>c, <2>5, <3>1, <3>2 DEF ListPage, last, store
  <2>6. CASE call[c].op = "deleteDir" /\ Go(c, [next EXCEPT !.step = "delete"]) /\ UNCHANGED answer
    <3> DEFINE last == [next EXCEPT !.step = "delete"]
    <3>1. Same(next, last, {"step"}) /\ last.step = "delete"
      BY DEF Call, Same, StepName
    <3> HIDE DEF last
    <3>2. CallOK(last)
      BY <1>a, <2>a, <2>2, <2>3, <2>6, <3>1, GoesOK DEF Same
    <3> QED  BY <1>12, <1>c, <2>6, <3>1, <3>2 DEF ListPage, last, store
  <2>7. CASE call[c].op = "list" /\ Go(c, [next EXCEPT !.found = found]) /\ UNCHANGED answer
    <3> DEFINE last == [next EXCEPT !.found = found]
    <3>1. Same(next, last, {"found"})
      BY DEF Call, Same, StepName
    <3> HIDE DEF last
    <3>2. CallOK(last)
      BY <1>12, <1>a, <2>a, <2>2, <2>3, <2>7, <3>1, GoesOK DEF Same, ListPage
    <3> QED  BY <1>12, <1>c, <2>a, <2>2, <2>7, <3>1, <3>2 DEF ListPage, last, store, Same
  <2>8. CASE call[c].op = "list" /\ Go(c, [next EXCEPT !.found = found, !.step = "listed"]) /\ UNCHANGED answer
    <3> DEFINE last == [next EXCEPT !.found = found, !.step = "listed"]
    <3>1. Same(next, last, {"found", "step"}) /\ last.step = "listed"
      BY DEF Call, Same, StepName
    <3> HIDE DEF last
    <3>2. CallOK(last)
      BY <1>a, <2>a, <2>2, <2>3, <2>8, <3>1, GoesOK DEF Same
    <3> QED  BY <1>12, <1>c, <2>8, <3>1, <3>2 DEF ListPage, last, store
  <2> QED
    BY <1>12, <2>a, <2>b, <2>c, <2>3, <2>5, <2>6, <2>7, <2>8 DEF ListPage, first, rest
<1>13. CASE Read(c)
  <2> DEFINE next == [call[c] EXCEPT !.step = "stream"]
  <2>a. "stream" \in StepName
    BY DEF StepName
  <2>1. Same(call[c], next, {"step"}) /\ next.step = "stream"
    BY <1>a, <2>a, SetStep
  <2> HIDE DEF next
  <2>2. call[c].op \in {"get", "head"} /\ call[c].todo = {} /\ <<"get", "stream">> \in Stage
    BY <1>13, <1>a DEF Read, CallOK, Stage
  <2>3. call[c].op # "head" => CallOK(next)
    BY <1>a, <2>1, <2>2, GoesOK DEF Same
  <2>4. \/ Answer(c, "ok")
        \/ call[c].op # "head" /\ Go(c, next) /\ answer' = [answer EXCEPT ![c] = "ok"]
    BY <1>13 DEF Read, next
  <2>5. UNCHANGED <<bucket, calls>>
    BY <1>13 DEF Read, store
  <2>6. answer' = [answer EXCEPT ![c] = "ok"] => answer' \in [Client -> {"none", "ok", "error", "notFound"}]
    BY DEF TypeInv, CallsOK
  <2> QED  BY <1>b, <2>1, <2>3, <2>4, <2>5, <2>6, GoOK DEF TypeInv
<1>14. CASE Begin(c)
  <2>1. PICK x \in CallsOf[c] : Begun(c, x)
    BY <1>14, BeginEffect
  <2>2. calls' \in 1..MaxCalls /\ calls + 1 # Absent /\ UNCHANGED <<answer, bucket>>
    <3>1. calls \in 1..MaxCalls /\ calls < MaxCalls /\ calls' = calls + 1
      BY ZenonT(60), <1>14 DEF Begin, TypeInv, CallsOK
    <3>2. UNCHANGED <<answer, bucket>>
      BY ZenonT(60), <1>14 DEF Begin, store
    <3>3. calls + 1 # 0 /\ calls + 1 \in 1..MaxCalls
      BY <3>1, AdapterAssumption
    <3>4. calls' \in 1..MaxCalls
      BY <3>1, <3>3
    <3> QED  BY <3>2, <3>3, <3>4 DEF Absent
  <2>3. CallOK(call'[c]) /\ call'[c].step # "putRules"
    <3>1. /\ x.op # "none" /\ <<x.op, FirstStep(x.op)>> \in Stage /\ FirstStep(x.op) # "putRules"
          /\ FirstStep(x.op) \in {"copy", "delete"} => x.op \in {"trash", "restore", "copy", "delete"}
      BY <2>1 DEF Begun, FirstStep, Stage, Ops, Writers, Moves
    <3>2. call'[c].step \in {"copy", "delete"} => call'[c].page \subseteq Touches(call'[c])
      BY <2>1, <3>1 DEF Begun, Touches
    <3> QED  BY <2>1, <2>2, <3>1, <3>2 DEF Begun, CallOK
  <2>4. ASSUME NEW d \in Client \ {c}
        PROVE  CallOK(call'[d]) /\ (call'[d].step = "putRules" => bucket')
    <3>1. CallOK(call[d]) /\ (call[d].step = "putRules" => bucket) /\ Same(call[d], call'[d], {"met"})
      BY <2>1 DEF Begun, TypeInv, CallsOK
    <3>2. CASE call[d].op = "none"
      <4>1. call'[d] = call[d]
        BY <2>1, <3>2 DEF Begun
      <4> QED  BY <2>2, <3>1, <4>1
    <3>3. CASE call[d].op # "none"
      BY ZenonT(60), <2>2, <3>1, <3>3, GoesOK DEF Same, CallOK
    <3> QED  BY <3>2, <3>3
  <2>5. answer' \in [Client -> {"none", "ok", "error", "notFound"}]
    BY <2>2 DEF TypeInv, CallsOK
  <2> QED  BY <2>1, <2>2, <2>3, <2>4, <2>5 DEF Begun, CallsOK
<1> QED
  BY <1>1, <1>2, <1>3, <1>4, <1>5, <1>6, <1>7, <1>8, <1>9, <1>10, <1>11, <1>12, <1>13, <1>14
  DEF Progress, Mishap

\* The inductive invariant of the types.
LEMMA InitTypes == Init => TypeInv
<1> SUFFICES ASSUME Init PROVE TypeInv
  OBVIOUS
<1>1. PICK K : newest = [k \in Key |-> IF k \in K THEN 1 ELSE Absent] /\ (~bucket => K = {})
  BY DEF Init
<1>2. newest \in [Key -> 0..MaxCalls]
  BY <1>1, AdapterAssumption DEF Absent
<1>3. at \in [Place -> {Cut, Absent} \cup 1..MaxCalls]
  <2>1. \A k \in Key : newest[k] \in {Absent} \cup 1..MaxCalls
    BY <1>2, AdapterAssumption DEF Absent
  <2>2. \A x \in Place : x[2] \in Key
    BY DEF Place
  <2> QED  BY <2>1, <2>2 DEF Init
<1>4. ~bucket => (\A x \in Place : at[x] = Absent) /\ rules = {}
  <2>1. \A x \in Place : x[2] \in Key
    BY DEF Place
  <2> QED  BY <1>1, <2>1 DEF Init
<1>5. StoreOK
  BY <1>2, <1>3, <1>4, AdapterAssumption DEF Init, StoreOK
<1>6. CallsOK
  <2>1. Idle \in Call /\ Idle.step # "putRules"
    BY IdleOK DEF CallOK, Idle
  <2>2. calls \in 1..MaxCalls
    BY AdapterAssumption DEF Init
  <2> QED  BY <2>1, <2>2, IdleOK DEF Init, CallsOK
<1> QED  BY <1>5, <1>6 DEF TypeInv

LEMMA NextTypes == TypeInv /\ [Next]_vars => TypeInv'
BY StoreType, CallsType DEF TypeInv

\* It implies the type invariant.
LEMMA TypesOK == TypeInv => TypeOK
<1> SUFFICES ASSUME TypeInv, NEW c \in Client
             PROVE  /\ call[c].op \in Ops \cup {"none"}
                    /\ (call[c].op = "none") <=> (call[c] = Idle)
                    /\ call[c].step \in {"idle", "put", "bucket", "rules", "putRules", "copy",
                         "delete", "list", "listed", "read", "stream", "left"}
                    /\ call[c].todo \subseteq call[c].page \cup call[c].keys
  BY DEF TypeInv, TypeOK, StoreOK, CallsOK
<1>1. CallOK(call[c]) /\ call[c] \in Call
  BY DEF TypeInv, CallsOK
<1>2. call[c].op \in Ops \cup {"none"} /\ call[c].step \in StepName
  BY <1>1 DEF Call
<1> QED  BY <1>1, <1>2 DEF CallOK, StepName, Idle

(***************************************************************************)
(* The store holds files and rules, every call is at a step of its         *)
(* operation, whatever fails and however the calls interleave.             *)
(***************************************************************************)
THEOREM AdapterTypeCorrect == Spec => []TypeOK
<1>1. Init => TypeInv
  BY InitTypes
<1>2. TypeInv /\ [Next]_vars => TypeInv'
  BY NextTypes
<1>3. TypeInv => TypeOK
  BY TypesOK
<1> QED  BY <1>1, <1>2, <1>3, PTL DEF Spec

(***************************************************************************)
(* The steps of a call.                                                    *)
(***************************************************************************)
Step(c) == Progress(c) \/ ReaderLeaves(c) \/ Mishap(c)

\* A step of a call touches no other call.
LEMMA Others ==
  ASSUME TypeInv, NEW c \in Client, Step(c), NEW d \in Client \ {c}
  PROVE  call'[d] = call[d]
<1>1. ASSUME \E next : Go(c, next)
      PROVE  call'[d] = call[d]
  BY <1>1 DEF Go, TypeInv, CallsOK
<1>2. CASE Put(c) \/ PutFails(c) \/ NoSuchBucket(c) \/ BucketMissing(c) \/ CreateBucket(c)
             \/ BucketExists(c) \/ ReadRules(c) \/ PutRules(c) \/ RulesFail(c) \/ CopyObject(c)
  BY <1>1, <1>2 DEF Put, PutFails, NoSuchBucket, BucketMissing, CreateBucket, BucketExists,
                    ReadRules, PutRules, RulesFail, CopyObject, Answer
<1>3. CASE CopyFails(c) \/ CopiesSettled(c) \/ DeleteObjects(c) \/ DeleteFails(c) \/ ListPage(c)
             \/ Listed(c) \/ RequestFails(c) \/ Missed(c) \/ Read(c)
  BY <1>1, <1>3 DEF CopyFails, CopiesSettled, DeleteObjects, Truncated, DeleteFails, ListPage,
                    Listed, RequestFails, Missed, Read, Answer
<1>4. CASE StreamEnds(c) \/ ReaderLeaves(c) \/ StreamTimesOut(c) \/ Kill(c)
  BY <1>1, <1>4 DEF StreamEnds, ReaderLeaves, StreamTimesOut, Kill
<1> QED  BY <1>2, <1>3, <1>4 DEF Step, Progress, Mishap

\* A call keeps its operation and its keys and forgets nothing it has met.
LEMMA Goes ==
  ASSUME TypeInv, NEW c \in Client, Step(c)
  PROVE  \/ call'[c] = Idle
         \/ /\ call'[c].op = call[c].op /\ call'[c].keys = call[c].keys
            /\ call[c].met \subseteq call'[c].met
            /\ call'[c].read = call[c].read \/ (call'[c].read = rules /\ ReadRules(c))
<1>a. call[c] \in Call /\ \A next : Go(c, next) => call'[c] = next
  BY DEF Go, TypeInv, CallsOK
<1>b. PICK x, y : x \in Call /\ x = call[c] /\ y = call'[c]
  BY <1>a
<1> DEFINE Stays(z) == z.op = x.op /\ z.keys = x.keys /\ z.met = x.met /\ z.read = x.read
           Meets(z, T) == z.op = x.op /\ z.keys = x.keys /\ z.met = T /\ z.read = x.read
           Reads(z) == z.op = x.op /\ z.keys = x.keys /\ z.met = x.met /\ z.read = rules
<1> SUFFICES \/ y = Idle
             \/ Stays(y)
             \/ \E T : x.met \subseteq T /\ Meets(y, T)
             \/ Reads(y) /\ ReadRules(c)
  <2>1. CASE y = Idle
    BY <1>b, <2>1
  <2>2. CASE Stays(y)
    <3>1. call'[c].met = call[c].met
      BY <1>b, <2>2
    <3>2. call[c].met \subseteq call'[c].met
      BY <3>1
    <3> QED  BY <1>b, <2>2, <3>2
  <2>3. CASE Reads(y) /\ ReadRules(c)
    BY <1>b, <2>3
  <2>4. ASSUME NEW T, x.met \subseteq T, Meets(y, T)
        PROVE  call[c].met \subseteq call'[c].met /\ call'[c].op = call[c].op
               /\ call'[c].keys = call[c].keys /\ call'[c].read = call[c].read
    BY <1>b, <2>4
  <2> HIDE DEF Meets, Stays, Reads
  <2> QED  BY <2>1, <2>2, <2>3, <2>4
<1>1. CASE Put(c) \/ PutFails(c) \/ BucketMissing(c) \/ PutRules(c) \/ RulesFail(c)
             \/ DeleteFails(c) \/ Listed(c) \/ RequestFails(c) \/ Missed(c)
  BY <1>a, <1>b, <1>1 DEF Put, PutFails, BucketMissing, PutRules, RulesFail, DeleteFails, Listed,
                    RequestFails, Missed, Answer
<1>2. CASE StreamEnds(c) \/ StreamTimesOut(c) \/ Kill(c)
  BY <1>a, <1>b, <1>2 DEF StreamEnds, StreamTimesOut, Kill
<1>3. CASE NoSuchBucket(c) \/ CreateBucket(c) \/ BucketExists(c) \/ ReaderLeaves(c)
             \/ CopiesSettled(c) \/ Read(c)
  <2>1. PICK s, b :
          \/ y = Idle
          \/ y = [x EXCEPT !.step = s]
          \/ y = [x EXCEPT !.step = "bucket", !.spent = b]
    BY <1>a, <1>b, <1>3 DEF NoSuchBucket, CreateBucket, BucketExists, ReaderLeaves, CopiesSettled,
                      Read, Answer
  <2>2. Stays([x EXCEPT !.step = s]) /\ Stays([x EXCEPT !.step = "bucket", !.spent = b])
    BY <1>b DEF Call
  <2> HIDE DEF Stays
  <2> QED  BY <2>1, <2>2
<1>4. CASE CopyObject(c) \/ CopyFails(c)
  <2>a. PICK k \in x.todo :
          \/ y = [x EXCEPT !.todo = x.todo \ {k}]
          \/ y = [x EXCEPT !.todo = x.todo \ {k}, !.met = x.met \cup {k}]
    BY <1>a, <1>b, <1>4 DEF CopyObject, CopyFails
  <2>b. PICK S, T : S = x.todo \ {k} /\ T = x.met \cup {k}
    OBVIOUS
  <2>1. y = [x EXCEPT !.todo = S] \/ y = [x EXCEPT !.todo = S, !.met = T]
    BY <2>a, <2>b
  <2>2. Stays([x EXCEPT !.todo = S]) /\ Meets([x EXCEPT !.todo = S, !.met = T], T)
    BY <1>b DEF Call
  <2>3. x.met \subseteq T
    BY <2>b
  <2> HIDE DEF Stays, Meets
  <2> QED  BY <2>1, <2>2, <2>3
<1>5. CASE ReadRules(c)
  <2>1. y = Idle \/ y = [x EXCEPT !.step = "putRules", !.read = rules]
    BY <1>a, <1>b, <1>5 DEF ReadRules, Answer
  <2>2. Reads([x EXCEPT !.step = "putRules", !.read = rules])
    BY <1>b DEF Call
  <2> HIDE DEF Reads
  <2> QED  BY <1>5, <2>1, <2>2
<1>6. CASE DeleteObjects(c)
  <2>a. PICK left \in SUBSET x.page :
          y = Idle \/ y = [x EXCEPT !.step = "list", !.page = {}, !.met = x.met \cup left]
    BY <1>a, <1>b, <1>6 DEF DeleteObjects, Truncated, Answer
  <2>b. PICK S, T : S = {} /\ T = x.met \cup left
    OBVIOUS
  <2>1. y = Idle \/ y = [x EXCEPT !.step = "list", !.page = S, !.met = T]
    BY <2>a, <2>b
  <2>2. Meets([x EXCEPT !.step = "list", !.page = S, !.met = T], T)
    BY <1>b DEF Call
  <2>3. x.met \subseteq T
    BY <2>b
  <2> HIDE DEF Meets
  <2> QED  BY <2>1, <2>2, <2>3
<1>7. CASE ListPage(c)
  <2> DEFINE rest == Present(x.marker)
             first == FirstOf(PageLength(x), rest)
  <2>1. PICK page, m, b, found : page = first /\ m = Last(first, x.marker) /\ b = (first # rest)
                                 /\ found = x.found \cup first
    OBVIOUS
  <2>2. PICK next : next = [x EXCEPT !.page = page, !.marker = m, !.more = b]
    OBVIOUS
  <2>3. \/ y = [next EXCEPT !.step = "copy", !.todo = page]
        \/ y = [next EXCEPT !.step = "delete"]
        \/ y = [next EXCEPT !.found = found]
        \/ y = [next EXCEPT !.found = found, !.step = "listed"]
    <3> HIDE DEF rest, first
    <3> QED  BY <1>a, <1>b, <1>7, <2>1, <2>2 DEF ListPage, rest, first
  <2>4. /\ Stays([next EXCEPT !.step = "copy", !.todo = page]) /\ Stays([next EXCEPT !.step = "delete"])
        /\ Stays([next EXCEPT !.found = found]) /\ Stays([next EXCEPT !.found = found, !.step = "listed"])
    BY <1>b, <2>2 DEF Call
  <2> HIDE DEF Stays
  <2> QED  BY <2>3, <2>4
<1> QED
  BY <1>1, <1>2, <1>3, <1>4, <1>5, <1>6, <1>7 DEF Step, Progress, Mishap

(***************************************************************************)
(* The lifecycle rules.                                                    *)
(***************************************************************************)
\* What a configuration has read is what the bucket still has, unless another one
\* has been under way.
RulesInv ==
  /\ OneRule(rules)
  /\ \A c \in Client :
       /\ OneRule(call[c].read)
       /\ call[c].step = "putRules" /\ ~crossed => call[c].read = rules
       /\ \A d \in Client \ {c} :
            call[c].op = "configure" /\ call[d].op = "configure" => crossed

\* Rules for folders that have none yet leave each folder with one.
LEMMA AllRulesOK ==
  ASSUME NEW read, NEW mine, OneRule(read), OneRule(mine)
  PROVE  /\ OneRule(AllRules(read, mine))
         /\ \A r \in mine : \E s \in AllRules(read, mine) : s.folder = r.folder
BY DEF OneRule, AllRules, Missing

\* Only PutRules changes the rules, and it writes what ReadRules has read.
LEMMA RulesStep ==
  ASSUME TypeInv, NEW c \in Client, Step(c)
  PROVE  /\ UNCHANGED crossed
         /\ UNCHANGED rules \/ PutRules(c)
         /\ call'[c].step = "putRules" => ReadRules(c) /\ call'[c].read = rules
<1>1. UNCHANGED crossed /\ (UNCHANGED rules \/ PutRules(c))
  <2>1. CASE Put(c) \/ PutFails(c) \/ NoSuchBucket(c) \/ BucketMissing(c) \/ CreateBucket(c)
               \/ BucketExists(c) \/ ReadRules(c) \/ RulesFail(c) \/ CopyObject(c) \/ CopyFails(c)
    BY <2>1 DEF Put, PutFails, NoSuchBucket, BucketMissing, CreateBucket, BucketExists, ReadRules,
                RulesFail, CopyObject, CopyFails, store, history
  <2>2. CASE CopiesSettled(c) \/ DeleteObjects(c) \/ DeleteFails(c) \/ ListPage(c) \/ Listed(c)
               \/ RequestFails(c) \/ Missed(c) \/ Read(c) \/ StreamEnds(c) \/ ReaderLeaves(c)
               \/ StreamTimesOut(c) \/ Kill(c)
    BY <2>2 DEF CopiesSettled, DeleteObjects, DeleteFails, ListPage, Listed, RequestFails, Missed,
                Read, StreamEnds, ReaderLeaves, StreamTimesOut, Kill, store, history
  <2>3. CASE PutRules(c)
    BY <2>3 DEF PutRules
  <2> QED  BY <2>1, <2>2, <2>3 DEF Step, Progress, Mishap
<1>2. ASSUME call'[c].step = "putRules"
      PROVE  ReadRules(c) /\ call'[c].read = rules
  <2>1. call[c] \in Call /\ CallOK(call[c]) /\ \A next : Go(c, next) => call'[c] = next
    BY DEF Go, TypeInv, CallsOK, CallOK
  <2>2. call'[c].op = "configure" /\ call'[c] # Idle
    <3>1. CallOK(call'[c])
      <4>1. [Next]_vars
        BY DEF Next, Step
      <4> QED  BY <4>1, CallsType DEF CallsOK
    <3> QED  BY <1>2, <3>1 DEF CallOK, Stage, Idle
  <2>3. call[c].op = "configure" /\ call[c].step \in {"rules", "bucket", "putRules"}
    <3>1. call[c].op = "configure"
      BY <2>2, Goes
    <3> QED  BY <2>1, <3>1 DEF CallOK, Stage
  <2>4. call[c].step # "putRules" \/ ~ReaderLeaves(c)
    BY DEF ReaderLeaves
  <2>5. \/ NoSuchBucket(c) \/ CreateBucket(c) \/ BucketExists(c) \/ ReadRules(c)
        \/ PutRules(c) \/ RulesFail(c) \/ RequestFails(c) \/ Kill(c)
    BY <2>3 DEF Step, Progress, Mishap, Put, BucketMissing, CopyObject, CopyFails, CopiesSettled,
                DeleteObjects, ListPage, Listed, Missed, Read, StreamEnds, StreamTimesOut,
                NotBothDestroyed, PutFails, DeleteFails, ReaderLeaves
  <2>6. CASE NoSuchBucket(c)
    <3>1. call'[c] = [call[c] EXCEPT !.step = "bucket", !.spent = TRUE]
      BY <2>1, <2>6 DEF NoSuchBucket
    <3>2. call'[c].step = "bucket"
      BY <2>1, <3>1 DEF Call
    <3> QED  BY <1>2, <3>2
  <2>7. CASE CreateBucket(c) \/ BucketExists(c)
    <3>1. call'[c] = [call[c] EXCEPT !.step = FirstStep(call[c].op)]
      BY <2>1, <2>2, <2>7 DEF CreateBucket, BucketExists, Answer
    <3>2. call'[c].step = "rules"
      BY <2>1, <2>3, <3>1 DEF Call, FirstStep
    <3> QED  BY <1>2, <3>2
  <2>8. CASE ReadRules(c)
    <3>1. call'[c] = [call[c] EXCEPT !.step = "putRules", !.read = rules]
      BY <2>1, <2>2, <2>8 DEF ReadRules, Answer
    <3>2. call'[c].read = rules
      BY <2>1, <3>1 DEF Call
    <3> QED  BY <2>8, <3>2
  <2>9. CASE PutRules(c) \/ RulesFail(c) \/ RequestFails(c) \/ Kill(c)
    BY <2>1, <2>2, <2>9 DEF PutRules, RulesFail, RequestFails, Kill, Answer
  <2> QED  BY <2>5, <2>6, <2>7, <2>8, <2>9
<1> QED  BY <1>1, <1>2

\* The rules of a configuration that nothing crosses are kept.
LEMMA NextRules == TypeInv /\ RulesInv /\ [Next]_vars => RulesInv'
<1> SUFFICES ASSUME TypeInv, RulesInv, [Next]_vars PROVE RulesInv'
  OBVIOUS
<1>1. CASE UNCHANGED vars
  BY <1>1 DEF vars, store, history, RulesInv
<1>2. ASSUME NEW c \in Client, Begin(c)
      PROVE  RulesInv'
  <2>1. PICK x \in CallsOf[c] : Begun(c, x)
    BY <1>2, BeginEffect
  <2>2. UNCHANGED rules
    BY <1>2 DEF Begin, store
  <2>3. \A d \in Client \ {c} : /\ call'[d].op = call[d].op /\ call'[d].step = call[d].step
                                /\ call'[d].read = call[d].read
    BY <2>1 DEF Begun, Same
  <2>4. /\ call'[c].read = {} /\ call'[c].op = x.op /\ call'[c].step = FirstStep(x.op)
        /\ crossed' = (crossed \/ (x.op = "configure" /\
                         \E d \in Client \ {c} : call[d].op = "configure"))
    BY <2>1 DEF Begun
  <2>5. call'[c].step # "putRules"
    BY <2>1, <2>4 DEF Begun, FirstStep, Ops, Writers, Moves
  <2>6. OneRule(call'[c].read)
    BY <2>4 DEF OneRule
  <2>7. ASSUME NEW e \in Client
        PROVE  /\ OneRule(call'[e].read)
               /\ call'[e].step = "putRules" /\ ~crossed' => call'[e].read = rules'
    BY <2>2, <2>3, <2>4, <2>5, <2>6 DEF RulesInv
  <2>8. ASSUME NEW e \in Client, NEW d \in Client \ {e},
               call'[e].op = "configure", call'[d].op = "configure"
        PROVE  crossed'
    BY <2>3, <2>4, <2>8 DEF RulesInv
  <2> QED  BY <2>2, <2>7, <2>8 DEF RulesInv
<1>3. ASSUME NEW c \in Client, Step(c)
      PROVE  RulesInv'
  <2>1. /\ UNCHANGED crossed /\ (UNCHANGED rules \/ PutRules(c))
        /\ call'[c].step = "putRules" => ReadRules(c) /\ call'[c].read = rules
    BY <1>3, RulesStep
  <2>2. \A d \in Client \ {c} : call'[d] = call[d]
    BY <1>3, Others
  <2>3. /\ call'[c].op \in {call[c].op, "none"}
        /\ call'[c].read \in {call[c].read, rules, {}}
    BY <1>3, Goes DEF Idle
  <2>4. OneRule(call'[c].read)
    <3>1. OneRule({})
      BY DEF OneRule
    <3> QED  BY <2>3, <3>1 DEF RulesInv
  <2>5. CASE PutRules(c)
    <3>1. rules' = AllRules(call[c].read, RulesOf[c]) /\ call[c].step = "putRules"
      BY <2>5 DEF PutRules
    <3>2. OneRule(rules')
      BY <3>1, AllRulesOK, AdapterAssumption DEF RulesInv
    <3>3. call'[c].step # "putRules"
      BY <2>5, <2>1 DEF PutRules, ReadRules
    <3>4. ASSUME NEW d \in Client \ {c}, call[d].step = "putRules"
          PROVE  crossed
      <4>1. call[d].op = "configure" /\ call[c].op = "configure"
        BY <3>1, <3>4 DEF TypeInv, CallsOK, CallOK, Stage
      <4> QED  BY <4>1 DEF RulesInv
    <3> QED  BY <2>1, <2>2, <2>3, <2>4, <3>2, <3>3, <3>4 DEF RulesInv
  <2>6. CASE UNCHANGED rules
    <3>1. ASSUME NEW e \in Client
          PROVE  /\ OneRule(call'[e].read)
                 /\ call'[e].step = "putRules" /\ ~crossed' => call'[e].read = rules'
      BY <2>1, <2>2, <2>4, <2>6 DEF RulesInv
    <3>2. ASSUME NEW e \in Client, NEW d \in Client \ {e},
                 call'[e].op = "configure", call'[d].op = "configure"
          PROVE  crossed'
      BY <2>1, <2>2, <2>3, <3>2 DEF RulesInv
    <3> QED  BY <2>6, <3>1, <3>2 DEF RulesInv
  <2> QED  BY <2>1, <2>5, <2>6
<1> QED  BY <1>1, <1>2, <1>3 DEF Next, Step

\* At first nothing is configured.
LEMMA InitRules == Init => RulesInv
BY AdapterAssumption DEF Init, RulesInv, OneRule, Idle

(***************************************************************************)
(* No rule is lost and a client that has configured its rules finds them   *)
(* there, unless two configurations overlap; no folder ever has two rules. *)
(***************************************************************************)
THEOREM LifecycleRulesKept == Spec => RulesKept
<1>1. Init => TypeInv /\ RulesInv
  BY InitTypes, InitRules
<1>2. TypeInv /\ RulesInv /\ [Next]_vars => (TypeInv /\ RulesInv)'
  BY NextTypes, NextRules
<1>3. ASSUME TypeInv, RulesInv, RulesInv', [Next]_vars
      PROVE  [/\ ~crossed => rules \subseteq rules'
              /\ \A c \in configured' \ configured :
                    \A r \in RulesOf[c] : \E s \in rules' : s.folder = r.folder
              /\ OneRule(rules')]_vars
  <2>1. OneRule(rules')
    BY <1>3 DEF RulesInv
  <2>2. ASSUME UNCHANGED <<rules, configured>>
        PROVE  /\ ~crossed => rules \subseteq rules'
               /\ \A c \in configured' \ configured :
                     \A r \in RulesOf[c] : \E s \in rules' : s.folder = r.folder
    BY <2>2
  <2>3. ASSUME NEW c \in Client, PutRules(c)
        PROVE  /\ ~crossed => rules \subseteq rules'
               /\ \A d \in configured' \ configured :
                     \A r \in RulesOf[d] : \E s \in rules' : s.folder = r.folder
    <3>1. /\ rules' = AllRules(call[c].read, RulesOf[c]) /\ call[c].step = "putRules"
          /\ configured' = configured \cup {c}
      BY <2>3 DEF PutRules
    <3>2. \A r \in RulesOf[c] : \E s \in rules' : s.folder = r.folder
      BY <1>3, <3>1, AllRulesOK, AdapterAssumption DEF RulesInv
    <3>3. ~crossed => rules \subseteq rules'
      BY <1>3, <3>1 DEF RulesInv, AllRules
    <3> QED  BY <3>1, <3>2, <3>3
  <2>4. ASSUME NEW c \in Client, ReadRules(c)
        PROVE  /\ ~crossed => rules \subseteq rules'
               /\ \A d \in configured' \ configured :
                     \A r \in RulesOf[d] : \E s \in rules' : s.folder = r.folder
    <3>1. UNCHANGED rules /\ (configured' # configured =>
                                Missing(rules, RulesOf[c]) = {} /\ configured' = configured \cup {c})
      BY <2>4 DEF ReadRules, store
    <3>2. Missing(rules, RulesOf[c]) = {} =>
            \A r \in RulesOf[c] : \E s \in rules : s.folder = r.folder
      BY DEF Missing
    <3> QED  BY <3>1, <3>2
  <2>5. ASSUME NEW c \in Client, Begin(c) \/ Step(c), ~PutRules(c), ~ReadRules(c)
        PROVE  UNCHANGED <<rules, configured>>
    <3>1. CASE \/ Begin(c) \/ Put(c) \/ PutFails(c) \/ NoSuchBucket(c) \/ BucketMissing(c)
               \/ CreateBucket(c) \/ BucketExists(c) \/ RulesFail(c) \/ CopyObject(c) \/ CopyFails(c)
      BY <3>1 DEF Begin, Put, PutFails, NoSuchBucket, BucketMissing, CreateBucket, BucketExists,
                  RulesFail, CopyObject, CopyFails, store, history
    <3>2. CASE \/ CopiesSettled(c) \/ DeleteObjects(c) \/ DeleteFails(c) \/ ListPage(c) \/ Listed(c)
               \/ RequestFails(c) \/ Missed(c) \/ Read(c) \/ StreamEnds(c) \/ ReaderLeaves(c)
               \/ StreamTimesOut(c) \/ Kill(c)
      BY <3>2 DEF CopiesSettled, DeleteObjects, DeleteFails, ListPage, Listed, RequestFails, Missed,
                  Read, StreamEnds, ReaderLeaves, StreamTimesOut, Kill, store, history
    <3> QED  BY <2>5, <3>1, <3>2 DEF Step, Progress, Mishap
  <2>6. CASE UNCHANGED vars
    BY <2>6
  <2>7. CASE Next
    BY <2>1, <2>2, <2>3, <2>4, <2>5, <2>7 DEF Next, Step
  <2> QED  BY <1>3, <2>6, <2>7
<1> QED  BY <1>1, <1>2, <1>3, PTL DEF Spec, RulesKept

(***************************************************************************)
(* The files.                                                              *)
(***************************************************************************)
\* A call has been told of every key another call may write meanwhile.
Told ==
  \A c, d \in Client :
    c # d /\ call[c].op # "none" /\ call[d].op \in Writers
      => Touches(call[c]) \cap Touches(call[d]) \subseteq call[c].met

\* What a move is about to delete is at its target, unless its copy failed or another
\* call has touched it.
Copied ==
  \A c \in Client :
    call[c].op \in Moves /\ call[c].step \in {"copy", "delete"} =>
      \A k \in call[c].page \ (call[c].todo \cup call[c].met) :
        at[Source(c, k)] \in {Absent, at[Target(c, k)]}

\* The newest file is in place, or in the trash with nothing in its place.
Placed ==
  \A k \in Key \ waived :
    /\ \/ at[<<"live", k>>] = newest[k]
       \/ at[<<"live", k>>] = Absent /\ at[<<"trash", k>>] = newest[k]
    /\ newest[k] = Absent => at[<<"trash", k>>] = Absent

FilesInv == Told /\ Copied /\ Placed

\* Calls that begin tell each other of the keys they share, and none forgets.
LEMMA NextTold == TypeInv /\ Told /\ [Next]_vars => Told'
<1> SUFFICES ASSUME TypeInv, Told, [Next]_vars, NEW c \in Client, NEW d \in Client, c # d,
                    call'[c].op # "none", call'[d].op \in Writers
             PROVE  Touches(call'[c]) \cap Touches(call'[d]) \subseteq call'[c].met
  BY DEF Told
<1>1. CASE UNCHANGED vars
  BY <1>1 DEF vars, Told
<1>2. ASSUME NEW e \in Client, Begin(e)
      PROVE  Touches(call'[c]) \cap Touches(call'[d]) \subseteq call'[c].met
  <2>1. PICK x \in CallsOf[e] : Begun(e, x)
    BY <1>2, BeginEffect
  <2>2. \A f \in Client \ {e} : /\ call'[f].op = call[f].op /\ call'[f].keys = call[f].keys
                                /\ Touches(call'[f]) = Touches(call[f])
                                /\ call[f].met \subseteq call'[f].met
    BY ZenonT(60), <2>1 DEF Begun, Same, Touches
  <2>3. call'[e].op = x.op /\ Touches(call'[e]) = Touches(x)
    BY <2>1 DEF Begun, Touches
  <2>4. CASE c = e
    <3>1. d \in Rivals(c)
      BY <2>2, <2>4 DEF Rivals
    <3>2. call'[c].met = Touches(x) \cap UNION {Touches(call[f]) : f \in Rivals(c)}
      BY <2>1, <2>4 DEF Begun
    <3> QED  BY <2>2, <2>3, <2>4, <3>1, <3>2
  <2>5. CASE d = e
    <3>1. call'[c].met = call[c].met \cup (Touches(x) \cap Touches(call[c]))
      BY <2>1, <2>2, <2>3, <2>5 DEF Begun
    <3> QED  BY <2>2, <2>3, <2>5, <3>1
  <2>6. CASE c # e /\ d # e
    BY <2>2, <2>6 DEF Told
  <2> QED  BY <2>4, <2>5, <2>6
<1>3. ASSUME NEW e \in Client, Step(e)
      PROVE  Touches(call'[c]) \cap Touches(call'[d]) \subseteq call'[c].met
  <2>1. \A f \in Client \ {e} : call'[f] = call[f]
    BY <1>3, Others
  <2>2. \/ call'[e] = Idle
        \/ /\ call'[e].op = call[e].op /\ Touches(call'[e]) = Touches(call[e])
           /\ call[e].met \subseteq call'[e].met
    BY <1>3, Goes DEF Touches
  <2>3. call'[c] # Idle /\ call'[d] # Idle
    BY DEF Idle, Writers, Moves
  <2> QED  BY <2>1, <2>2, <2>3 DEF Told
<1> QED  BY <1>1, <1>2, <1>3 DEF Next, Step

\* A call writes only under the keys it touches.
LEMMA WritesOwn ==
  ASSUME TypeInv, NEW c \in Client, Step(c)
  PROVE  \/ UNCHANGED <<at, newest, waived>>
         \/ /\ call[c].op \in Writers
            /\ \A k \in Key \ Touches(call[c]) :
                 /\ at'[<<"live", k>>] = at[<<"live", k>>]
                 /\ at'[<<"trash", k>>] = at[<<"trash", k>>]
                 /\ newest'[k] = newest[k]
                 /\ k \in waived' <=> k \in waived
<1>a. call[c] \in Call /\ CallOK(call[c]) /\ call[c].keys \subseteq Key
  BY DEF TypeInv, CallsOK, CallOK, Call
<1>b. at \in [Place -> {Cut, Absent} \cup 1..MaxCalls] /\ newest \in [Key -> 0..MaxCalls]
  BY DEF TypeInv, StoreOK
<1>c. \A k \in Key : <<"live", k>> \in Place /\ <<"trash", k>> \in Place
  BY DEF Place
<1>1. CASE Put(c) \/ PutFails(c)
  <2>1. call[c].op = "create"
    BY <1>1, <1>a DEF Put, PutFails, CallOK, Stage
  <2>2. Touches(call[c]) = call[c].keys /\ call[c].op \in Writers
    BY <2>1 DEF Touches, Writers
  <2>3. \A k \in call[c].keys : \A i \in Key \ call[c].keys : i # k
    OBVIOUS
  <2>4. PICK k \in call[c].keys :
          /\ \A p \in Place : p # <<"live", k>> => at'[p] = at[p]
          /\ \A i \in Key : i # k => newest'[i] = newest[i]
          /\ \A i \in Key : i # k => (i \in waived' <=> i \in waived)
    BY <1>1, <1>b DEF Put, PutFails
  <2> QED  BY <1>c, <2>2, <2>3, <2>4
<1>2. CASE CopyObject(c)
  <2>1. call[c].op \in {"trash", "trashDir", "restore", "copy"}
    BY <1>2, <1>a DEF CopyObject, CallOK, Stage
  <2>2. call[c].op \in Writers
    BY <2>1 DEF Writers, Moves
  <2>3. PICK k \in call[c].todo :
          \/ UNCHANGED <<at, newest, waived>>
          \/ /\ at' = [at EXCEPT ![Target(c, k)] = at[Source(c, k)]]
             /\ Arrives(c, k, at[Source(c, k)])
    BY <1>2 DEF CopyObject
  <2>4. /\ call[c].op = "copy" => Twin[k] \in Touches(call[c])
        /\ call[c].op # "copy" => k \in Touches(call[c])
    BY <1>2, <1>a, <2>1 DEF CallOK, Touches, CopyObject
  <2>5. CASE call[c].op = "copy"
    BY <1>b, <1>c, <2>2, <2>3, <2>4, <2>5 DEF Target, Arrives
  <2>6. CASE call[c].op # "copy"
    BY <1>b, <1>c, <2>2, <2>3, <2>4, <2>6 DEF Target, Arrives
  <2> QED  BY <2>5, <2>6
<1>3. CASE DeleteObjects(c) \/ DeleteFails(c)
  <2>1. call[c].op \in {"trash", "trashDir", "restore", "delete", "deleteDir"}
        /\ call[c].page \subseteq Touches(call[c])
    BY <1>3, <1>a DEF DeleteObjects, DeleteFails, CallOK, Stage
  <2>2. PICK K \in SUBSET call[c].page : at' = Without(c, K)
    BY <1>3 DEF DeleteObjects, DeleteFails
  <2>3. waived' = waived \cup GivenUp(c) /\ UNCHANGED newest /\ GivenUp(c) \subseteq call[c].page
    BY <1>3 DEF DeleteObjects, DeleteFails, GivenUp
  <2>4. ASSUME NEW k \in Key \ Touches(call[c])
        PROVE  at'[<<"live", k>>] = at[<<"live", k>>] /\ at'[<<"trash", k>>] = at[<<"trash", k>>]
    <3>1. \A i \in K : Source(c, i) # <<"live", k>> /\ Source(c, i) # <<"trash", k>>
      BY <2>1 DEF Source
    <3> QED  BY <1>c, <2>2, <3>1 DEF Without
  <2> QED  BY <2>1, <2>3, <2>4 DEF Writers, Moves
<1>4. CASE NoSuchBucket(c) \/ BucketMissing(c) \/ CreateBucket(c) \/ BucketExists(c)
             \/ ReadRules(c) \/ PutRules(c) \/ RulesFail(c) \/ CopyFails(c) \/ CopiesSettled(c)
  BY <1>4 DEF NoSuchBucket, BucketMissing, CreateBucket, BucketExists, ReadRules, PutRules,
              RulesFail, CopyFails, CopiesSettled, store, history
<1>5. CASE ListPage(c) \/ Listed(c) \/ RequestFails(c) \/ Missed(c) \/ Read(c)
             \/ StreamEnds(c) \/ ReaderLeaves(c) \/ StreamTimesOut(c) \/ Kill(c)
  BY <1>5 DEF ListPage, Listed, RequestFails, Missed, Read, StreamEnds, ReaderLeaves,
              StreamTimesOut, Kill, store, history
<1> QED  BY <1>1, <1>2, <1>3, <1>4, <1>5 DEF Step, Progress, Mishap

\* What a step of a move that goes on with its copies or its deletion does.
LEMMA MoveStep ==
  ASSUME TypeInv, NEW c \in Client, Step(c), call'[c].op \in Moves,
         call'[c].step \in {"copy", "delete"}
  PROVE  /\ call'[c].op = call[c].op
         /\ \/ ListPage(c) /\ call'[c].page = call'[c].todo
            \/ /\ CopyFails(c) \/ CopiesSettled(c)
               /\ call[c].step = "copy" /\ call'[c].page = call[c].page
               /\ call[c].todo \cup call[c].met \subseteq call'[c].todo \cup call'[c].met
            \/ /\ CopyObject(c) /\ call[c].step = "copy" /\ call'[c].page = call[c].page
               /\ call'[c].met = call[c].met
               /\ \E k \in call[c].todo :
                    /\ call[c].todo \subseteq call'[c].todo \cup {k}
                    /\ IF at[Source(c, k)] = Absent THEN UNCHANGED at
                       ELSE at' = [at EXCEPT ![Target(c, k)] = at[Source(c, k)]]
<1>a. call[c] \in Call /\ CallOK(call[c]) /\ \A next : Go(c, next) => call'[c] = next
  BY DEF Go, TypeInv, CallsOK, CallOK
<1>b. PICK x, y : x \in Call /\ x = call[c] /\ y = call'[c]
  BY <1>a
<1>1. call'[c].op = call[c].op /\ call'[c] # Idle
  BY Goes DEF Idle, Moves
<1>2. call[c].step \in {"list", "copy", "delete"}
  BY <1>1, <1>a DEF CallOK, Stage, Moves
<1>3. \/ CopyObject(c) \/ CopyFails(c) \/ CopiesSettled(c) \/ DeleteObjects(c) \/ ListPage(c)
      \/ BucketMissing(c) \/ DeleteFails(c) \/ RequestFails(c) \/ Kill(c)
  BY <1>2 DEF Step, Progress, Mishap, Put, NoSuchBucket, CreateBucket, BucketExists, ReadRules,
              PutRules, RulesFail, Listed, Missed, Read, StreamEnds, StreamTimesOut,
              NotBothDestroyed, PutFails, ReaderLeaves
<1>4. ~(BucketMissing(c) \/ DeleteFails(c) \/ RequestFails(c) \/ Kill(c))
  BY <1>1, <1>a DEF BucketMissing, DeleteFails, RequestFails, Kill, Answer
<1>5. CASE DeleteObjects(c)
  <2>a. PICK left : y = [x EXCEPT !.step = "list", !.page = {}, !.met = x.met \cup left]
    BY <1>1, <1>a, <1>b, <1>5 DEF DeleteObjects, Truncated, Answer
  <2>b. PICK S, T : S = {} /\ T = x.met \cup left
    OBVIOUS
  <2>1. y = [x EXCEPT !.step = "list", !.page = S, !.met = T]
    BY <2>a, <2>b
  <2>2. [x EXCEPT !.step = "list", !.page = S, !.met = T].step = "list"
    BY <1>b DEF Call
  <2> QED  BY <1>b, <2>1, <2>2
<1>6. CASE ListPage(c)
  <2> DEFINE rest == Present(x.marker)
             first == FirstOf(PageLength(x), rest)
  <2>1. PICK page, m, b : page = first /\ m = Last(first, x.marker) /\ b = (first # rest)
    OBVIOUS
  <2>2. PICK next : next = [x EXCEPT !.page = page, !.marker = m, !.more = b]
    OBVIOUS
  <2>3. x.op = "trashDir"
    <3>1. x.op \in Moves /\ x.step = "list"
      BY <1>1, <1>6, <1>b DEF ListPage
    <3> QED  BY <3>1, <1>a, <1>b DEF CallOK, Stage, Moves
  <2>4. y = [next EXCEPT !.step = "copy", !.todo = page]
    <3> HIDE DEF rest, first
    <3> QED  BY <1>a, <1>b, <1>6, <2>1, <2>2, <2>3 DEF ListPage, rest, first
  <2>5. LET z == [next EXCEPT !.step = "copy", !.todo = page] IN z.page = page /\ z.todo = page
    BY <1>b, <2>2 DEF Call
  <2> QED  BY <1>1, <1>6, <1>b, <2>4, <2>5
<1>7. CASE CopiesSettled(c)
  <2>1. y = [x EXCEPT !.step = "delete"]
    BY <1>1, <1>a, <1>b, <1>7 DEF CopiesSettled, Answer
  <2>2. LET z == [x EXCEPT !.step = "delete"] IN
        z.page = x.page /\ z.todo = x.todo /\ z.met = x.met
    BY <1>b DEF Call
  <2>3. y.page = x.page /\ y.todo = x.todo /\ y.met = x.met
    BY <2>1, <2>2
  <2> QED  BY <1>1, <1>7, <1>b, <2>3 DEF CopiesSettled
<1>8. CASE CopyFails(c)
  <2>a. PICK k \in x.todo : y = [x EXCEPT !.todo = x.todo \ {k}, !.met = x.met \cup {k}]
    BY <1>a, <1>b, <1>8 DEF CopyFails
  <2>b. PICK S, T : S = x.todo \ {k} /\ T = x.met \cup {k}
    OBVIOUS
  <2>1. y = [x EXCEPT !.todo = S, !.met = T]
    BY <2>a, <2>b
  <2>2. LET z == [x EXCEPT !.todo = S, !.met = T] IN z.page = x.page /\ z.todo = S /\ z.met = T
    BY <1>b DEF Call
  <2>3. y.page = x.page /\ y.todo = S /\ y.met = T
    BY <2>1, <2>2
  <2>4. x.todo \cup x.met \subseteq S \cup T
    BY <2>b
  <2> QED  BY <1>1, <1>8, <1>b, <2>3, <2>4 DEF CopyFails
<1>9. CASE CopyObject(c)
  <2>a. PICK k \in x.todo :
          /\ y = [x EXCEPT !.todo = x.todo \ {k}]
          /\ IF at[Source(c, k)] = Absent THEN UNCHANGED at
             ELSE at' = [at EXCEPT ![Target(c, k)] = at[Source(c, k)]]
    BY <1>a, <1>b, <1>9 DEF CopyObject
  <2>b. PICK S : S = x.todo \ {k}
    OBVIOUS
  <2>1. LET z == [x EXCEPT !.todo = S] IN z.page = x.page /\ z.todo = S /\ z.met = x.met
    BY <1>b DEF Call
  <2>2. y.page = x.page /\ y.todo = S /\ y.met = x.met
    BY <2>a, <2>b, <2>1
  <2>3. x.todo \subseteq S \cup {k}
    BY <2>b
  <2> QED  BY <1>1, <1>9, <1>b, <2>a, <2>2, <2>3 DEF CopyObject
<1> QED  BY <1>3, <1>4, <1>5, <1>6, <1>7, <1>8, <1>9

\* The files of a move are in the trash before it deletes them.
LEMMA NextCopied == TypeInv /\ Told /\ Copied /\ [Next]_vars => Copied'
<1> SUFFICES ASSUME TypeInv, Told, Copied, [Next]_vars, NEW c \in Client,
                    call'[c].op \in Moves, call'[c].step \in {"copy", "delete"},
                    NEW k \in call'[c].page \ (call'[c].todo \cup call'[c].met)
             PROVE  at'[Source(c, k)'] \in {Absent, at'[Target(c, k)']}
  BY DEF Copied
<1>a. /\ call[c] \in Call /\ CallOK(call[c])
      /\ at \in [Place -> {Cut, Absent} \cup 1..MaxCalls]
  BY DEF TypeInv, StoreOK, CallsOK, CallOK
<1>b. k \in Key /\ k \in Touches(call'[c])
  <2>1. CallOK(call'[c]) /\ call'[c] \in Call
    BY CallsType DEF CallsOK, CallOK
  <2> QED  BY <2>1 DEF CallOK, Call
<1>c. <<"live", k>> \in Place /\ <<"trash", k>> \in Place
  BY <1>b DEF Place
<1>1. CASE UNCHANGED vars
  BY <1>1 DEF vars, store, Copied, Source, Target
<1>2. ASSUME NEW e \in Client, Begin(e)
      PROVE  at'[Source(c, k)'] \in {Absent, at'[Target(c, k)']}
  <2>1. PICK x \in CallsOf[e] : Begun(e, x)
    BY <1>2, BeginEffect
  <2>2. UNCHANGED at
    BY <1>2 DEF Begin, store
  <2>3. c # e
    <3>1. ASSUME c = e
          PROVE  FALSE
      <4>1. call'[c].page = x.keys /\ call'[c].step = FirstStep(x.op) /\ call'[c].op = x.op
            /\ call'[c].todo = IF FirstStep(x.op) = "copy" THEN x.keys ELSE {}
        BY <2>1, <3>1 DEF Begun
      <4>2. FirstStep(x.op) = "copy"
        BY <4>1 DEF FirstStep, Moves
      <4> QED  BY <4>1, <4>2
    <3> QED  BY <3>1
  <2>4. /\ call'[c].op = call[c].op /\ call'[c].step = call[c].step
        /\ call'[c].page = call[c].page /\ call'[c].todo = call[c].todo
        /\ call[c].met \subseteq call'[c].met
    BY <2>1, <2>3 DEF Begun, Same
  <2>5. at[Source(c, k)] \in {Absent, at[Target(c, k)]}
    BY <2>4 DEF Copied
  <2> QED  BY <2>2, <2>4, <2>5 DEF Source, Target
<1>3. ASSUME NEW e \in Client \ {c}, Step(e)
      PROVE  at'[Source(c, k)'] \in {Absent, at'[Target(c, k)']}
  <2>1. call'[c] = call[c]
    BY <1>3, Others
  <2>2. at[Source(c, k)] \in {Absent, at[Target(c, k)]}
    BY <2>1 DEF Copied
  <2>3. call[e].op \in Writers => k \notin Touches(call[e])
    <3>1. call[c].op # "none" /\ k \notin call[c].met /\ k \in Touches(call[c])
      BY <1>b, <2>1 DEF Moves
    <3> QED  BY <1>3, <3>1 DEF Told
  <2>4. /\ at'[<<"live", k>>] = at[<<"live", k>>]
        /\ at'[<<"trash", k>>] = at[<<"trash", k>>]
    BY <1>b, <1>3, <2>3, WritesOwn
  <2> QED  BY <2>1, <2>2, <2>4 DEF Source, Target, Moves
<1>4. ASSUME Step(c)
      PROVE  at'[Source(c, k)'] \in {Absent, at'[Target(c, k)']}
  <2>1. /\ call'[c].op = call[c].op
        /\ Source(c, k)' = Source(c, k) /\ Target(c, k)' = Target(c, k)
    BY <1>4, MoveStep DEF Source, Target
  <2>2. CASE ListPage(c) /\ call'[c].page = call'[c].todo
    BY <2>2
  <2>3. CASE /\ CopyFails(c) \/ CopiesSettled(c)
             /\ call[c].step = "copy" /\ call'[c].page = call[c].page
             /\ call[c].todo \cup call[c].met \subseteq call'[c].todo \cup call'[c].met
    <3>1. UNCHANGED at
      BY <2>3 DEF CopyFails, CopiesSettled, store
    <3>2. at[Source(c, k)] \in {Absent, at[Target(c, k)]}
      BY <2>1, <2>3 DEF Copied
    <3> QED  BY <2>1, <3>1, <3>2
  <2>4. CASE /\ CopyObject(c) /\ call[c].step = "copy" /\ call'[c].page = call[c].page
             /\ call'[c].met = call[c].met
             /\ \E i \in call[c].todo :
                  /\ call[c].todo \subseteq call'[c].todo \cup {i}
                  /\ IF at[Source(c, i)] = Absent THEN UNCHANGED at
                     ELSE at' = [at EXCEPT ![Target(c, i)] = at[Source(c, i)]]
    <3>1. PICK i \in call[c].todo :
                  /\ call[c].todo \subseteq call'[c].todo \cup {i}
                  /\ IF at[Source(c, i)] = Absent THEN UNCHANGED at
                     ELSE at' = [at EXCEPT ![Target(c, i)] = at[Source(c, i)]]
      BY <2>4
    <3>2. Source(c, k) \in {<<"live", k>>, <<"trash", k>>}
          /\ Target(c, k) \in {<<"live", k>>, <<"trash", k>>} /\ Source(c, k) # Target(c, k)
      BY <2>1 DEF Source, Target, Moves
    <3>3. CASE k = i
      BY <1>a, <1>c, <2>1, <3>1, <3>2, <3>3
    <3>4. CASE k # i
      <4>1. Target(c, i) \in {<<"live", i>>, <<"trash", i>>}
        BY <2>1 DEF Target, Moves
      <4>2. at'[<<"live", k>>] = at[<<"live", k>>] /\ at'[<<"trash", k>>] = at[<<"trash", k>>]
        BY <1>a, <1>c, <3>1, <3>4, <4>1
      <4>3. at[Source(c, k)] \in {Absent, at[Target(c, k)]}
        BY <2>1, <2>4, <3>1, <3>4 DEF Copied
      <4> QED  BY <2>1, <3>2, <4>2, <4>3
    <3> QED  BY <3>3, <3>4
  <2> QED  BY <1>4, <2>2, <2>3, <2>4, MoveStep
<1> QED  BY <1>1, <1>2, <1>3, <1>4 DEF Next, Step

\* One key: its newest file is in place, or in the trash with nothing in its place.
PlacedAt(live, trash, new) ==
  /\ live = new \/ (live = Absent /\ trash = new)
  /\ new = Absent => trash = Absent

\* The newest file of a key is in its folder or in the trash.
LEMMA NextPlaced == TypeInv /\ Copied /\ Placed /\ [Next]_vars => Placed'
<1> SUFFICES ASSUME TypeInv, Copied, Placed, [Next]_vars, NEW k \in Key, k \notin waived'
             PROVE  PlacedAt(at'[<<"live", k>>], at'[<<"trash", k>>], newest'[k])
  BY DEF Placed, PlacedAt
<1>a. k \notin waived => PlacedAt(at[<<"live", k>>], at[<<"trash", k>>], newest[k])
  BY DEF Placed, PlacedAt
<1>b. /\ at \in [Place -> {Cut, Absent} \cup 1..MaxCalls] /\ newest \in [Key -> 0..MaxCalls]
      /\ \A i \in Key : <<"live", i>> \in Place /\ <<"trash", i>> \in Place
  BY DEF TypeInv, StoreOK, Place
<1>c. ASSUME UNCHANGED <<at, newest, waived>>
      PROVE  PlacedAt(at'[<<"live", k>>], at'[<<"trash", k>>], newest'[k])
  BY <1>a, <1>c
<1>1. CASE UNCHANGED vars
  BY <1>1, <1>c DEF vars, store, history
<1>2. ASSUME NEW c \in Client, Begin(c)
      PROVE  PlacedAt(at'[<<"live", k>>], at'[<<"trash", k>>], newest'[k])
  BY <1>2, <1>c DEF Begin, store
<1>3. ASSUME NEW c \in Client, Step(c)
      PROVE  PlacedAt(at'[<<"live", k>>], at'[<<"trash", k>>], newest'[k])
  <2>a. call[c] \in Call /\ CallOK(call[c])
    BY DEF TypeInv, CallsOK, CallOK
  <2>1. CASE Put(c) \/ PutFails(c)
    <3>1. PICK i \in call[c].keys :
            \/ UNCHANGED <<at, newest, waived>>
            \/ at' = [at EXCEPT ![<<"live", i>>] = call[c].file]
               /\ newest' = [newest EXCEPT ![i] = call[c].file] /\ waived' = waived \ {i}
            \/ at' = [at EXCEPT ![<<"live", i>>] = Cut]
               /\ waived' = waived \cup {i} /\ UNCHANGED newest
      BY <2>1 DEF Put, PutFails
    <3>2. call[c].file # Absent /\ i \in Key
      BY <2>1, <2>a DEF Put, PutFails, CallOK, Stage, Call
    <3>3. CASE i = k
      BY <1>b, <1>c, <3>1, <3>2, <3>3 DEF PlacedAt
    <3>4. CASE i # k
      <4>1. /\ at'[<<"live", k>>] = at[<<"live", k>>] /\ at'[<<"trash", k>>] = at[<<"trash", k>>]
            /\ newest'[k] = newest[k] /\ k \notin waived
        BY <1>b, <3>1, <3>2, <3>4
      <4> QED  BY <1>a, <4>1
    <3> QED  BY <3>3, <3>4
  <2>2. CASE CopyObject(c)
    <3>1. PICK i \in call[c].todo :
            LET from == at[Source(c, i)] IN
            IF from = Absent THEN UNCHANGED <<at, newest, waived>>
            ELSE at' = [at EXCEPT ![Target(c, i)] = from] /\ Arrives(c, i, from)
      BY <2>2 DEF CopyObject
    <3>2. i \in Key /\ Twin[i] \in Key /\ call[c].op \in {"trash", "trashDir", "restore", "copy"}
      BY <2>2, <2>a, AdapterAssumption DEF CopyObject, CallOK, Stage, Call
    <3>3. CASE at[Source(c, i)] = Absent
      BY <1>c, <3>1, <3>3
    <3>4. CASE at[Source(c, i)] # Absent /\ call[c].op = "copy"
      <4>1. /\ at' = [at EXCEPT ![<<"live", Twin[i]>>] = at[Source(c, i)]]
            /\ Arrives(c, i, at[Source(c, i)])
        BY <3>1, <3>4 DEF Target
      <4>2. CASE k = Twin[i]
        BY <1>b, <3>2, <3>4, <4>1, <4>2 DEF Arrives, PlacedAt
      <4>3. CASE k # Twin[i]
        <5>1. /\ at'[<<"live", k>>] = at[<<"live", k>>] /\ at'[<<"trash", k>>] = at[<<"trash", k>>]
              /\ newest'[k] = newest[k] /\ k \notin waived
          BY <1>b, <3>2, <3>4, <4>1, <4>3 DEF Arrives
        <5> QED  BY <1>a, <5>1
      <4> QED  BY <4>2, <4>3
    <3>5. CASE at[Source(c, i)] # Absent /\ call[c].op = "restore"
      <4>1. /\ at' = [at EXCEPT ![<<"live", i>>] = at[<<"trash", i>>]] /\ at[<<"trash", i>>] # Absent
            /\ UNCHANGED newest
            /\ IF at[<<"live", i>>] \notin {Absent, at[<<"trash", i>>]} THEN waived' = waived \cup {i}
               ELSE UNCHANGED waived
        BY <3>1, <3>5 DEF Source, Target, Arrives
      <4>2. CASE k = i
        BY <1>a, <1>b, <3>2, <4>1, <4>2 DEF PlacedAt
      <4>3. CASE k # i
        <5>1. /\ at'[<<"live", k>>] = at[<<"live", k>>] /\ at'[<<"trash", k>>] = at[<<"trash", k>>]
              /\ newest'[k] = newest[k] /\ k \notin waived
          BY <1>b, <3>2, <4>1, <4>3
        <5> QED  BY <1>a, <5>1
      <4> QED  BY <4>2, <4>3
    <3>6. CASE at[Source(c, i)] # Absent /\ call[c].op \in {"trash", "trashDir"}
      <4>1. /\ at' = [at EXCEPT ![<<"trash", i>>] = at[<<"live", i>>]] /\ at[<<"live", i>>] # Absent
            /\ UNCHANGED <<newest, waived>>
        BY <3>1, <3>6 DEF Source, Target, Arrives
      <4>2. CASE k = i
        BY <1>a, <1>b, <3>2, <4>1, <4>2 DEF PlacedAt
      <4>3. CASE k # i
        <5>1. /\ at'[<<"live", k>>] = at[<<"live", k>>] /\ at'[<<"trash", k>>] = at[<<"trash", k>>]
              /\ newest'[k] = newest[k] /\ k \notin waived
          BY <1>b, <3>2, <4>1, <4>3
        <5> QED  BY <1>a, <5>1
      <4> QED  BY <4>2, <4>3
    <3> QED  BY <3>2, <3>3, <3>4, <3>5, <3>6
  <2>3. CASE DeleteObjects(c) \/ DeleteFails(c)
    <3>1. PICK K \in SUBSET call[c].page : at' = Without(c, K)
      BY <2>3 DEF DeleteObjects, DeleteFails
    <3>2. waived' = waived \cup GivenUp(c) /\ UNCHANGED newest
      BY <2>3 DEF DeleteObjects, DeleteFails
    <3>3. call[c].op \in {"trash", "trashDir", "restore", "delete", "deleteDir"}
          /\ call[c].todo = {} /\ call[c].step = "delete" /\ call[c].page \subseteq Key
      BY <2>3, <2>a DEF DeleteObjects, DeleteFails, CallOK, Stage, Call
    <3>4. k \notin waived /\ k \notin GivenUp(c)
      BY <3>2
    <3>5. CASE k \notin K
      <4>1. \A i \in K : Source(c, i) # <<"live", k>> /\ Source(c, i) # <<"trash", k>>
        BY <3>5 DEF Source
      <4>2. /\ at'[<<"live", k>>] = at[<<"live", k>>] /\ at'[<<"trash", k>>] = at[<<"trash", k>>]
        BY <1>b, <3>1, <4>1 DEF Without
      <4> QED  BY <1>a, <3>2, <3>4, <4>2
    <3>6. CASE k \in K
      <4>1. call[c].op \in Moves /\ k \in call[c].page \ (call[c].todo \cup call[c].met)
        BY <3>1, <3>3, <3>4, <3>6 DEF GivenUp
      <4>2. at[Source(c, k)] \in {Absent, at[Target(c, k)]}
        BY <3>3, <4>1 DEF Copied
      <4>3. CASE call[c].op = "restore"
        <5>1. at[<<"trash", k>>] \in {Absent, at[<<"live", k>>]}
          BY <4>2, <4>3 DEF Source, Target
        <5>2. at'[<<"trash", k>>] = Absent /\ at'[<<"live", k>>] = at[<<"live", k>>]
          <6>1. \A i \in K : Source(c, i) = <<"trash", i>>
            BY <4>3 DEF Source
          <6>2. \A i \in K : <<"trash", i>> # <<"live", k>>
            OBVIOUS
          <6> QED  BY <1>b, <3>1, <3>6, <6>1, <6>2 DEF Without
        <5> QED  BY <1>a, <3>2, <3>4, <5>1, <5>2 DEF PlacedAt
      <4>4. CASE call[c].op \in {"trash", "trashDir"}
        <5>1. at[<<"live", k>>] \in {Absent, at[<<"trash", k>>]}
          BY <4>2, <4>4 DEF Source, Target
        <5>2. at'[<<"live", k>>] = Absent /\ at'[<<"trash", k>>] = at[<<"trash", k>>]
          <6>1. \A i \in K : Source(c, i) = <<"live", i>>
            BY <4>4 DEF Source
          <6>2. \A i \in K : <<"live", i>> # <<"trash", k>>
            OBVIOUS
          <6> QED  BY <1>b, <3>1, <3>6, <6>1, <6>2 DEF Without
        <5> QED  BY <1>a, <3>2, <3>4, <5>1, <5>2 DEF PlacedAt
      <4> QED  BY <3>3, <4>1, <4>3, <4>4 DEF Moves
    <3> QED  BY <3>5, <3>6
  <2>4. CASE NoSuchBucket(c) \/ BucketMissing(c) \/ CreateBucket(c) \/ BucketExists(c)
               \/ ReadRules(c) \/ PutRules(c) \/ RulesFail(c) \/ CopyFails(c) \/ CopiesSettled(c)
    BY <1>c, <2>4 DEF NoSuchBucket, BucketMissing, CreateBucket, BucketExists, ReadRules, PutRules,
                RulesFail, CopyFails, CopiesSettled, store, history
  <2>5. CASE ListPage(c) \/ Listed(c) \/ RequestFails(c) \/ Missed(c) \/ Read(c)
               \/ StreamEnds(c) \/ ReaderLeaves(c) \/ StreamTimesOut(c) \/ Kill(c)
    BY <1>c, <2>5 DEF ListPage, Listed, RequestFails, Missed, Read, StreamEnds, ReaderLeaves,
                StreamTimesOut, Kill, store, history
  <2> QED  BY <1>3, <2>1, <2>2, <2>3, <2>4, <2>5 DEF Step, Progress, Mishap
<1> QED  BY <1>1, <1>2, <1>3 DEF Next, Step

\* An empty bucket holds no newest file.
LEMMA InitFiles == Init => FilesInv
<1> SUFFICES ASSUME Init PROVE FilesInv
  OBVIOUS
<1>1. Told /\ Copied
  BY DEF Init, Told, Copied, Idle, Writers, Moves
<1>2. Placed
  <2>1. \A k \in Key : <<"live", k>> \in Place /\ <<"trash", k>> \in Place
    BY DEF Place
  <2>2. \A k \in Key : at[<<"live", k>>] = newest[k] /\ at[<<"trash", k>>] = Absent
    BY <2>1 DEF Init
  <2> QED  BY <2>2 DEF Placed
<1> QED  BY <1>1, <1>2 DEF FilesInv

(***************************************************************************)
(* Moves lose nothing: the newest whole file of a key is in place or in    *)
(* the trash, unless what waives it has happened, however moves fail, are  *)
(* interrupted and interleave with other calls.                            *)
(***************************************************************************)
THEOREM MovesLoseNothing == Spec => []Kept
<1>1. Init => TypeInv /\ FilesInv
  BY InitTypes, InitFiles
<1>2. TypeInv /\ FilesInv /\ [Next]_vars => (TypeInv /\ FilesInv)'
  BY NextTypes, NextTold, NextCopied, NextPlaced DEF FilesInv
<1>3. FilesInv => Kept
  BY DEF FilesInv, Placed, Kept
<1> QED  BY <1>1, <1>2, <1>3, PTL DEF Spec

(***************************************************************************)
(* Directories.                                                            *)
(***************************************************************************)
DirOps == {"trashDir", "deleteDir"}

\* What a directory operation has gone through is gone, except what it has met.
Swept ==
  \A c \in Client :
    call[c].op \in DirOps =>
      \A k \in Dir \ call[c].met :
        /\ call[c].step = "list" /\ k <= call[c].marker => at[<<"live", k>>] = Absent
        /\ call[c].step \in {"copy", "delete"} /\ k \notin call[c].page
             /\ (k <= call[c].marker \/ ~call[c].more) => at[<<"live", k>>] = Absent

\* The page a listing is given.
NextPage(x) == FirstOf(PageLength(x), Present(x.marker))

\* A page holds all that is there between the marker and the next one.
LEMMA PageSweeps ==
  ASSUME NEW x \in Call, NEW n \in Int, NEW page, page = FirstOf(n, Present(x.marker))
  PROVE  /\ page \subseteq Present(x.marker) /\ IsFiniteSet(page)
         /\ n \in Nat => Cardinality(page) <= n
         /\ Last(page, x.marker) \in Nat /\ x.marker <= Last(page, x.marker)
         /\ \A k \in page : k <= Last(page, x.marker)
         /\ \A k \in Present(x.marker) : k <= Last(page, x.marker) => k \in page
<1>1. /\ Present(x.marker) \in SUBSET Nat /\ IsFiniteSet(Present(x.marker)) /\ x.marker \in Nat
      /\ \A k \in Present(x.marker) : k > x.marker
  <2>1. x.marker \in Nat
    BY DEF Call
  <2> QED  BY <2>1, PresentOK DEF Present
<1>2. /\ page \subseteq Present(x.marker)
      /\ \A k \in page, i \in Present(x.marker) : i < k => i \in page
      /\ IsFiniteSet(page) /\ (n \in Nat => Cardinality(page) <= n)
  BY <1>1, PageIsFirst
<1>3. page \in SUBSET Nat
  BY <1>1, <1>2
<1>4. /\ Last(page, x.marker) \in Nat
      /\ page = {} => Last(page, x.marker) = x.marker
      /\ page # {} => Last(page, x.marker) \in page
      /\ \A i \in page : i <= Last(page, x.marker)
  BY <1>1, <1>2, <1>3, LastOfPage
<1>5. x.marker <= Last(page, x.marker)
  BY <1>1, <1>2, <1>4
<1>6. ASSUME NEW k \in Present(x.marker), k <= Last(page, x.marker)
      PROVE  k \in page
  <2>1. k \in Nat /\ k > x.marker
    BY <1>1
  <2>2. page # {}
    BY <1>1, <1>4, <1>6, <2>1
  <2> QED  BY <1>2, <1>4, <1>6, <2>1, <2>2
<1> QED  BY <1>2, <1>4, <1>5, <1>6

\* What a step of a directory operation does.
LEMMA DirStep ==
  ASSUME TypeInv, NEW c \in Client, Step(c), call[c].op \in DirOps
  PROVE  \/ /\ call[c].step = "list" /\ UNCHANGED at
            /\ call'[c].op = call[c].op /\ call'[c].step \in {"copy", "delete"}
            /\ call'[c].page = NextPage(call[c])
            /\ call'[c].marker = Last(call'[c].page, call[c].marker)
            /\ call'[c].more = (call'[c].page # Present(call[c].marker))
            /\ call'[c].met = call[c].met
         \/ /\ call[c].step = "copy" /\ \A k \in Key : at'[<<"live", k>>] = at[<<"live", k>>]
            /\ call'[c].op = call[c].op /\ call'[c].step \in {"copy", "delete"}
            /\ call'[c].page = call[c].page /\ call'[c].marker = call[c].marker
            /\ call'[c].more = call[c].more /\ call[c].met \subseteq call'[c].met
         \/ /\ call[c].step = "delete"
            /\ \E left \in SUBSET call[c].page :
                 /\ left # {} => mishaps' = mishaps + 1
                 /\ at' = Without(c, call[c].page \ left)
                 /\ \/ /\ call[c].more /\ call'[c].step = "list" /\ call'[c].op = call[c].op
                       /\ call'[c].marker = call[c].marker /\ call'[c].met = call[c].met \cup left
                    \/ ~call[c].more /\ call'[c] = Idle
         \/ call'[c] = Idle /\ (mishaps' = mishaps + 1 \/ answer'[c] = "error")
<1>a. /\ call[c] \in Call /\ CallOK(call[c]) /\ \A next : Go(c, next) => call'[c] = next
      /\ \A how : Answer(c, how) => call'[c] = Idle /\ answer'[c] = how
  BY DEF Go, Answer, TypeInv, CallsOK, CallOK
<1>b. PICK x, y : x \in Call /\ x = call[c] /\ y = call'[c]
  BY <1>a
<1>c. x.op \in {"trashDir", "deleteDir"} /\ x.step \in {"list", "copy", "delete"}
  BY <1>a, <1>b DEF DirOps, CallOK, Stage
<1>1. \/ CopyObject(c) \/ CopyFails(c) \/ CopiesSettled(c) \/ DeleteObjects(c) \/ ListPage(c)
      \/ BucketMissing(c) \/ DeleteFails(c) \/ RequestFails(c) \/ Kill(c)
  BY <1>b, <1>c DEF Step, Progress, Mishap, Put, NoSuchBucket, CreateBucket, BucketExists, ReadRules,
              PutRules, RulesFail, Listed, Missed, Read, StreamEnds, StreamTimesOut,
              NotBothDestroyed, PutFails, ReaderLeaves
<1>2. CASE BucketMissing(c) \/ DeleteFails(c) \/ RequestFails(c) \/ Kill(c)
  BY <1>2, <1>a, <1>b, <1>c DEF BucketMissing, DeleteFails, RequestFails, Kill, Fault
<1>3. CASE DeleteObjects(c)
  <2>a. PICK left \in SUBSET x.page :
          /\ left # {} => mishaps' = mishaps + 1
          /\ at' = Without(c, x.page \ left)
          /\ \/ x.more /\ y = [x EXCEPT !.step = "list", !.page = {}, !.met = x.met \cup left]
             \/ ~x.more /\ y = Idle
    BY <1>a, <1>b, <1>3 DEF DeleteObjects, Truncated, MorePages, Fault
  <2>b. PICK S, T : S = {} /\ T = x.met \cup left
    OBVIOUS
  <2>1. LET z == [x EXCEPT !.step = "list", !.page = S, !.met = T] IN
        z.op = x.op /\ z.step = "list" /\ z.marker = x.marker /\ z.met = T
    BY <1>b DEF Call
  <2>2. \/ x.more /\ y.op = x.op /\ y.step = "list" /\ y.marker = x.marker /\ y.met = T
        \/ ~x.more /\ y = Idle
    BY <2>a, <2>b, <2>1
  <2> QED  BY <1>3, <1>b, <2>a, <2>b, <2>2 DEF DeleteObjects
<1>4. CASE ListPage(c)
  <2> DEFINE rest == Present(x.marker)
             first == FirstOf(PageLength(x), rest)
  <2>1. PICK page, m, b : page = first /\ m = Last(first, x.marker) /\ b = (first # rest)
    OBVIOUS
  <2>2. PICK next : next = [x EXCEPT !.page = page, !.marker = m, !.more = b]
    OBVIOUS
  <2>3. \/ y = [next EXCEPT !.step = "copy", !.todo = page]
        \/ y = [next EXCEPT !.step = "delete"]
    <3> HIDE DEF rest, first
    <3> QED  BY <1>a, <1>b, <1>c, <1>4, <2>1, <2>2 DEF ListPage, rest, first
  <2>4. LET z == [next EXCEPT !.step = "copy", !.todo = page] IN
        /\ z.op = x.op /\ z.step = "copy" /\ z.page = page /\ z.marker = m /\ z.met = x.met
        /\ z.more = b
    BY <1>b, <2>2 DEF Call
  <2>5. LET z == [next EXCEPT !.step = "delete"] IN
        /\ z.op = x.op /\ z.step = "delete" /\ z.page = page /\ z.marker = m /\ z.met = x.met
        /\ z.more = b
    BY <1>b, <2>2 DEF Call
  <2>6. /\ y.op = x.op /\ y.step \in {"copy", "delete"} /\ y.page = page /\ y.marker = m
        /\ y.met = x.met /\ y.more = b
    BY <2>3, <2>4, <2>5
  <2>7. x.step = "list" /\ UNCHANGED at
    BY <1>4, <1>b DEF ListPage, store
  <2>8. page = NextPage(x) /\ m = Last(page, x.marker) /\ b = (page # Present(x.marker))
    BY <2>1 DEF NextPage
  <2> QED  BY <1>b, <2>6, <2>7, <2>8
<1>5. CASE CopiesSettled(c)
  <2>1. y = [x EXCEPT !.step = "delete"]
    BY <1>a, <1>b, <1>c, <1>5 DEF CopiesSettled
  <2>2. LET z == [x EXCEPT !.step = "delete"] IN
        /\ z.op = x.op /\ z.step = "delete" /\ z.page = x.page /\ z.marker = x.marker
        /\ z.met = x.met /\ z.more = x.more
    BY <1>b DEF Call
  <2>3. x.step = "copy" /\ UNCHANGED at
    BY <1>5, <1>b DEF CopiesSettled, store
  <2> QED  BY <1>b, <2>1, <2>2, <2>3
<1>6. CASE CopyFails(c)
  <2>a. PICK k \in x.todo : y = [x EXCEPT !.todo = x.todo \ {k}, !.met = x.met \cup {k}]
    BY <1>a, <1>b, <1>6 DEF CopyFails
  <2>b. PICK S, T : S = x.todo \ {k} /\ T = x.met \cup {k}
    OBVIOUS
  <2>1. y = [x EXCEPT !.todo = S, !.met = T]
    BY <2>a, <2>b
  <2>2. LET z == [x EXCEPT !.todo = S, !.met = T] IN
        /\ z.op = x.op /\ z.step = x.step /\ z.page = x.page /\ z.marker = x.marker
        /\ z.met = T /\ z.more = x.more
    BY <1>b DEF Call
  <2>3. x.step = "copy" /\ UNCHANGED at /\ x.met \subseteq T
    BY <1>6, <1>b, <2>b DEF CopyFails, store
  <2> QED  BY <1>b, <2>1, <2>2, <2>3
<1>7. CASE CopyObject(c)
  <2>a. PICK k \in x.todo :
          /\ y = [x EXCEPT !.todo = x.todo \ {k}]
          /\ UNCHANGED at \/ at' = [at EXCEPT ![Target(c, k)] = at[Source(c, k)]]
    BY <1>a, <1>b, <1>7 DEF CopyObject
  <2>b. PICK S : S = x.todo \ {k}
    OBVIOUS
  <2>1. LET z == [x EXCEPT !.todo = S] IN
        /\ z.op = x.op /\ z.step = x.step /\ z.page = x.page /\ z.marker = x.marker
        /\ z.met = x.met /\ z.more = x.more
    BY <1>b DEF Call
  <2>2. x.op = "trashDir" /\ x.step = "copy"
    BY <1>7, <1>a, <1>b, <1>c DEF CopyObject, CallOK, Stage
  <2>3. Target(c, k) = <<"trash", k>>
    BY <1>b, <2>2 DEF Target
  <2>4. \A i \in Key : at'[<<"live", i>>] = at[<<"live", i>>]
    <3>1. \A i \in Key : <<"live", i>> \in Place /\ <<"live", i>> # <<"trash", k>>
      BY DEF Place
    <3> QED  BY <2>a, <2>3, <3>1 DEF TypeInv, StoreOK
  <2>5. /\ y.op = x.op /\ y.step = x.step /\ y.page = x.page /\ y.marker = x.marker
        /\ y.met = x.met /\ y.more = x.more
    BY <2>a, <2>b, <2>1
  <2> QED  BY <1>b, <2>2, <2>4, <2>5
<1> QED  BY <1>1, <1>2, <1>3, <1>4, <1>5, <1>6, <1>7

\* The keys of the directory a call is going through are its own, or it has met them.
LEMMA DirUntouched ==
  ASSUME TypeInv, Told, NEW c \in Client, NEW e \in Client \ {c}, Step(e),
         Touches(call[c]) = Dir, call[c].op # "none", NEW k \in Dir \ call[c].met
  PROVE  at'[<<"live", k>>] = at[<<"live", k>>]
<1>1. call[e].op \in Writers => k \notin Touches(call[e])
  BY DEF Told
<1>2. k \in Key
  BY AdapterAssumption
<1> QED  BY <1>1, <1>2, WritesOwn

\* Every step but a mishap leaves the count of mishaps alone.
LEMMA NextMishaps ==
  ASSUME mishaps \in Nat, [Next]_vars
  PROVE  mishaps' \in Nat
<1>1. ASSUME NEW c \in Client, Begin(c) \/ Step(c)
      PROVE  mishaps' = mishaps \/ mishaps' = mishaps + 1
  <2>1. CASE \/ Begin(c) \/ Put(c) \/ PutFails(c) \/ NoSuchBucket(c) \/ BucketMissing(c)
             \/ CreateBucket(c) \/ BucketExists(c) \/ ReadRules(c) \/ PutRules(c) \/ RulesFail(c)
             \/ CopyObject(c) \/ CopyFails(c)
    BY <2>1 DEF Begin, Put, PutFails, NoSuchBucket, BucketMissing, CreateBucket, BucketExists,
                ReadRules, PutRules, RulesFail, CopyObject, CopyFails, Fault
  <2>2. CASE \/ CopiesSettled(c) \/ DeleteObjects(c) \/ DeleteFails(c) \/ ListPage(c) \/ Listed(c)
             \/ RequestFails(c) \/ Missed(c) \/ Read(c) \/ StreamEnds(c) \/ ReaderLeaves(c)
             \/ StreamTimesOut(c) \/ Kill(c)
    BY <2>2 DEF CopiesSettled, DeleteObjects, DeleteFails, ListPage, Listed, RequestFails, Missed,
                Read, StreamEnds, ReaderLeaves, StreamTimesOut, Kill, Fault
  <2> QED  BY <1>1, <2>1, <2>2 DEF Step, Progress, Mishap
<1>2. CASE UNCHANGED vars
  BY <1>2 DEF vars
<1> QED  BY <1>1, <1>2 DEF Next, Step

\* What a directory operation has passed is gone, or it has met the reason.
LEMMA NextSwept == TypeInv /\ Told /\ Swept /\ [Next]_vars => Swept'
<1> SUFFICES ASSUME TypeInv, Told, Swept, [Next]_vars, NEW c \in Client,
                    call'[c].op \in DirOps, NEW k \in Dir \ call'[c].met
             PROVE  /\ call'[c].step = "list" /\ k <= call'[c].marker => at'[<<"live", k>>] = Absent
                    /\ call'[c].step \in {"copy", "delete"} /\ k \notin call'[c].page
                         /\ (k <= call'[c].marker \/ ~call'[c].more) => at'[<<"live", k>>] = Absent
  BY DEF Swept
<1>a. k \in Key /\ k \in Nat /\ k # 0 /\ <<"live", k>> \in Place /\ call[c] \in Call
  BY AdapterAssumption DEF Place, TypeInv, CallsOK
<1>b. ASSUME call'[c].op = call[c].op, call'[c].step = call[c].step, call'[c].page = call[c].page,
             call'[c].marker = call[c].marker, call'[c].more = call[c].more,
             call[c].met \subseteq call'[c].met, at'[<<"live", k>>] = at[<<"live", k>>]
      PROVE  /\ call'[c].step = "list" /\ k <= call'[c].marker => at'[<<"live", k>>] = Absent
             /\ call'[c].step \in {"copy", "delete"} /\ k \notin call'[c].page
                  /\ (k <= call'[c].marker \/ ~call'[c].more) => at'[<<"live", k>>] = Absent
  <2>1. k \in Dir \ call[c].met /\ call[c].op \in DirOps
    BY <1>b
  <2> QED  BY <1>b, <2>1 DEF Swept
<1>1. CASE UNCHANGED vars
  BY <1>1, <1>b DEF vars, store
<1>2. ASSUME NEW e \in Client, Begin(e)
      PROVE  /\ call'[c].step = "list" /\ k <= call'[c].marker => at'[<<"live", k>>] = Absent
             /\ call'[c].step \in {"copy", "delete"} /\ k \notin call'[c].page
                  /\ (k <= call'[c].marker \/ ~call'[c].more) => at'[<<"live", k>>] = Absent
  <2>1. PICK x \in CallsOf[e] : Begun(e, x)
    BY <1>2, BeginEffect
  <2>2. UNCHANGED at
    BY <1>2 DEF Begin, store
  <2>3. CASE c = e
    <3>1. call'[c].marker = 0 /\ call'[c].step = "list"
      BY <2>1, <2>3 DEF Begun, FirstStep, DirOps
    <3> QED  BY <1>a, <3>1
  <2>4. CASE c # e
    BY ZenonT(60), <1>b, <2>1, <2>2, <2>4 DEF Begun, Same
  <2> QED  BY <2>3, <2>4
<1>3. ASSUME NEW e \in Client \ {c}, Step(e)
      PROVE  /\ call'[c].step = "list" /\ k <= call'[c].marker => at'[<<"live", k>>] = Absent
             /\ call'[c].step \in {"copy", "delete"} /\ k \notin call'[c].page
                  /\ (k <= call'[c].marker \/ ~call'[c].more) => at'[<<"live", k>>] = Absent
  <2>1. call'[c] = call[c]
    BY <1>3, Others
  <2>2. Touches(call[c]) = Dir /\ call[c].op # "none"
    BY <2>1 DEF Touches, DirOps
  <2>3. at'[<<"live", k>>] = at[<<"live", k>>]
    BY <1>3, <2>1, <2>2, DirUntouched
  <2> QED  BY <1>b, <2>1, <2>3
<1>4. ASSUME Step(c)
      PROVE  /\ call'[c].step = "list" /\ k <= call'[c].marker => at'[<<"live", k>>] = Absent
             /\ call'[c].step \in {"copy", "delete"} /\ k \notin call'[c].page
                  /\ (k <= call'[c].marker \/ ~call'[c].more) => at'[<<"live", k>>] = Absent
  <2>1. call'[c] # Idle /\ call[c].op = call'[c].op /\ k \notin call[c].met
    BY <1>4, Goes DEF Idle, DirOps
  <2>2. CASE /\ call[c].step = "list" /\ UNCHANGED at
             /\ call'[c].op = call[c].op /\ call'[c].step \in {"copy", "delete"}
             /\ call'[c].page = NextPage(call[c])
             /\ call'[c].marker = Last(call'[c].page, call[c].marker)
             /\ call'[c].more = (call'[c].page # Present(call[c].marker))
             /\ call'[c].met = call[c].met
    <3>1. PageLength(call[c]) \in Int
      <4>1. call[c].found \in SUBSET Key /\ call[c].limit \in Nat
        BY <1>a DEF Call
      <4>2. Cardinality(call[c].found) \in Nat
        BY <4>1, AdapterAssumption, FS_Subset, FS_CardinalityType
      <4> QED  BY <4>1, <4>2, AdapterAssumption DEF PageLength
    <3>2. /\ call'[c].marker \in Nat
          /\ \A i \in Present(call[c].marker) : i <= call'[c].marker => i \in call'[c].page
      <4>1. PICK n, page, x : /\ n \in Int /\ n = PageLength(call[c]) /\ x \in Call /\ x = call[c]
                              /\ page = FirstOf(n, Present(x.marker))
        BY <1>a, <3>1
      <4>2. /\ Last(page, x.marker) \in Nat
            /\ \A i \in Present(x.marker) : i <= Last(page, x.marker) => i \in page
        BY <4>1, PageSweeps
      <4>3. call'[c].page = page /\ call'[c].marker = Last(page, call[c].marker)
        BY <2>2, <4>1 DEF NextPage
      <4> QED  BY <4>1, <4>2, <4>3
    <3>3. CASE k <= call[c].marker
      BY <2>1, <2>2, <3>3 DEF Swept
    <3>4. CASE ~(k <= call[c].marker)
      <4>1. call[c].marker \in Nat
        BY <1>a DEF Call
      <4>2. at[<<"live", k>>] # Absent => k \in Present(call[c].marker)
        BY <1>a, <3>4, <4>1 DEF Present
      <4> QED  BY <2>2, <3>2, <4>2
    <3> QED  BY <3>3, <3>4
  <2>3. CASE /\ call[c].step = "copy" /\ \A i \in Key : at'[<<"live", i>>] = at[<<"live", i>>]
             /\ call'[c].op = call[c].op /\ call'[c].step \in {"copy", "delete"}
             /\ call'[c].page = call[c].page /\ call'[c].marker = call[c].marker
             /\ call'[c].more = call[c].more /\ call[c].met \subseteq call'[c].met
    <3>1. call[c].step \in {"copy", "delete"} /\ call[c].op \in DirOps /\ k \in Dir \ call[c].met
      BY <2>1, <2>3
    <3>2. /\ k \notin call[c].page /\ (k <= call[c].marker \/ ~call[c].more) => at[<<"live", k>>] = Absent
      BY <3>1 DEF Swept
    <3>3. /\ call'[c].step # "list" /\ at'[<<"live", k>>] = at[<<"live", k>>]
          /\ call'[c].page = call[c].page /\ call'[c].marker = call[c].marker
          /\ call'[c].more = call[c].more
      BY <1>a, <2>3
    <3> QED  BY <3>2, <3>3
  <2>4. CASE /\ call[c].step = "delete"
             /\ \E left \in SUBSET call[c].page :
                  /\ left # {} => mishaps' = mishaps + 1
                  /\ at' = Without(c, call[c].page \ left)
                  /\ \/ /\ call[c].more /\ call'[c].step = "list" /\ call'[c].op = call[c].op
                        /\ call'[c].marker = call[c].marker /\ call'[c].met = call[c].met \cup left
                     \/ ~call[c].more /\ call'[c] = Idle
    <3>1. PICK left \in SUBSET call[c].page :
            /\ at' = Without(c, call[c].page \ left)
            /\ call[c].more /\ call'[c].step = "list" /\ call'[c].op = call[c].op
            /\ call'[c].marker = call[c].marker /\ call'[c].met = call[c].met \cup left
      BY <2>1, <2>4
    <3>2. Source(c, k) = <<"live", k>>
      BY <2>1 DEF Source, DirOps
    <3>3. CASE k \in call[c].page
      <4>1. k \in call[c].page \ left
        BY <3>1, <3>3
      <4> QED  BY <1>a, <3>1, <3>2, <4>1 DEF Without
    <3>4. CASE k \notin call[c].page
      <4>1. k <= call[c].marker => at[<<"live", k>>] = Absent
        BY <2>1, <2>4, <3>4 DEF Swept
      <4>2. at'[<<"live", k>>] \in {Absent, at[<<"live", k>>]}
        BY <1>a, <3>1 DEF Without
      <4> QED  BY <3>1, <4>1, <4>2
    <3> QED  BY <3>3, <3>4
  <2> QED
    <3>1. call[c].op \in DirOps
      BY <2>1
    <3> QED  BY <1>4, <2>1, <2>2, <2>3, <2>4, <3>1, DirStep
<1> QED  BY <1>1, <1>2, <1>3, <1>4 DEF Next, Step

\* A directory operation that ends without an error has gone through it all.
LEMMA DirEnds ==
  ASSUME TypeInv, Swept, mishaps \in Nat, NEW c \in Client, Step(c),
         call[c].op \in DirOps, call'[c] = Idle, answer'[c] = "ok", mishaps' = mishaps,
         NEW k \in Dir \ call[c].met
  PROVE  at'[<<"live", k>>] = Absent
<1>a. k \in Key /\ <<"live", k>> \in Place /\ call'[c].op = "none"
  BY AdapterAssumption DEF Place, Idle
<1>1. PICK left \in SUBSET call[c].page :
        /\ call[c].step = "delete" /\ left = {} /\ at' = Without(c, call[c].page \ left)
        /\ ~call[c].more
  <2>1. mishaps' # mishaps + 1 /\ answer'[c] # "error" /\ call'[c].op # call[c].op
    BY <1>a DEF DirOps
  <2>2. call[c].step = "delete" /\ \E left \in SUBSET call[c].page :
                 /\ left # {} => mishaps' = mishaps + 1
                 /\ at' = Without(c, call[c].page \ left)
                 /\ \/ /\ call[c].more /\ call'[c].step = "list" /\ call'[c].op = call[c].op
                       /\ call'[c].marker = call[c].marker /\ call'[c].met = call[c].met \cup left
                    \/ ~call[c].more /\ call'[c] = Idle
    BY <2>1, DirStep
  <2> QED  BY <2>1, <2>2
<1>2. Source(c, k) = <<"live", k>>
  BY DEF Source, DirOps
<1>3. CASE k \in call[c].page
  BY <1>a, <1>1, <1>2, <1>3 DEF Without
<1>4. CASE k \notin call[c].page
  <2>1. at[<<"live", k>>] = Absent
    BY <1>1, <1>4 DEF Swept
  <2> QED  BY <1>a, <1>1, <2>1 DEF Without
<1> QED  BY <1>3, <1>4

(***************************************************************************)
(* A directory that has been deleted or moved without an error is empty,   *)
(* however many pages it had and whatever happened meanwhile, except for   *)
(* what other calls have touched, S3 refused or could not be copied.       *)
(***************************************************************************)
THEOREM DirectoriesEmptied == Spec => DirectoryEmptied
<1> DEFINE Inv == TypeInv /\ Told /\ Swept /\ mishaps \in Nat
<1>1. Init => Inv
  <2>1. Init => Told /\ Swept /\ mishaps \in Nat
    BY DEF Init, Told, Swept, DirOps, Idle, Writers, Moves
  <2> QED  BY <2>1, InitTypes
<1>2. Inv /\ [Next]_vars => Inv'
  BY NextTypes, NextTold, NextSwept, NextMishaps
<1>3. ASSUME Inv, [Next]_vars
      PROVE  [\A c \in Client :
                call[c].op \in {"deleteDir", "trashDir"} /\ call'[c] = Idle /\ answer'[c] = "ok"
                  /\ mishaps' = mishaps
                => \A k \in Dir \ call[c].met : at'[<<"live", k>>] = Absent]_vars
  <2> SUFFICES ASSUME ~UNCHANGED vars, NEW c \in Client, call[c].op \in {"deleteDir", "trashDir"},
                      call'[c] = Idle, answer'[c] = "ok", mishaps' = mishaps,
                      NEW k \in Dir \ call[c].met
               PROVE  at'[<<"live", k>>] = Absent
    OBVIOUS
  <2>1. call'[c].op # call[c].op
    BY DEF Idle
  <2>2. ASSUME NEW e \in Client, Begin(e)
        PROVE  FALSE
    <3>1. PICK x \in CallsOf[e] : Begun(e, x)
      BY <1>3, <2>2, BeginEffect
    <3>2. CASE c = e
      <4>1. call[c] = Idle
        BY <2>2, <3>2 DEF Begin
      <4> QED  BY <4>1 DEF Idle
    <3>3. CASE c # e
      BY <2>1, <3>1, <3>3 DEF Begun, Same
    <3> QED  BY <3>2, <3>3
  <2>3. ASSUME NEW e \in Client \ {c}, Step(e)
        PROVE  FALSE
    BY <1>3, <2>1, <2>3, Others
  <2>4. Step(c)
    BY <1>3, <2>2, <2>3 DEF Next, Step
  <2> QED  BY <1>3, <2>4, DirEnds DEF DirOps
<1> HIDE DEF Inv
<1> QED  BY <1>1, <1>2, <1>3, PTL DEF Spec, DirectoryEmptied

(***************************************************************************)
(* Listings.                                                               *)
(***************************************************************************)
\* A listing has found all that is there up to its marker, if nobody has touched it.
ListedSoFar ==
  \A c \in Client :
    LET x == call[c] IN
    x.op = "list" =>
      /\ x.step = "list" =>
           /\ x.limit # 0 => Cardinality(x.found) < x.limit
           /\ x.met = {} => x.found = {k \in Present(0) : k <= x.marker}
      /\ x.step = "listed" =>
           /\ x.limit # 0 => Cardinality(x.found) <= x.limit
           /\ x.met = {} =>
                x.found = (IF x.limit = 0 THEN Present(0) ELSE FirstOf(x.limit, Present(0)))

\* What a step of a listing does.
LEMMA ListStep ==
  ASSUME TypeInv, NEW c \in Client, Step(c), call[c].op = "list"
  PROVE  \/ call'[c] = Idle
         \/ LET page == NextPage(call[c])
                found == call[c].found \cup page
                goesOn == GoesOn(call[c], found, page # Present(call[c].marker))
            IN /\ UNCHANGED at /\ call[c].step = "list"
               /\ call'[c].op = "list" /\ call'[c].limit = call[c].limit
               /\ call'[c].found = found /\ call'[c].met = call[c].met
               /\ call'[c].marker = Last(page, call[c].marker)
               /\ call'[c].step = IF goesOn THEN "list" ELSE "listed"
<1>a. /\ call[c] \in Call /\ CallOK(call[c]) /\ \A next : Go(c, next) => call'[c] = next
      /\ \A how : Answer(c, how) => call'[c] = Idle
  BY DEF Go, Answer, TypeInv, CallsOK, CallOK
<1>b. PICK x, y : x \in Call /\ x = call[c] /\ y = call'[c]
  BY <1>a
<1>c. x.op = "list" /\ x.step \in {"list", "listed"}
  BY <1>a, <1>b DEF CallOK, Stage
<1>1. \/ ListPage(c) \/ Listed(c) \/ BucketMissing(c) \/ RequestFails(c) \/ Kill(c)
  BY <1>b, <1>c DEF Step, Progress, Mishap, Put, NoSuchBucket, CreateBucket, BucketExists, ReadRules,
              PutRules, RulesFail, CopyObject, CopyFails, CopiesSettled, DeleteObjects, DeleteFails,
              Missed, Read, StreamEnds, StreamTimesOut, NotBothDestroyed, PutFails, ReaderLeaves
<1>2. CASE Listed(c) \/ BucketMissing(c) \/ RequestFails(c) \/ Kill(c)
  BY <1>2, <1>a DEF Listed, BucketMissing, RequestFails, Kill
<1>3. CASE ListPage(c)
  <2> DEFINE rest == Present(x.marker)
             first == FirstOf(PageLength(x), rest)
  <2>1. PICK page, m, b, found : page = first /\ m = Last(first, x.marker) /\ b = (first # rest)
                                 /\ found = x.found \cup first
    OBVIOUS
  <2>2. PICK next : next = [x EXCEPT !.page = page, !.marker = m, !.more = b]
    OBVIOUS
  <2>3. IF GoesOn(x, found, b) THEN y = [next EXCEPT !.found = found]
        ELSE y = [next EXCEPT !.found = found, !.step = "listed"]
    <3> HIDE DEF rest, first
    <3> QED  BY <1>a, <1>b, <1>c, <1>3, <2>1, <2>2 DEF ListPage, rest, first
  <2>4. LET z == [next EXCEPT !.found = found] IN
        /\ z.op = x.op /\ z.step = x.step /\ z.limit = x.limit /\ z.marker = m /\ z.met = x.met
        /\ z.found = found
    BY <1>b, <2>2 DEF Call
  <2>5. LET z == [next EXCEPT !.found = found, !.step = "listed"] IN
        /\ z.op = x.op /\ z.step = "listed" /\ z.limit = x.limit /\ z.marker = m /\ z.met = x.met
        /\ z.found = found
    BY <1>b, <2>2 DEF Call
  <2>6. x.step = "list" /\ UNCHANGED at
    BY <1>3, <1>b DEF ListPage, store
  <2>7. /\ y.op = x.op /\ y.limit = x.limit /\ y.marker = m /\ y.met = x.met /\ y.found = found
        /\ y.step = IF GoesOn(x, found, b) THEN "list" ELSE "listed"
    BY <2>3, <2>4, <2>5, <2>6
  <2>8. page = NextPage(x) /\ m = Last(page, x.marker) /\ b = (page # Present(x.marker))
        /\ found = x.found \cup page
    BY <2>1 DEF NextPage
  <2> QED  BY <1>b, <1>c, <2>6, <2>7, <2>8
<1> QED  BY <1>1, <1>2, <1>3

\* A page continues what has been found.
LEMMA PageContinues ==
  ASSUME NEW x \in Call, NEW page, NEW n \in Nat, page = FirstOf(n, Present(x.marker)),
         x.found = {k \in Present(0) : k <= x.marker}
  PROVE  LET found == x.found \cup page IN
         /\ found = {k \in Present(0) : k <= Last(page, x.marker)}
         /\ \A k \in found, i \in Present(0) : i < k => i \in found
         /\ page = Present(x.marker) => found = Present(0)
<1> DEFINE found == x.found \cup page
           m == Last(page, x.marker)
<1>1. /\ x.marker \in Nat /\ m \in Nat /\ x.marker <= m /\ page \subseteq Present(x.marker)
      /\ \A k \in page : k <= m
      /\ \A k \in Present(x.marker) : k <= m => k \in page
  <2>1. x.marker \in Nat
    BY DEF Call
  <2>2. n \in Int
    OBVIOUS
  <2>3. /\ page \subseteq Present(x.marker) /\ IsFiniteSet(page)
        /\ n \in Nat => Cardinality(page) <= n
        /\ Last(page, x.marker) \in Nat /\ x.marker <= Last(page, x.marker)
        /\ \A k \in page : k <= Last(page, x.marker)
        /\ \A k \in Present(x.marker) : k <= Last(page, x.marker) => k \in page
    BY <2>2, PageSweeps
  <2> QED  BY <2>1, <2>3
<1> HIDE DEF m
<1>2. /\ \A k \in Dir : k \in Nat /\ k # 0
      /\ \A k \in Present(0) : k \in Dir /\ (k > x.marker => k \in Present(x.marker))
      /\ \A k \in Present(x.marker) : k \in Present(0) /\ k \in Dir
  <2>1. \A k \in Dir : k \in Nat /\ k # 0 /\ k > 0
    BY AdapterAssumption
  <2>2. \A k \in Present(0) : k \in Dir /\ (k > x.marker => k \in Present(x.marker))
    BY DEF Present
  <2>3. \A k \in Present(x.marker) : k \in Present(0) /\ k \in Dir
    BY <2>1 DEF Present
  <2> QED  BY <2>1, <2>2, <2>3
<1>3. ASSUME NEW k \in found
      PROVE  k \in Present(0) /\ k <= m
  BY <1>1, <1>2, <1>3
<1>4. ASSUME NEW k \in Present(0), k <= m
      PROVE  k \in found
  BY <1>1, <1>2, <1>4
<1>5. found = {k \in Present(0) : k <= m}
  BY <1>3, <1>4
<1>6. ASSUME NEW k \in found, NEW i \in Present(0), i < k
      PROVE  i \in found
  BY <1>1, <1>2, <1>3, <1>4, <1>6
<1>7. ASSUME page = Present(x.marker), NEW k \in Present(0)
      PROVE  k \in found
  BY <1>1, <1>2, <1>7
<1> QED  BY <1>2, <1>3, <1>5, <1>6, <1>7 DEF m

\* What a listing has put together so far is the beginning of what is there.
LEMMA NextListed == TypeInv /\ Told /\ ListedSoFar /\ [Next]_vars => ListedSoFar'
<1> DEFINE Right(x, here) ==
             /\ x.step = "list" =>
                  /\ x.limit # 0 => Cardinality(x.found) < x.limit
                  /\ x.met = {} => x.found = {k \in here : k <= x.marker}
             /\ x.step = "listed" =>
                  /\ x.limit # 0 => Cardinality(x.found) <= x.limit
                  /\ x.met = {} => x.found = (IF x.limit = 0 THEN here ELSE FirstOf(x.limit, here))
<1> SUFFICES ASSUME TypeInv, Told, ListedSoFar, [Next]_vars, NEW c \in Client, call'[c].op = "list"
             PROVE  Right(call'[c], Present(0)')
  BY DEF ListedSoFar
<1>a. call[c] \in Call /\ (call[c].op = "list" => Right(call[c], Present(0)))
  BY DEF ListedSoFar, TypeInv, CallsOK
<1>b. ASSUME call'[c].op = call[c].op, call'[c].step = call[c].step, call'[c].found = call[c].found,
             call'[c].limit = call[c].limit, call'[c].marker = call[c].marker,
             call[c].met \subseteq call'[c].met,
             call[c].met = {} => Present(0)' = Present(0)
      PROVE  Right(call'[c], Present(0)')
  BY <1>a, <1>b
<1>1. CASE UNCHANGED vars
  BY <1>1, <1>b DEF vars, store, Present
<1>2. ASSUME NEW e \in Client, Begin(e)
      PROVE  Right(call'[c], Present(0)')
  <2>1. PICK x \in CallsOf[e] : Begun(e, x)
    BY <1>2, BeginEffect
  <2>2. Present(0)' = Present(0)
    BY <1>2 DEF Begin, store, Present
  <2>3. CASE c = e
    <3>1. /\ call'[c].marker = 0 /\ call'[c].step = "list" /\ call'[c].found = {}
          /\ call'[c].limit \in Nat
      BY <2>1, <2>3 DEF Begun, FirstStep
    <3>2. {k \in Present(0)' : k <= 0} = {}
      <4>1. \A k \in Dir : k \in Nat /\ ~(k <= 0)
        <5> SUFFICES ASSUME NEW k \in Dir PROVE k \in Nat /\ ~(k <= 0)
          OBVIOUS
        <5>1. k \in Nat /\ k # 0
          BY AdapterAssumption
        <5> QED  BY <5>1
      <4> QED  BY <4>1 DEF Present
    <3>3. Cardinality(call'[c].found) = 0
      BY <3>1, FS_EmptySet
    <3> QED  BY <3>1, <3>2, <3>3
  <2>4. CASE c # e
    <3>1. /\ call'[c].op = call[c].op /\ call'[c].step = call[c].step /\ call'[c].found = call[c].found
          /\ call'[c].limit = call[c].limit /\ call'[c].marker = call[c].marker
          /\ call[c].met \subseteq call'[c].met
      BY <2>1, <2>4 DEF Begun, Same
    <3> QED  BY <1>b, <2>2, <3>1
  <2> QED  BY <2>3, <2>4
<1>3. ASSUME NEW e \in Client \ {c}, Step(e)
      PROVE  Right(call'[c], Present(0)')
  <2>1. call'[c] = call[c]
    BY <1>3, Others
  <2>2. Touches(call[c]) = Dir /\ call[c].op # "none"
    BY <2>1 DEF Touches
  <2>3. ASSUME call[c].met = {}
        PROVE  Present(0)' = Present(0)
    <3>1. \A k \in Dir : at'[<<"live", k>>] = at[<<"live", k>>]
      BY <1>3, <2>2, <2>3, DirUntouched
    <3> QED  BY <3>1 DEF Present
  <2> QED  BY <1>b, <2>1, <2>3
<1>4. ASSUME Step(c)
      PROVE  Right(call'[c], Present(0)')
  <2>1. call'[c] # Idle /\ call[c].op = "list"
    BY <1>4, Goes DEF Idle
  <2>2. PICK x, n, page, found, here :
          /\ x \in Call /\ x = call[c] /\ n = PageLength(x) /\ here = Present(0)
          /\ page = FirstOf(n, Present(x.marker)) /\ found = x.found \cup page
    BY <1>a
  <2>3. /\ UNCHANGED at /\ x.step = "list" /\ call'[c].limit = x.limit
        /\ call'[c].found = found /\ call'[c].met = x.met
        /\ call'[c].marker = Last(page, x.marker)
        /\ call'[c].step = IF GoesOn(x, found, page # Present(x.marker)) THEN "list" ELSE "listed"
    BY <1>4, <2>1, <2>2, ListStep DEF NextPage
  <2>4. /\ x.limit \in Nat /\ x.found \in SUBSET Key /\ IsFiniteSet(x.found)
        /\ Cardinality(x.found) \in Nat
    <3>1. x.limit \in Nat /\ x.found \in SUBSET Key
      BY <2>2 DEF Call
    <3> QED  BY <3>1, AdapterAssumption, FS_Subset, FS_CardinalityType
  <2>5. /\ x.limit # 0 => Cardinality(x.found) < x.limit
        /\ x.met = {} => x.found = {k \in here : k <= x.marker}
    BY <1>a, <2>1, <2>2, <2>3
  <2>6. n \in Nat /\ (x.limit # 0 => n <= x.limit - Cardinality(x.found))
    BY <2>2, <2>4, <2>5, AdapterAssumption DEF PageLength
  <2>7. IsFiniteSet(page) /\ Cardinality(page) <= n /\ Cardinality(page) \in Nat
    <3>1. IsFiniteSet(page) /\ Cardinality(page) <= n
      BY <2>2, <2>6, PageSweeps
    <3> QED  BY <3>1, FS_CardinalityType
  <2>8. /\ IsFiniteSet(found) /\ Cardinality(found) \in Nat
        /\ Cardinality(found) <= Cardinality(x.found) + Cardinality(page)
    <3>1. IsFiniteSet(x.found \cap page)
      BY ZenonT(60), <2>4, FS_Subset
    <3>2. Cardinality(x.found \cap page) \in Nat
      BY <3>1, FS_CardinalityType
    <3>3. /\ IsFiniteSet(found)
          /\ Cardinality(found) = Cardinality(x.found) + Cardinality(page)
                                    - Cardinality(x.found \cap page)
      BY ZenonT(60), <2>2, <2>4, <2>7, FS_Union
    <3>4. Cardinality(found) \in Nat
      BY <3>3, FS_CardinalityType
    <3> QED  BY <2>4, <2>7, <3>2, <3>3, <3>4
  <2>9. x.limit # 0 => Cardinality(found) <= x.limit
    BY <2>4, <2>6, <2>7, <2>8
  <2>10. ASSUME x.met = {}
         PROVE  /\ found = {k \in here : k <= Last(page, x.marker)}
                /\ \A k \in found, i \in here : i < k => i \in found
                /\ page = Present(x.marker) => found = here
    BY <2>2, <2>5, <2>6, <2>10, PageContinues
  <2>11. Present(0)' = here
    BY <2>2, <2>3 DEF Present
  <2>12. CASE GoesOn(x, found, page # Present(x.marker))
    <3>1. x.limit # 0 => Cardinality(found) < x.limit
      BY <2>12 DEF GoesOn
    <3> QED  BY <2>3, <2>10, <2>11, <2>12, <3>1
  <2>13. CASE ~GoesOn(x, found, page # Present(x.marker))
    <3>1. ASSUME x.met = {}
          PROVE  found = (IF x.limit = 0 THEN here ELSE FirstOf(x.limit, here))
      <4>1. CASE x.limit = 0
        BY <2>10, <2>13, <3>1, <4>1 DEF GoesOn
      <4>2. CASE x.limit # 0
        <5>1. here \in SUBSET Nat /\ IsFiniteSet(here)
          BY <2>2, PresentOK
        <5>2. Cardinality(found) = x.limit \/ found = here
          BY <2>4, <2>8, <2>9, <2>10, <2>13, <3>1, <4>2 DEF GoesOn
        <5>3. found \in SUBSET here
          BY <2>10, <3>1
        <5>4. Cardinality(found) = x.limit \/ (found = here /\ Cardinality(found) <= x.limit)
          BY <2>9, <4>2, <5>2
        <5>5. \A k \in found, i \in here : i < k => i \in found
          BY <2>10, <3>1
        <5>6. found = FirstOf(x.limit, here)
          BY <2>4, <5>1, <5>3, <5>4, <5>5, FirstIsUnique
        <5> QED  BY <4>2, <5>6
      <4> QED  BY <4>1, <4>2
    <3> QED  BY <2>3, <2>9, <2>11, <2>13, <3>1
  <2> QED  BY <2>12, <2>13
<1> QED  BY <1>1, <1>2, <1>3, <1>4 DEF Next, Step

(***************************************************************************)
(* A listing answers with the files of the directory, or the first of them *)
(* up to its limit, from however many pages it is put together.            *)
(***************************************************************************)
THEOREM ListingsComplete == Spec => []ListsDirectory
<1>1. Init => TypeInv /\ Told /\ ListedSoFar
  <2>1. Init => Told /\ ListedSoFar
    BY DEF Init, Told, ListedSoFar, Idle, Writers, Moves
  <2> QED  BY <2>1, InitTypes
<1>2. TypeInv /\ Told /\ ListedSoFar /\ [Next]_vars => (TypeInv /\ Told /\ ListedSoFar)'
  BY NextTypes, NextTold, NextListed
<1>3. TypeInv /\ ListedSoFar => ListsDirectory
  <2> SUFFICES ASSUME TypeInv, ListedSoFar, NEW c \in Client, call[c].step = "listed"
               PROVE  /\ call[c].limit # 0 => Cardinality(call[c].found) <= call[c].limit
                      /\ call[c].met = {} =>
                           call[c].found = (IF call[c].limit = 0 THEN Present(0)
                                            ELSE FirstOf(call[c].limit, Present(0)))
    BY DEF ListsDirectory
  <2>1. call[c].op = "list"
    BY DEF TypeInv, CallsOK, CallOK, Stage
  <2> QED  BY <2>1 DEF ListedSoFar
<1> QED  BY <1>1, <1>2, <1>3, PTL DEF Spec

(***************************************************************************)
(* What CallsEnd rests on.  What a call still has to do is less after each *)
(* of its requests, however they are answered, and never more because of   *)
(* another call: the directory is read from its beginning to its end, page *)
(* by page, and nobody takes a bucket away once it is there, so that its   *)
(* creation cannot go round.                                               *)
(***************************************************************************)
\* The keys a listing has not passed yet.
Ahead(marker) == {k \in Key : k > marker}

\* How far the call x is from its end, or from the next page of its directory.
Rank(x, exists) ==
  CASE x.step \in {"put", "rules"}      -> IF exists THEN 3 ELSE 5
    [] x.step = "bucket"                -> 4
    [] x.step = "putRules"              -> 2
    [] x.step = "copy"                  -> IF x.more THEN 5 ELSE 2
    [] x.step = "delete"                -> IF x.more THEN 4 ELSE 1
    [] x.step \in {"list", "read"}      -> 3
    [] x.step = "stream"                -> 2
    [] x.step \in {"listed", "left"}    -> 1
    [] OTHER                            -> 0

WorkOf(c) == <<Ahead(call[c].marker), <<Rank(call[c], bucket), call[c].todo>>>>

\* Numbers are ordered by size, finite sets by inclusion.
Below == {ss \in Nat \X Nat : ss[1] < ss[2]}

PageMeasures == Nat \X FiniteSubsetsOf(Key)
WorkMeasures == FiniteSubsetsOf(Key) \X PageMeasures

PageOrder == LexPairOrdering(Below, StrictSubsetOrdering(Key), Nat, FiniteSubsetsOf(Key))
WorkOrder == LexPairOrdering(StrictSubsetOrdering(Key), PageOrder, FiniteSubsetsOf(Key), PageMeasures)

\* What a step does to a call that is under way: it ends it, or leaves it less to do, or
\* tells it of no more than the keys of another call.
WindsDown(c) ==
  \/ call'[c] = Idle
  \/ <<WorkOf(c)', WorkOf(c)>> \in WorkOrder
  \/ WorkOf(c)' = WorkOf(c) /\ Same(call[c], call'[c], {"met"})

CallsWindDown == \A c \in Client : call[c] # Idle => WindsDown(c)

WorkCounts == \A c \in Client : WorkOf(c) \in WorkMeasures

\* Only a listing puts together what it has found.
FoundNothing == \A c \in Client : call[c].op \in DirOps => call[c].found = {}

LEMMA WorkOrderWellFounded == IsWellFoundedOn(WorkOrder, WorkMeasures)
<1>1. OpToRel(<, Nat) = Below
  BY DEF OpToRel, Below
<1>2. IsWellFoundedOn(Below, Nat)
  BY <1>1, NatLessThanWellFounded
<1>3. IsWellFoundedOn(PageOrder, PageMeasures)
  BY <1>2, WFLexPairOrdering, FS_StrictSubsetOrderingWellFounded, Zenon DEF PageOrder, PageMeasures
<1> QED  BY <1>3, WFLexPairOrdering, FS_StrictSubsetOrderingWellFounded, Zenon DEF WorkOrder, WorkMeasures

\* The order, spelled out.
LEMMA LessWork ==
  ASSUME NEW A \in FiniteSubsetsOf(Key), NEW B \in FiniteSubsetsOf(Key), NEW n \in Nat, NEW m \in Nat,
         NEW S \in FiniteSubsetsOf(Key), NEW T \in FiniteSubsetsOf(Key),
         \/ A \subseteq B /\ A # B
         \/ A = B /\ n < m
         \/ A = B /\ n = m /\ S \subseteq T /\ S # T
  PROVE  <<<<A, <<n, S>>>>, <<B, <<m, T>>>>>> \in WorkOrder
<1>1. A \in SUBSET Key /\ B \in SUBSET Key /\ S \in SUBSET Key /\ T \in SUBSET Key
  BY DEF FiniteSubsetsOf
<1>2. A \subseteq B /\ A # B => <<A, B>> \in StrictSubsetOrdering(Key)
  BY <1>1 DEF StrictSubsetOrdering
<1>3. S \subseteq T /\ S # T => <<S, T>> \in StrictSubsetOrdering(Key)
  BY <1>1 DEF StrictSubsetOrdering
<1>4. n < m => <<n, m>> \in Below
  BY DEF Below
<1>5. <<n, S>> \in PageMeasures /\ <<m, T>> \in PageMeasures
  BY DEF PageMeasures
<1>6. n < m \/ (n = m /\ S \subseteq T /\ S # T) => <<<<n, S>>, <<m, T>>>> \in PageOrder
  BY <1>3, <1>4, <1>5 DEF PageOrder, PageMeasures, LexPairOrdering
<1>7. <<A, <<n, S>>>> \in FiniteSubsetsOf(Key) \X PageMeasures
      /\ <<B, <<m, T>>>> \in FiniteSubsetsOf(Key) \X PageMeasures
  BY <1>5
<1>8. <<A, B>> \in StrictSubsetOrdering(Key) \/ (A = B /\ <<<<n, S>>, <<m, T>>>> \in PageOrder)
  BY <1>2, <1>6
<1> QED  BY <1>7, <1>8 DEF WorkOrder, LexPairOrdering

\* What the work is made of.
LEMMA WorkParts ==
  ASSUME NEW x \in Call, NEW exists
  PROVE  /\ Ahead(x.marker) \in FiniteSubsetsOf(Key)
         /\ Rank(x, exists) \in 0..5
         /\ x.todo \in FiniteSubsetsOf(Key)
<1>1. Ahead(x.marker) \subseteq Key /\ x.todo \subseteq Key
  BY DEF Ahead, Call
<1>2. IsFiniteSet(Ahead(x.marker)) /\ IsFiniteSet(x.todo)
  BY <1>1, AdapterAssumption, FS_Subset
<1>3. Rank(x, exists) \in 0..5
  BY DEF Rank
<1> QED  BY <1>1, <1>2, <1>3 DEF FiniteSubsetsOf

\* The first files of a directory are some if there are any.
LEMMA FirstNotEmpty ==
  ASSUME NEW K \in SUBSET Nat, IsFiniteSet(K), K # {}, NEW n \in Int, n > 0
  PROVE  FirstOf(n, K) # {}
<1>1. PICK k \in K : \A i \in K : ~ (<<i, k>> \in OpToRel(<, Nat))
  BY WFMin, NatLessThanWellFounded
<1>2. \A i \in K : ~ (i < k)
  BY <1>1 DEF OpToRel
<1>3. {i \in K : i < k} = {}
  BY <1>2
<1>4. Cardinality({i \in K : i < k}) < n
  BY <1>3, FS_EmptySet
<1> QED  BY <1>4 DEF FirstOf

\* A page gets on if there is more to get.
LEMMA PageGetsOn ==
  ASSUME TypeInv, ListedSoFar, FoundNothing, NEW c \in Client, call[c].step = "list"
  PROVE  LET x == call[c]  page == NextPage(x)  m == Last(page, x.marker) IN
         /\ page # Present(x.marker) => page # {}
         /\ page = {} => m = x.marker
         /\ page # {} => Ahead(m) \subseteq Ahead(x.marker) /\ Ahead(m) # Ahead(x.marker)
<1> PICK x \in Call : x = call[c] /\ CallOK(x)
  BY DEF TypeInv, CallsOK, CallOK
<1>1. x.op \in DirOps \cup {"list"}
  BY DEF CallOK, Stage, DirOps
<1>2. x.limit \in Nat /\ PageSize \in Nat \ {0} /\ x.marker \in Nat
  BY AdapterAssumption DEF Call
<1>3. x.limit # 0 => Cardinality(x.found) < x.limit /\ Cardinality(x.found) \in Nat
  <2>1. CASE x.op = "list"
    <3>1. IsFiniteSet(x.found)
      <4>1. x.found \in SUBSET Key
        BY DEF Call
      <4> QED  BY <4>1, AdapterAssumption, FS_Subset
    <3> QED  BY <2>1, <3>1, FS_CardinalityType DEF ListedSoFar
  <2>2. CASE x.op \in DirOps
    BY <1>2, <2>2, FS_EmptySet DEF FoundNothing
  <2> QED  BY <1>1, <2>1, <2>2
<1>4. PageLength(x) \in Int /\ PageLength(x) > 0
  <2>1. CASE x.limit = 0
    BY <1>2, <2>1 DEF PageLength
  <2>2. CASE x.limit # 0
    BY <1>2, <1>3, <2>2 DEF PageLength
  <2> QED  BY <2>1, <2>2
<1> PICK n, page, m : n \in Int /\ n = PageLength(x) /\ page = NextPage(x) /\ m = Last(page, x.marker)
  BY <1>4
<1>5. page = FirstOf(n, Present(x.marker))
  BY DEF NextPage
<1>6. Present(x.marker) \in SUBSET Nat /\ IsFiniteSet(Present(x.marker))
  BY <1>2, PresentOK
<1>7. Present(x.marker) # {} => page # {}
  BY <1>4, <1>5, <1>6, FirstNotEmpty
<1>8. page \subseteq Present(x.marker) /\ IsFiniteSet(page)
  BY <1>5, PageSweeps
<1>9. /\ page = {} => m = x.marker
      /\ page # {} => m \in page
  BY <1>2, <1>6, <1>8, LastOfPage
<1>10. ASSUME page # {}
       PROVE  Ahead(m) \subseteq Ahead(x.marker) /\ Ahead(m) # Ahead(x.marker)
  <2>1. m \in Key /\ m > x.marker /\ m \in Nat
    <3>1. m \in Present(x.marker)
      BY <1>8, <1>9, <1>10
    <3> QED  BY <3>1, AdapterAssumption DEF Present
  <2>2. \A k \in Key : k \in Nat
    BY AdapterAssumption
  <2>3. Ahead(m) \subseteq Ahead(x.marker)
    <3>1. ASSUME NEW k \in Key, k > m
          PROVE  k > x.marker
      BY <1>2, <2>1, <2>2, <3>1
    <3> QED  BY <3>1 DEF Ahead
  <2>4. m \in Ahead(x.marker) /\ m \notin Ahead(m)
    BY <2>1 DEF Ahead
  <2> QED  BY <2>3, <2>4
<1> QED  BY <1>7, <1>8, <1>9, <1>10

\* A bucket that is there stays there.
LEMMA BucketStays ==
  ASSUME TypeInv, [Next]_vars
  PROVE  bucket => bucket'
<1> SUFFICES ASSUME NEW c \in Client, Begin(c) \/ Progress(c) \/ ReaderLeaves(c) \/ Mishap(c), bucket
             PROVE  bucket'
  <2>1. CASE UNCHANGED vars
    BY <2>1 DEF vars, store
  <2> QED  BY <2>1 DEF Next
<1>1. CASE CreateBucket(c)
  BY <1>1 DEF CreateBucket
<1>2. CASE Begin(c) \/ Put(c) \/ PutFails(c) \/ NoSuchBucket(c) \/ BucketMissing(c)
             \/ BucketExists(c) \/ ReadRules(c) \/ PutRules(c) \/ RulesFail(c) \/ CopyObject(c)
  BY <1>2 DEF Begin, Put, PutFails, NoSuchBucket, BucketMissing, BucketExists,
              ReadRules, PutRules, RulesFail, CopyObject, store
<1>3. CASE CopyFails(c) \/ CopiesSettled(c) \/ DeleteObjects(c) \/ DeleteFails(c) \/ ListPage(c)
             \/ Listed(c) \/ RequestFails(c) \/ Missed(c) \/ Read(c)
  BY <1>3 DEF CopyFails, CopiesSettled, DeleteObjects, DeleteFails, ListPage,
              Listed, RequestFails, Missed, Read, store
<1>4. CASE StreamEnds(c) \/ ReaderLeaves(c) \/ StreamTimesOut(c) \/ Kill(c)
  BY <1>4 DEF StreamEnds, ReaderLeaves, StreamTimesOut, Kill, store
<1> QED  BY <1>1, <1>2, <1>3, <1>4 DEF Progress, Mishap

\* A request of a call ends it or leaves it less to do.
LEMMA StepWinds ==
  ASSUME TypeInv, TypeInv', ListedSoFar, FoundNothing, NEW c \in Client, Step(c), [Next]_vars
  PROVE  call'[c] = Idle \/ <<WorkOf(c)', WorkOf(c)>> \in WorkOrder
<1> PICK x \in Call : x = call[c] /\ CallOK(x)
  BY DEF TypeInv, CallsOK, CallOK
<1> PICK y \in Call : y = call'[c]
  BY DEF TypeInv, CallsOK
<1> PICK now, then : now = bucket /\ then = bucket' /\ (now => then)
  BY BucketStays
<1>g. (\A next : Go(c, next) => y = next) /\ \A how : Answer(c, how) => y = Idle
  BY DEF Go, Answer, TypeInv, CallsOK
<1>w. ASSUME \/ Ahead(y.marker) \subseteq Ahead(x.marker) /\ Ahead(y.marker) # Ahead(x.marker)
             \/ y.marker = x.marker /\ Rank(y, then) < Rank(x, now)
             \/ /\ y.marker = x.marker /\ Rank(y, then) = Rank(x, now)
                /\ y.todo \subseteq x.todo /\ y.todo # x.todo
      PROVE  <<WorkOf(c)', WorkOf(c)>> \in WorkOrder
  <2>1. PICK A \in FiniteSubsetsOf(Key), B \in FiniteSubsetsOf(Key), n \in Nat, m \in Nat,
             S \in FiniteSubsetsOf(Key), T \in FiniteSubsetsOf(Key) :
          /\ A = Ahead(y.marker) /\ n = Rank(y, then) /\ S = y.todo
          /\ B = Ahead(x.marker) /\ m = Rank(x, now) /\ T = x.todo
    BY WorkParts
  <2>2. WorkOf(c)' = <<A, <<n, S>>>> /\ WorkOf(c) = <<B, <<m, T>>>>
    BY <2>1 DEF WorkOf, Rank, Ahead
  <2>3. \/ A \subseteq B /\ A # B
        \/ A = B /\ n < m
        \/ A = B /\ n = m /\ S \subseteq T /\ S # T
    BY <1>w, <2>1
  <2> QED  BY <2>2, <2>3, LessWork
<1>n. {"put", "rules", "stream", "left", "delete"} \subseteq StepName
  BY DEF StepName
\* To another step, with or without other fields.
<1>s. ASSUME Same(x, y, {"step"}), Rank(y, then) < Rank(x, now)
      PROVE  <<WorkOf(c)', WorkOf(c)>> \in WorkOrder
  BY <1>s, <1>w DEF Same
<1>1. CASE Put(c) \/ PutFails(c) \/ BucketMissing(c) \/ PutRules(c) \/ RulesFail(c)
             \/ DeleteFails(c) \/ Listed(c) \/ RequestFails(c) \/ Missed(c)
  BY <1>g, <1>1 DEF Put, PutFails, BucketMissing, PutRules, RulesFail, DeleteFails, Listed,
                    RequestFails, Missed
<1>2. CASE StreamEnds(c) \/ StreamTimesOut(c) \/ Kill(c)
  BY <1>g, <1>2 DEF StreamEnds, StreamTimesOut, Kill
<1>3. CASE NoSuchBucket(c)
  <2>1. y = [x EXCEPT !.step = "bucket", !.spent = TRUE] /\ x.step \in {"put", "rules"} /\ ~now
    BY <1>g, <1>3 DEF NoSuchBucket
  <2>a. y = [x EXCEPT !.step = "bucket", !.spent = TRUE]
    BY <2>1
  <2>2. y.step = "bucket" /\ y.marker = x.marker
    BY <2>a DEF Call
  <2>3. Rank(y, then) = 4 /\ Rank(x, now) = 5
    BY <2>1, <2>2 DEF Rank
  <2>4. Rank(y, then) < Rank(x, now)
    BY <2>3
  <2> QED  BY <1>w, <2>2, <2>4
<1>4. CASE CreateBucket(c) \/ BucketExists(c)
  <2>1. x.step = "bucket" /\ then /\ (y = Idle \/ y = [x EXCEPT !.step = FirstStep(x.op)])
    BY <1>g, <1>4 DEF CreateBucket, BucketExists, store
  <2>2. x.op \in {"create", "configure"}
    BY <2>1 DEF CallOK, Stage
  <2>3. PICK s \in {"put", "rules"} : s = FirstStep(x.op)
    BY <2>2 DEF FirstStep
  <2>4. ASSUME y = [x EXCEPT !.step = s] PROVE <<WorkOf(c)', WorkOf(c)>> \in WorkOrder
    <3>1. Same(x, y, {"step"}) /\ y.step = s
      BY <1>n, <2>4, SetStep
    <3>2. Rank(y, then) = 3 /\ Rank(x, now) = 4
      BY <2>1, <3>1 DEF Rank
    <3> QED  BY <1>s, <3>1, <3>2 DEF Same
  <2> QED  BY <2>1, <2>3, <2>4
<1>5. CASE ReadRules(c)
  <2>1. x.step = "rules" /\ now /\ (y = Idle \/ y = [x EXCEPT !.step = "putRules", !.read = rules])
    BY <1>g, <1>5 DEF ReadRules
  <2>3. ASSUME y = [x EXCEPT !.step = "putRules", !.read = rules]
        PROVE  <<WorkOf(c)', WorkOf(c)>> \in WorkOrder
    <3>1. y.step = "putRules" /\ y.marker = x.marker
      BY <2>3 DEF Call
    <3>2. Rank(y, then) = 2 /\ Rank(x, now) = 3
      BY <2>1, <3>1 DEF Rank
    <3>3. Rank(y, then) < Rank(x, now)
      BY <3>2
    <3> QED  BY <1>w, <3>1, <3>3
  <2> QED  BY <2>1, <2>3
<1>6. CASE ReaderLeaves(c) \/ Read(c)
  <2>1. \/ y = Idle
        \/ x.step = "read" /\ y = [x EXCEPT !.step = "stream"]
        \/ x.step = "stream" /\ y = [x EXCEPT !.step = "left"]
    BY <1>g, <1>6 DEF ReaderLeaves, Read
  <2>2. ASSUME x.step = "read", y = [x EXCEPT !.step = "stream"]
        PROVE  <<WorkOf(c)', WorkOf(c)>> \in WorkOrder
    <3>1. Same(x, y, {"step"}) /\ y.step = "stream"
      BY <1>n, <2>2, SetStep
    <3>2. Rank(y, then) = 2 /\ Rank(x, now) = 3
      BY <2>2, <3>1 DEF Rank
    <3> QED  BY <1>s, <3>1, <3>2 DEF Same
  <2>3. ASSUME x.step = "stream", y = [x EXCEPT !.step = "left"]
        PROVE  <<WorkOf(c)', WorkOf(c)>> \in WorkOrder
    <3>1. Same(x, y, {"step"}) /\ y.step = "left"
      BY <1>n, <2>3, SetStep
    <3>2. Rank(y, then) = 1 /\ Rank(x, now) = 2
      BY <2>3, <3>1 DEF Rank
    <3> QED  BY <1>s, <3>1, <3>2 DEF Same
  <2> QED  BY <2>1, <2>2, <2>3
<1>7. CASE CopyObject(c) \/ CopyFails(c)
  <2>1. PICK k \in x.todo :
          /\ x.step = "copy"
          /\ \/ y = [x EXCEPT !.todo = x.todo \ {k}]
             \/ y = [x EXCEPT !.todo = x.todo \ {k}, !.met = x.met \cup {k}]
    BY <1>g, <1>7 DEF CopyObject, CopyFails
  <2>2. PICK S, T : S = x.todo \ {k} /\ T = x.met \cup {k}
    OBVIOUS
  <2>3. y = [x EXCEPT !.todo = S] \/ y = [x EXCEPT !.todo = S, !.met = T]
    BY <2>1, <2>2
  <2>4. y.todo = S /\ y.step = x.step /\ y.more = x.more /\ y.marker = x.marker
    BY <2>3 DEF Call
  <2>5. S \subseteq x.todo /\ S # x.todo
    BY <2>2
  <2>6. Rank(y, then) = Rank(x, now)
    BY <2>1, <2>4 DEF Rank
  <2> QED  BY <1>w, <2>4, <2>5, <2>6
<1>8. CASE CopiesSettled(c)
  <2>1. x.step = "copy" /\ (y = Idle \/ y = [x EXCEPT !.step = "delete"])
    BY <1>g, <1>8 DEF CopiesSettled
  <2>2. ASSUME y = [x EXCEPT !.step = "delete"] PROVE <<WorkOf(c)', WorkOf(c)>> \in WorkOrder
    <3>1. Same(x, y, {"step"}) /\ y.step = "delete"
      BY <1>n, <2>2, SetStep
    <3>a. y.more = x.more
      BY <3>1 DEF Same
    <3>2. Rank(y, then) < Rank(x, now)
      BY <2>1, <3>1, <3>a DEF Rank
    <3> QED  BY <1>s, <3>1, <3>2 DEF Same
  <2> QED  BY <2>1, <2>2
<1>9. CASE DeleteObjects(c)
  <2>1. PICK S, T : /\ x.step = "delete"
                    /\ y = Idle \/ (x.more /\ y = [x EXCEPT !.step = "list", !.page = S, !.met = T])
    BY <1>g, <1>9 DEF DeleteObjects, Truncated, MorePages
  <2>2. ASSUME x.more, y = [x EXCEPT !.step = "list", !.page = S, !.met = T]
        PROVE  <<WorkOf(c)', WorkOf(c)>> \in WorkOrder
    <3>1. y.step = "list" /\ y.marker = x.marker
      BY <2>2 DEF Call
    <3>2. Rank(y, then) = 3 /\ Rank(x, now) = 4
      BY <2>1, <2>2, <3>1 DEF Rank
    <3> QED  BY <1>w, <3>1, <3>2
  <2> QED  BY <2>1, <2>2
<1>10. CASE ListPage(c)
  <2> DEFINE rest == Present(x.marker)
             first == FirstOf(PageLength(x), rest)
  <2>a. PICK page, m, b, found : page = first /\ m = Last(first, x.marker) /\ b = (first # rest)
                                 /\ found = x.found \cup first
    OBVIOUS
  <2>b. page = NextPage(x) /\ m = Last(page, x.marker) /\ b = (page # Present(x.marker))
    BY <2>a DEF NextPage
  <2>1. x.step = "list" /\ x.op \in DirOps \cup {"list"}
    BY <1>10 DEF ListPage, CallOK, Stage, DirOps
  <2>2. PICK next : next = [x EXCEPT !.page = page, !.marker = m, !.more = b]
    OBVIOUS
  <2>c. \/ y = [next EXCEPT !.step = "copy", !.todo = page]
        \/ y = [next EXCEPT !.step = "delete"]
        \/ y = [next EXCEPT !.found = found] /\ GoesOn(x, found, b)
        \/ y = [next EXCEPT !.found = found, !.step = "listed"]
    <3> HIDE DEF rest, first
    <3> QED  BY <1>g, <1>10, <2>a, <2>2 DEF ListPage, rest, first
  <2>d. GoesOn(x, found, b) => b
    BY DEF GoesOn
  <2>3. \/ y = [next EXCEPT !.step = "copy", !.todo = page]
        \/ y = [next EXCEPT !.step = "delete"]
        \/ y = [next EXCEPT !.found = found] /\ b
        \/ y = [next EXCEPT !.found = found, !.step = "listed"]
    BY <2>c, <2>d, Zenon
  <2> HIDE DEF rest, first
  <2>4. y.marker = m /\ y.more = b /\ (y.step \in {"copy", "delete", "listed"} \/ (y.step = "list" /\ b))
    BY <2>1, <2>2, <2>3 DEF Call
  <2>5. CASE page # {}
    BY <1>w, <2>1, <2>4, <2>5, <2>b, PageGetsOn
  <2>6. CASE page = {}
    <3>1. m = x.marker /\ ~b
        BY <2>1, <2>6, <2>b, PageGetsOn
    <3>2. y.step \in {"copy", "delete", "listed"} /\ ~y.more
      BY <2>4, <3>1
    <3>3. Rank(y, then) < 3 /\ Rank(x, now) = 3
      BY <2>1, <3>2 DEF Rank
    <3> QED  BY <1>w, <2>4, <3>1, <3>3
  <2> QED  BY <2>5, <2>6
<1> QED
  BY <1>1, <1>2, <1>3, <1>4, <1>5, <1>6, <1>7, <1>8, <1>9, <1>10 DEF Step, Progress, Mishap

\* A directory operation adds nothing to what it has found.
LEMMA FoundStays ==
  ASSUME TypeInv, NEW c \in Client, Step(c), call[c].op \in DirOps
  PROVE  call'[c] = Idle \/ call'[c].found = call[c].found
<1>a. /\ call[c] \in Call /\ CallOK(call[c]) /\ \A next : Go(c, next) => call'[c] = next
      /\ \A how : Answer(c, how) => call'[c] = Idle
  BY DEF Go, Answer, TypeInv, CallsOK, CallOK
<1>b. PICK x, y : x \in Call /\ x = call[c] /\ y = call'[c]
  BY <1>a
<1>c. x.op \in {"trashDir", "deleteDir"} /\ x.step \in {"list", "copy", "delete"}
  BY <1>a, <1>b DEF DirOps, CallOK, Stage
<1>1. \/ CopyObject(c) \/ CopyFails(c) \/ CopiesSettled(c) \/ DeleteObjects(c) \/ ListPage(c)
      \/ BucketMissing(c) \/ DeleteFails(c) \/ RequestFails(c) \/ Kill(c)
  BY <1>b, <1>c DEF Step, Progress, Mishap, Put, NoSuchBucket, CreateBucket, BucketExists, ReadRules,
              PutRules, RulesFail, Listed, Missed, Read, StreamEnds, StreamTimesOut,
              NotBothDestroyed, PutFails, ReaderLeaves
<1>2. CASE BucketMissing(c) \/ DeleteFails(c) \/ RequestFails(c) \/ Kill(c)
  BY <1>2, <1>a DEF BucketMissing, DeleteFails, RequestFails, Kill
<1>3. CASE DeleteObjects(c)
  <2>1. PICK S, T : y = Idle \/ y = [x EXCEPT !.step = "list", !.page = S, !.met = T]
    BY <1>a, <1>b, <1>3 DEF DeleteObjects, Truncated
  <2>2. y = Idle \/ y.found = x.found
    BY <1>b, <2>1 DEF Call
  <2> QED  BY <1>b, <2>2
<1>4. CASE ListPage(c)
  <2> DEFINE rest == Present(x.marker)
             first == FirstOf(PageLength(x), rest)
  <2>1. PICK page, m, b : page = first /\ m = Last(first, x.marker) /\ b = (first # rest)
    OBVIOUS
  <2>2. PICK next : next = [x EXCEPT !.page = page, !.marker = m, !.more = b]
    OBVIOUS
  <2>3. \/ y = [next EXCEPT !.step = "copy", !.todo = page]
        \/ y = [next EXCEPT !.step = "delete"]
    <3> HIDE DEF rest, first
    <3> QED  BY <1>a, <1>b, <1>c, <1>4, <2>1, <2>2 DEF ListPage, rest, first
  <2> HIDE DEF rest, first
  <2>4. y.found = x.found
    BY <1>b, <2>2, <2>3 DEF Call
  <2> QED  BY <1>b, <2>4
<1>5. CASE CopiesSettled(c)
  <2>1. y = [x EXCEPT !.step = "delete"]
    BY <1>a, <1>b, <1>c, <1>5 DEF CopiesSettled
  <2>2. y.found = x.found
    BY <1>b, <2>1 DEF Call
  <2> QED  BY <1>b, <2>2
<1>6. CASE CopyObject(c) \/ CopyFails(c)
  <2>1. PICK S, T : y = [x EXCEPT !.todo = S] \/ y = [x EXCEPT !.todo = S, !.met = T]
    BY <1>a, <1>b, <1>6 DEF CopyObject, CopyFails
  <2>2. y.found = x.found
    BY <1>b, <2>1 DEF Call
  <2> QED  BY <1>b, <2>2
<1> QED  BY <1>1, <1>2, <1>3, <1>4, <1>5, <1>6

LEMMA NextFoundNothing == TypeInv /\ FoundNothing /\ [Next]_vars => FoundNothing'
<1> SUFFICES ASSUME TypeInv, FoundNothing, [Next]_vars, NEW c \in Client, call'[c].op \in DirOps
             PROVE  call'[c].found = {}
  BY DEF FoundNothing
<1>1. CASE UNCHANGED vars
  BY <1>1 DEF vars, FoundNothing
<1>2. ASSUME NEW e \in Client, Begin(e)
      PROVE  call'[c].found = {}
  <2>1. PICK z \in CallsOf[e] : Begun(e, z)
    BY <1>2, BeginEffect
  <2>2. CASE c = e
    BY <2>1, <2>2 DEF Begun
  <2>3. CASE c # e
    <3>1. Same(call[c], call'[c], {"met"})
      BY <2>1, <2>3 DEF Begun
    <3>2. call'[c].op = call[c].op /\ call'[c].found = call[c].found
      BY <3>1 DEF Same
    <3> QED  BY <3>2 DEF FoundNothing
  <2> QED  BY <2>2, <2>3
<1>3. ASSUME NEW e \in Client, Step(e)
      PROVE  call'[c].found = {}
  <2>1. CASE c # e
    <3>1. call'[c] = call[c]
      BY <1>3, <2>1, Others
    <3> QED  BY <3>1 DEF FoundNothing
  <2>2. CASE c = e
    <3>1. call'[c] # Idle
      BY DEF Idle, DirOps
    <3>2. call[c].op \in DirOps
      BY <1>3, <2>2, <3>1, Goes
    <3>3. call'[c].found = call[c].found
      BY <1>3, <2>2, <3>1, <3>2, FoundStays
    <3> QED  BY <3>2, <3>3 DEF FoundNothing
  <2> QED  BY <2>1, <2>2
<1> QED  BY <1>1, <1>2, <1>3 DEF Next, Step

\* Another call leaves a call no more to do: it may at most have created the bucket.
LEMMA OthersWind ==
  ASSUME TypeInv, TypeInv', [Next]_vars, NEW d \in Client, Same(call[d], call'[d], {"met"})
  PROVE  WindsDown(d)
<1> PICK x \in Call, y \in Call : x = call[d] /\ y = call'[d]
  BY DEF TypeInv, CallsOK
<1> PICK now, then : now = bucket /\ then = bucket' /\ (now => then) /\ now \in BOOLEAN /\ then \in BOOLEAN
  <2>1. bucket \in BOOLEAN /\ bucket' \in BOOLEAN
    BY DEF TypeInv, StoreOK
  <2> QED  BY <2>1, BucketStays
<1>1. y.step = x.step /\ y.more = x.more /\ y.marker = x.marker /\ y.todo = x.todo
  BY DEF Same
<1>2. PICK A \in FiniteSubsetsOf(Key), n \in Nat, m \in Nat, T \in FiniteSubsetsOf(Key) :
        A = Ahead(x.marker) /\ n = Rank(y, then) /\ m = Rank(x, now) /\ T = x.todo
  BY WorkParts
<1>3. WorkOf(d)' = <<A, <<n, T>>>> /\ WorkOf(d) = <<A, <<m, T>>>>
  BY <1>1, <1>2 DEF WorkOf, Rank, Ahead
<1>4. n = m \/ n < m
  BY <1>1, <1>2 DEF Rank
<1>5. CASE n < m
  BY <1>3, <1>5, LessWork DEF WindsDown
<1>6. CASE n = m
  BY <1>3, <1>6 DEF WindsDown
<1> QED  BY <1>4, <1>5, <1>6

LEMMA NextWinds ==
  TypeInv /\ TypeInv' /\ ListedSoFar /\ FoundNothing /\ [Next]_vars => [CallsWindDown]_vars
<1> SUFFICES ASSUME TypeInv, TypeInv', ListedSoFar, FoundNothing, [Next]_vars, ~UNCHANGED vars,
                    NEW d \in Client, call[d] # Idle
             PROVE  WindsDown(d)
  BY DEF CallsWindDown
<1>1. ASSUME NEW c \in Client, Begin(c)
      PROVE  WindsDown(d)
  <2>1. d # c
    BY <1>1 DEF Begin
  <2>2. Same(call[d], call'[d], {"met"})
    BY <1>1, <2>1, BeginEffect DEF Begun
  <2> QED  BY <2>2, OthersWind
<1>2. ASSUME NEW c \in Client, Step(c)
      PROVE  WindsDown(d)
  <2>1. CASE d = c
    BY <1>2, <2>1, StepWinds DEF WindsDown
  <2>2. CASE d # c
    <3>1. call'[d] = call[d] /\ call[d] \in Call
      BY <1>2, <2>2, Others DEF TypeInv, CallsOK
    <3>2. Same(call[d], call'[d], {"met"})
      BY <3>1 DEF Same
    <3> QED  BY <3>2, OthersWind
  <2> QED  BY <2>1, <2>2
<1> QED  BY <1>1, <1>2 DEF Next, Step

(***************************************************************************)
(* What a call still has to do decreases in a well-founded order with      *)
(* every request of it and is at most decreased by other calls: no call    *)
(* goes round for ever, over missing buckets, pages of a directory or      *)
(* failures.  (CallsEnd adds that a step of an unfinished call is taken.)  *)
(***************************************************************************)
THEOREM CallsFinish ==
  /\ IsWellFoundedOn(WorkOrder, WorkMeasures)
  /\ Spec => []WorkCounts
  /\ Spec => [][CallsWindDown]_vars
<1>1. Init => TypeInv /\ Told /\ ListedSoFar /\ FoundNothing
  <2>1. Init => Told /\ ListedSoFar /\ FoundNothing
    BY DEF Init, Told, ListedSoFar, FoundNothing, DirOps, Idle, Writers, Moves
  <2> QED  BY <2>1, InitTypes
<1>2. TypeInv /\ Told /\ ListedSoFar /\ FoundNothing /\ [Next]_vars
      => (TypeInv /\ Told /\ ListedSoFar /\ FoundNothing)'
  BY NextTypes, NextTold, NextListed, NextFoundNothing
<1>3. TypeInv => WorkCounts
  <2> SUFFICES ASSUME TypeInv, NEW c \in Client
               PROVE  WorkOf(c) \in WorkMeasures
    BY DEF WorkCounts
  <2>1. PICK x \in Call : x = call[c]
    BY DEF TypeInv, CallsOK
  <2>2. /\ Ahead(x.marker) \in FiniteSubsetsOf(Key) /\ Rank(x, bucket) \in Nat
        /\ x.todo \in FiniteSubsetsOf(Key)
    BY WorkParts
  <2> QED  BY <2>1, <2>2 DEF WorkOf, WorkMeasures, PageMeasures
<1> QED  BY <1>1, <1>2, <1>3, WorkOrderWellFounded, NextWinds, PTL DEF Spec
================================================================================
