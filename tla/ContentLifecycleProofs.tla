------------------------- MODULE ContentLifecycleProofs -------------------------
(***************************************************************************)
(* Theorems about contents: for any contents, files and workers, whatever  *)
(* fails, is restarted or interleaves.                                     *)
(***************************************************************************)
EXTENDS ContentLifecycle, FiniteSetTheorems, WellFoundedInduction, TLAPS

(***************************************************************************)
(* What the state may be.                                                  *)
(***************************************************************************)
\* An operation and a call its job may be about to make.
Stage ==
  {"copy", "delete", "save"} \X {"find"}
    \cup {"copy", "save"} \X {"insert"}
    \cup {"save"} \X {"write", "add", "put", "prune"}
    \cup {"copy", "delete"} \X {"list"}
    \cup {"copy"} \X {"undo", "cp"}
    \cup {<<"delete", "rm">>}

\* A copy has two contents, the other operations one; contents are known by the time.
Ends(m) ==
  /\ m.src \in used /\ m.dst \in used
  /\ m.op = "copy" <=> m.src # m.dst

JobOK(j) ==
  /\ j \in Job \cup {NoJob}
  /\ j # NoJob =>
       /\ <<j.op, j.pc>> \in Stage
       /\ Ends(j)
       /\ j.held => j.op # "save"
       /\ j.pc = "put" => j.list # {}

TypeInv ==
  /\ TypeOK
  /\ \A w \in Worker : JobOK(job[w])
  /\ \A m \in queue : Ends(m)

(***************************************************************************)
(* Operations that nobody keeps apart.                                     *)
(***************************************************************************)
\* Of two operations under way: p changes what q changes or copies, so that the
\* content q changes is given up.
Apart(p, q) == p.dst \in {q.src, q.dst} => q.dst \in clashed

\* Two different operations are kept apart, both ways; what is copied from a
\* content that is given up is given up as well.
ClashInv ==
  /\ \A v, w \in Worker : v # w /\ Busy(v) /\ Busy(w) => Apart(job[v], job[w])
  /\ \A w \in Worker, m \in queue : Busy(w) => Apart(job[w], m) /\ Apart(m, job[w])
  /\ \A m, n \in queue : m # n => Apart(m, n)
  /\ \A w \in Worker : job[w].src \in clashed => job[w].dst \in clashed
  /\ \A m \in queue : m.src \in clashed => m.dst \in clashed

(***************************************************************************)
(* How far an operation has got with its content.                          *)
(***************************************************************************)
Phase(j) ==
  LET c == j.dst IN
  /\ j.pc \in {"find", "insert"} => Whole(c)
  /\ j.op = "copy" /\ j.pc = "insert" => j.names = refs[j.src]
  /\ j.op = "delete" /\ j.pc = "list" => Whole(c)
  /\ j.pc = "write" => c \in docs /\ Whole(c)
  /\ j.pc \in {"add", "put", "prune"} => c \in docs /\ refs[c] = j.names
  /\ j.pc \in {"add", "put", "cp"} => c \in docs /\ refs[c] \subseteq files[c] \cup j.list
  /\ j.pc = "prune" => refs[c] \subseteq files[c] \ j.list
  /\ j.op = "copy" /\ j.pc = "list" => c \in docs /\ refs[c] = refs[j.src]
  /\ j.op = "copy" /\ j.pc \in {"list", "undo"} => files[c] = {}
  /\ j.pc = "rm" => files[c] \subseteq j.list /\ (c \in docs => j.doc)

PhaseInv ==
  \A w \in Worker : Busy(w) /\ job[w].dst \notin torn \cup clashed => Phase(job[w])

ContentInv == TypeInv /\ ClashInv /\ WholeAtRest /\ PhaseInv

(***************************************************************************)
(* Steps of an operation.                                                  *)
(***************************************************************************)
\* Worker w has made a call and goes on with job j, or is through (NoJob).
Advances(w, j) ==
  /\ job' = [job EXCEPT ![w] = j] /\ JobOK(j)
  /\ j # NoJob => j.op = job[w].op /\ j.src = job[w].src /\ j.dst = job[w].dst
  /\ UNCHANGED <<queue, used, clashed, ops>> /\ mishaps' \in 0..MaxMishaps
  /\ docs' \subseteq used /\ refs' \in [Id -> SUBSET File] /\ files' \in [Id -> SUBSET File]
  /\ torn' \subseteq used
  /\ \A c \in Id \ {job[w].dst} :
       /\ c \in docs' <=> c \in docs
       /\ c \in torn' <=> c \in torn
       /\ refs'[c] = refs[c] /\ files'[c] = files[c]
  /\ \A c \in Id \ (torn' \cup clashed) :
       c = job[w].dst => IF j = NoJob THEN Whole(c)' ELSE Phase(j)'

\* What is known of a worker that is not idle.
LEMMA Working ==
  ASSUME ContentInv, NEW w \in Worker, job[w].pc # "idle"
  PROVE  /\ job[w] \in Job /\ job[w] # NoJob /\ Busy(w) /\ JobOK(job[w])
         /\ job[w].src \in Id /\ job[w].dst \in Id /\ job[w].dst \in used
         /\ job[w].dst \notin torn \cup clashed => Phase(job[w])
<1>1. JobOK(job[w]) /\ job[w] \in Job /\ job[w] # NoJob
  BY DEF ContentInv, TypeInv, JobOK, NoJob
<1>2. Busy(w)
  BY <1>1 DEF Busy, Job
<1>3. job[w].src \in Id /\ job[w].dst \in Id /\ job[w].dst \in used
  BY <1>1 DEF Job, JobOK, Ends
<1> QED  BY <1>1, <1>2, <1>3 DEF ContentInv, PhaseInv

\* A fault.
LEMMA FaultOK ==
  ASSUME ContentInv, NEW k, Fault(k)
  PROVE  mishaps' \in 0..MaxMishaps
BY ContentAssumption DEF ContentInv, TypeInv, TypeOK, Fault

\* An operation that is through and has changed nothing.
LEMMA Through ==
  ASSUME ContentInv, NEW w \in Worker, job[w].pc # "idle", Finish(w),
         UNCHANGED <<docs, refs, files, queue, used, clashed, ops>>,
         torn' = torn \/ Tear(w), mishaps' = mishaps \/ mishaps' \in 0..MaxMishaps,
         job[w].dst \notin torn' \cup clashed => Whole(job[w].dst)
  PROVE  Advances(w, NoJob)
<1>1. JobOK(NoJob) /\ torn' \subseteq used /\ mishaps' \in 0..MaxMishaps
  BY Working DEF JobOK, Tear, ContentInv, TypeInv, TypeOK
<1>2. \A c \in Id \ {job[w].dst} : c \in torn' <=> c \in torn
  BY DEF Tear
<1>3. \A c \in Id : Whole(c)' <=> Whole(c)
  BY DEF Whole
<1>4. docs' \subseteq used /\ refs' \in [Id -> SUBSET File] /\ files' \in [Id -> SUBSET File]
  BY DEF ContentInv, TypeInv, TypeOK
<1> QED  BY <1>1, <1>2, <1>3, <1>4 DEF Advances, Finish

\* An operation that goes on and has changed nothing.
LEMMA GoesOn ==
  ASSUME ContentInv, NEW w \in Worker, job[w].pc # "idle", NEW j \in Job, JobOK(j),
         job' = [job EXCEPT ![w] = j],
         j.op = job[w].op, j.src = job[w].src, j.dst = job[w].dst,
         UNCHANGED <<docs, refs, files, queue, used, clashed, ops>>,
         torn' \subseteq used, \A c \in Id \ {job[w].dst} : c \in torn' <=> c \in torn,
         mishaps' = mishaps \/ mishaps' \in 0..MaxMishaps,
         job[w].dst \notin torn' \cup clashed => Phase(j)
  PROVE  Advances(w, j)
<1>1. Phase(j)' <=> Phase(j)
  BY DEF Phase, Whole
<1>2. mishaps' \in 0..MaxMishaps
  BY DEF ContentInv, TypeInv, TypeOK
<1>3. j # NoJob
  BY DEF Job, NoJob
<1>4. docs' \subseteq used /\ refs' \in [Id -> SUBSET File] /\ files' \in [Id -> SUBSET File]
  BY DEF ContentInv, TypeInv, TypeOK
<1> QED  BY <1>1, <1>2, <1>3, <1>4 DEF Advances

\* repo.findById
LEMMA FindStep ==
  ASSUME ContentInv, NEW w \in Worker, Find(w)
  PROVE  \E j : Advances(w, j)
<1> PICK x \in Job : /\ x = job[w] /\ JobOK(x) /\ x # NoJob /\ x.pc = "find"
                     /\ x.dst \notin torn \cup clashed => Phase(x)
  BY Working DEF Find, At
<1>1. UNCHANGED <<docs, refs, files, queue, used, torn, clashed, ops>>
  BY DEF Find, store
<1>2. mishaps' = mishaps \/ mishaps' \in 0..MaxMishaps
  BY FaultOK DEF Find
<1>3. CASE Finish(w)
  <2>1. x.dst \notin torn' \cup clashed => Whole(x.dst)
    BY <1>1 DEF Phase
  <2> QED  BY <1>1, <1>2, <1>3, <2>1, Through
<1>4. CASE x.src \in docs /\ x.op = "copy" /\ job' = [job EXCEPT ![w].pc = "insert", ![w].names = refs[x.src]]
  <2> PICK names \in SUBSET File : names = refs[x.src]
    BY DEF ContentInv, TypeInv, TypeOK, Job
  <2> DEFINE j == [x EXCEPT !.pc = "insert", !.names = names]
  <2>1. j \in Job
    BY DEF Job, Steps
  <2>2. /\ j.op = x.op /\ j.src = x.src /\ j.dst = x.dst /\ j.pc = "insert" /\ j.names = names
        /\ j.held = x.held
    BY DEF Job
  <2>3. job' = [job EXCEPT ![w] = j]
    BY <1>4
  <2> HIDE DEF j
  <2>4. JobOK(j)
    BY <1>4, <2>1, <2>2 DEF JobOK, Stage, Ends
  <2>5. x.dst \notin torn' \cup clashed => Phase(j)
    BY <1>1, <1>4, <2>2 DEF Phase
  <2> QED  BY <1>1, <1>2, <2>1, <2>2, <2>3, <2>4, <2>5, GoesOn DEF ContentInv, TypeInv, TypeOK
<1>5. ASSUME x.src \in docs, NEW p, Goto(w, p), <<x.op, p>> \in {<<"delete", "list">>, <<"save", "write">>}
      PROVE  \E j : Advances(w, j)
  <2> DEFINE j == [x EXCEPT !.pc = p]
  <2>1. j \in Job
    BY <1>5 DEF Job, Steps
  <2>2. j.op = x.op /\ j.src = x.src /\ j.dst = x.dst /\ j.pc = p /\ j.held = x.held
    BY DEF Job
  <2>3. job' = [job EXCEPT ![w] = j]
    BY <1>5 DEF Goto
  <2> HIDE DEF j
  <2>4. JobOK(j)
    BY <1>5, <2>1, <2>2 DEF JobOK, Stage, Ends
  <2>5. x.dst \notin torn' \cup clashed => Phase(j)
    BY <1>1, <1>5, <2>2 DEF Phase, JobOK, Ends
  <2> QED  BY <1>1, <1>2, <2>1, <2>2, <2>3, <2>4, <2>5, GoesOn DEF ContentInv, TypeInv, TypeOK
<1> QED  BY <1>3, <1>4, <1>5 DEF Find, Job

\* repo.save of a new document
LEMMA InsertStep ==
  ASSUME ContentInv, NEW w \in Worker, Insert(w)
  PROVE  \E j : Advances(w, j)
<1> PICK x \in Job : /\ x = job[w] /\ JobOK(x) /\ x # NoJob /\ x.pc = "insert" /\ x.dst \in used
                     /\ x.dst \notin torn \cup clashed => Phase(x)
  BY Working DEF Insert, At
<1>1. UNCHANGED <<files, queue, used, torn, clashed, ops>>
  BY DEF Insert
<1>2. CASE Finish(w) /\ UNCHANGED <<docs, refs>>
  <2>1. x.dst \notin torn' \cup clashed => Whole(x.dst)
    BY <1>1 DEF Phase
  <2>2. mishaps' = mishaps \/ mishaps' \in 0..MaxMishaps
    BY FaultOK DEF Insert
  <2> QED  BY <1>1, <1>2, <2>1, <2>2, Through
<1>3. CASE /\ x.dst \notin docs /\ docs' = docs \cup {x.dst} /\ UNCHANGED mishaps
           /\ refs' = [refs EXCEPT ![x.dst] = x.names]
           /\ IF x.op = "copy" THEN Goto(w, "list") ELSE GotoWith(w, "add", x.names)
  <2>1. PICK j \in Job :
          /\ job' = [job EXCEPT ![w] = j]
          /\ j.op = x.op /\ j.src = x.src /\ j.dst = x.dst /\ j.names = x.names /\ j.held = x.held
          /\ IF x.op = "copy" THEN j.pc = "list" ELSE j.pc = "add" /\ j.list = x.names
    <3>1. CASE x.op = "copy"
      <4> DEFINE j == [x EXCEPT !.pc = "list"]
      <4>1. j \in Job /\ job' = [job EXCEPT ![w] = j]
        BY <1>3, <3>1 DEF Job, Steps, Goto
      <4>2. j.op = x.op /\ j.src = x.src /\ j.dst = x.dst /\ j.names = x.names /\ j.held = x.held /\ j.pc = "list"
        BY DEF Job
      <4> QED  BY <3>1, <4>1, <4>2
    <3>2. CASE x.op # "copy"
      <4> DEFINE j == [x EXCEPT !.pc = "add", !.list = x.names]
      <4>1. j \in Job
        BY DEF Job, Steps
      <4>2. job' = [job EXCEPT ![w] = j]
        BY <1>3, <3>2 DEF GotoWith
      <4>3. j.op = x.op /\ j.src = x.src /\ j.dst = x.dst /\ j.names = x.names /\ j.held = x.held
            /\ j.pc = "add" /\ j.list = x.names
        BY DEF Job
      <4> QED  BY <3>2, <4>1, <4>2, <4>3
    <3> QED  BY <3>1, <3>2
  <2>2. JobOK(j)
    BY <2>1 DEF JobOK, Stage, Ends
  <2>3. /\ docs' \subseteq used /\ refs' \in [Id -> SUBSET File] /\ x.dst \in Id
        /\ mishaps' \in 0..MaxMishaps /\ files' \in [Id -> SUBSET File] /\ torn' \subseteq used
    BY <1>1, <1>3 DEF ContentInv, TypeInv, TypeOK, Job
  <2>4. x.op = "copy" => x.src # x.dst /\ x.src \in Id
    BY DEF JobOK, Ends, Job
  <2>5. ASSUME x.dst \notin torn' \cup clashed
        PROVE  Phase(j)'
    <3>1. Whole(x.dst) /\ (x.op = "copy" => x.names = refs[x.src])
      BY <1>1, <2>5 DEF Phase
    <3>2. files'[x.dst] = {} /\ x.dst \in docs' /\ refs'[x.dst] = x.names
      BY <1>1, <1>3, <2>3, <3>1 DEF Whole, ContentInv, TypeInv, TypeOK
    <3>3. x.op = "copy" => refs'[x.src] = x.names
      BY <1>3, <2>4, <3>1 DEF ContentInv, TypeInv, TypeOK
    <3>4. CASE x.op = "copy"
      BY <2>1, <3>2, <3>3, <3>4 DEF Phase
    <3>5. CASE x.op # "copy"
      BY <2>1, <3>2, <3>5 DEF Phase
    <3> QED  BY <3>4, <3>5
  <2>6. \A d \in Id \ {x.dst} : (d \in docs' <=> d \in docs) /\ refs'[d] = refs[d]
    BY <1>3 DEF ContentInv, TypeInv, TypeOK
  <2>7. j # NoJob
    BY DEF Job, NoJob
  <2> QED  BY <1>1, <2>1, <2>2, <2>3, <2>5, <2>6, <2>7 DEF Advances
<1> QED  BY <1>2, <1>3 DEF Insert

\* repo.save of a document read before
LEMMA WriteStep ==
  ASSUME ContentInv, NEW w \in Worker, Write(w)
  PROVE  \E j : Advances(w, j)
<1> PICK x \in Job : /\ x = job[w] /\ JobOK(x) /\ x # NoJob /\ x.pc = "write" /\ x.dst \in used
                     /\ x.dst \notin torn \cup clashed => Phase(x)
  BY Working DEF Write, At
<1>1. UNCHANGED <<docs, files, queue, used, torn, clashed, ops>>
  BY DEF Write
<1>2. CASE Finish(w) /\ UNCHANGED refs /\ Fault("db")
  <2>1. x.dst \notin torn' \cup clashed => Whole(x.dst)
    BY <1>1 DEF Phase
  <2> QED  BY <1>1, <1>2, <2>1, Through, FaultOK
<1>3. CASE /\ refs' = [refs EXCEPT ![x.dst] = IF x.dst \in docs THEN x.names ELSE @]
           /\ GotoWith(w, "add", x.names \ refs[x.dst]) /\ UNCHANGED mishaps
  <2>1. PICK L \in SUBSET File : L = x.names \ refs[x.dst]
    BY DEF Job
  <2> DEFINE j == [x EXCEPT !.pc = "add", !.list = L]
  <2>2. j \in Job
    BY DEF Job, Steps
  <2>3. /\ j.op = x.op /\ j.src = x.src /\ j.dst = x.dst /\ j.names = x.names /\ j.held = x.held
        /\ j.pc = "add" /\ j.list = L
    BY DEF Job
  <2>4. job' = [job EXCEPT ![w] = j]
    BY <1>3, <2>1 DEF GotoWith
  <2> HIDE DEF j
  <2>5. JobOK(j)
    BY <2>2, <2>3 DEF JobOK, Stage, Ends
  <2>6. /\ docs' \subseteq used /\ refs' \in [Id -> SUBSET File] /\ x.dst \in Id
        /\ mishaps' \in 0..MaxMishaps /\ files' \in [Id -> SUBSET File] /\ torn' \subseteq used
    BY <1>1, <1>3 DEF ContentInv, TypeInv, TypeOK, Job
  <2>7. ASSUME x.dst \notin torn' \cup clashed
        PROVE  Phase(j)'
    <3>1. x.dst \in docs /\ Whole(x.dst)
      BY <1>1, <2>7 DEF Phase
    <3>2. x.dst \in docs' /\ refs'[x.dst] = x.names /\ refs[x.dst] \subseteq files'[x.dst]
      BY <1>1, <1>3, <2>6, <3>1 DEF Whole, ContentInv, TypeInv, TypeOK
    <3> QED  BY <2>1, <2>3, <3>2 DEF Phase
  <2>8. \A d \in Id \ {x.dst} : refs'[d] = refs[d]
    BY <1>3 DEF ContentInv, TypeInv, TypeOK
  <2>9. j # NoJob
    BY <2>2 DEF Job, NoJob
  <2> QED  BY <1>1, <2>3, <2>4, <2>5, <2>6, <2>7, <2>8, <2>9 DEF Advances
<1> QED  BY <1>2, <1>3 DEF Write

\* addFile: contentExists
LEMMA AddFileStep ==
  ASSUME ContentInv, NEW w \in Worker, AddFile(w)
  PROVE  \E j : Advances(w, j)
<1> PICK x \in Job : /\ x = job[w] /\ JobOK(x) /\ x # NoJob /\ x.pc = "add" /\ x.dst \in Id
                     /\ x.dst \in used /\ x.list # {}
                     /\ x.dst \notin torn \cup clashed => Phase(x)
  BY Working DEF AddFile, At
<1>1. UNCHANGED <<docs, refs, files, queue, used, clashed, ops>>
  BY DEF AddFile, store
<1>2. CASE x.dst \notin docs /\ Finish(w) /\ UNCHANGED <<torn, mishaps>>
  <2>1. x.dst \notin torn' \cup clashed => Whole(x.dst)
    BY <1>2 DEF Phase
  <2> QED  BY <1>1, <1>2, <2>1, Through
<1>3. CASE Fault("db") /\ Tear(w) /\ Finish(w)
  <2>1. x.dst \in torn'
    BY <1>3 DEF Tear
  <2> QED  BY <1>1, <1>3, <2>1, Through, FaultOK
<1>4. CASE Goto(w, "put") /\ UNCHANGED <<torn, mishaps>>
  <2> DEFINE j == [x EXCEPT !.pc = "put"]
  <2>1. j \in Job
    BY DEF Job, Steps
  <2>2. /\ j.op = x.op /\ j.src = x.src /\ j.dst = x.dst /\ j.names = x.names /\ j.held = x.held
        /\ j.pc = "put" /\ j.list = x.list
    BY DEF Job
  <2>3. job' = [job EXCEPT ![w] = j]
    BY <1>4 DEF Goto
  <2> HIDE DEF j
  <2>4. JobOK(j)
    BY <2>1, <2>2 DEF JobOK, Stage, Ends
  <2>5. x.dst \notin torn' \cup clashed => Phase(j)
    BY <1>4, <2>2 DEF Phase
  <2> QED  BY <1>1, <1>4, <2>1, <2>2, <2>3, <2>4, <2>5, GoesOn DEF ContentInv, TypeInv, TypeOK
<1> QED  BY <1>2, <1>3, <1>4 DEF AddFile

\* create
LEMMA PutFileStep ==
  ASSUME ContentInv, NEW w \in Worker, PutFile(w)
  PROVE  \E j : Advances(w, j)
<1> PICK x \in Job : /\ x = job[w] /\ JobOK(x) /\ x # NoJob /\ x.pc = "put" /\ x.dst \in Id
                     /\ x.dst \in used
                     /\ x.dst \notin torn \cup clashed => Phase(x)
  BY Working DEF PutFile, At
<1>1. UNCHANGED <<docs, refs, queue, used, clashed, ops>>
  BY DEF PutFile
<1>2. CASE Fault("s3") /\ Tear(w) /\ Finish(w) /\ UNCHANGED files
  <2>1. x.dst \in torn'
    BY <1>2 DEF Tear
  <2> QED  BY <1>1, <1>2, <2>1, Through, FaultOK
<1>3. ASSUME NEW f \in x.list, files' = [files EXCEPT ![x.dst] = @ \cup {f}],
             GotoWith(w, "add", x.list \ {f}), UNCHANGED <<torn, mishaps>>
      PROVE  \E j : Advances(w, j)
  <2>1. PICK L \in SUBSET File : L = x.list \ {f}
    BY DEF Job
  <2> DEFINE j == [x EXCEPT !.pc = "add", !.list = L]
  <2>2. j \in Job
    BY DEF Job, Steps
  <2>3. /\ j.op = x.op /\ j.src = x.src /\ j.dst = x.dst /\ j.names = x.names /\ j.held = x.held
        /\ j.pc = "add" /\ j.list = L
    BY DEF Job
  <2>4. job' = [job EXCEPT ![w] = j]
    BY <1>3, <2>1 DEF GotoWith
  <2> HIDE DEF j
  <2>5. JobOK(j)
    BY <2>2, <2>3 DEF JobOK, Stage, Ends
  <2>6. files' \in [Id -> SUBSET File] /\ files'[x.dst] = files[x.dst] \cup {f}
        /\ \A d \in Id \ {x.dst} : files'[d] = files[d]
    BY <1>3 DEF ContentInv, TypeInv, TypeOK, Job
  <2>7. /\ docs' \subseteq used /\ refs' \in [Id -> SUBSET File]
        /\ mishaps' \in 0..MaxMishaps /\ torn' \subseteq used
    BY <1>1, <1>3 DEF ContentInv, TypeInv, TypeOK
  <2>8. x.dst \notin torn' \cup clashed => Phase(j)'
    BY <1>1, <1>3, <2>1, <2>3, <2>6 DEF Phase
  <2>9. j # NoJob
    BY <2>2 DEF Job, NoJob
  <2> QED  BY ZenonT(60), <1>1, <1>3, <2>3, <2>4, <2>5, <2>6, <2>7, <2>8, <2>9 DEF Advances
<1> QED  BY <1>2, <1>3 DEF PutFile

\* All files are there; those no longer referred to are to be removed.
LEMMA AddedStep ==
  ASSUME ContentInv, NEW w \in Worker, Added(w)
  PROVE  \E j : Advances(w, j)
<1> PICK x \in Job : /\ x = job[w] /\ JobOK(x) /\ x # NoJob /\ x.pc = "add" /\ x.dst \in Id
                     /\ x.list = {}
                     /\ x.dst \notin torn \cup clashed => Phase(x)
  BY Working DEF Added, At
<1>1. UNCHANGED <<docs, refs, files, queue, used, torn, clashed, ops, mishaps>>
  BY DEF Added, store
<1>2. PICK L \in SUBSET File : L = files[x.dst] \ x.names
  BY DEF ContentInv, TypeInv, TypeOK
<1> DEFINE j == [x EXCEPT !.pc = "prune", !.list = L]
<1>3. j \in Job
  BY DEF Job, Steps
<1>4. /\ j.op = x.op /\ j.src = x.src /\ j.dst = x.dst /\ j.names = x.names /\ j.held = x.held
      /\ j.pc = "prune" /\ j.list = L
  BY DEF Job
<1>5. job' = [job EXCEPT ![w] = j]
  BY <1>2 DEF Added, GotoWith
<1> HIDE DEF j
<1>6. JobOK(j)
  BY <1>3, <1>4 DEF JobOK, Stage, Ends
<1>7. x.dst \notin torn' \cup clashed => Phase(j)
  BY <1>1, <1>2, <1>4 DEF Phase
<1> QED  BY <1>1, <1>3, <1>4, <1>5, <1>6, <1>7, GoesOn DEF ContentInv, TypeInv, TypeOK

\* One of those files.
LEMMA PruneStep ==
  ASSUME ContentInv, NEW w \in Worker, Prune(w)
  PROVE  \E j : Advances(w, j)
<1> PICK x \in Job : /\ x = job[w] /\ JobOK(x) /\ x # NoJob /\ x.pc = "prune" /\ x.dst \in Id
                     /\ x.dst \notin torn \cup clashed => Phase(x)
  BY Working DEF Prune, At
<1>1. UNCHANGED <<docs, refs, queue, used, torn, clashed, ops>>
  BY DEF Prune
<1>2. PICK f \in x.list : /\ GotoWith(w, "prune", x.list \ {f})
                          /\ \/ files' = [files EXCEPT ![x.dst] = @ \ {f}] /\ UNCHANGED mishaps
                             \/ Fault("s3") /\ UNCHANGED files
  BY DEF Prune
<1>3. PICK L \in SUBSET File : L = x.list \ {f}
  BY DEF Job
<1> DEFINE j == [x EXCEPT !.pc = "prune", !.list = L]
<1>4. j \in Job
  BY DEF Job, Steps
<1>5. /\ j.op = x.op /\ j.src = x.src /\ j.dst = x.dst /\ j.names = x.names /\ j.held = x.held
      /\ j.pc = "prune" /\ j.list = L
  BY DEF Job
<1>6. job' = [job EXCEPT ![w] = j]
  BY <1>2, <1>3 DEF GotoWith
<1> HIDE DEF j
<1>7. JobOK(j)
  BY <1>4, <1>5 DEF JobOK, Stage, Ends
<1>8. /\ files' \in [Id -> SUBSET File] /\ files[x.dst] \ {f} \subseteq files'[x.dst]
      /\ \A d \in Id \ {x.dst} : files'[d] = files[d]
  BY <1>2 DEF ContentInv, TypeInv, TypeOK
<1>9. mishaps' \in 0..MaxMishaps
  BY <1>2, FaultOK DEF ContentInv, TypeInv, TypeOK
<1>10. docs' \subseteq used /\ refs' \in [Id -> SUBSET File] /\ torn' \subseteq used
  BY <1>1 DEF ContentInv, TypeInv, TypeOK
<1>11. x.dst \notin torn' \cup clashed => Phase(j)'
  BY <1>1, <1>3, <1>5, <1>8 DEF Phase
<1>12. j # NoJob
  BY <1>4 DEF Job, NoJob
<1> QED  BY <1>1, <1>5, <1>6, <1>7, <1>8, <1>9, <1>10, <1>11, <1>12 DEF Advances

LEMMA SavedStep ==
  ASSUME ContentInv, NEW w \in Worker, Saved(w)
  PROVE  \E j : Advances(w, j)
<1> PICK x \in Job : /\ x = job[w] /\ x.pc = "prune"
                     /\ x.dst \notin torn \cup clashed => Phase(x)
  BY Working DEF Saved, At
<1>1. UNCHANGED <<docs, refs, files, queue, used, torn, clashed, ops, mishaps>> /\ Finish(w)
  BY DEF Saved, store
<1>2. x.dst \notin torn' \cup clashed => Whole(x.dst)
  BY <1>1 DEF Phase, Whole
<1> QED  BY <1>1, <1>2, Through

LEMMA UndoStep ==
  ASSUME ContentInv, NEW w \in Worker, Undo(w)
  PROVE  \E j : Advances(w, j)
<1> PICK x \in Job : /\ x = job[w] /\ JobOK(x) /\ x # NoJob /\ x.pc = "undo" /\ x.dst \in Id
                     /\ x.dst \in used
                     /\ x.dst \notin torn \cup clashed => Phase(x)
  BY Working DEF Undo, At
<1>1. UNCHANGED <<files, queue, used, clashed, ops>> /\ Finish(w)
  BY DEF Undo
<1>2. CASE Fault("db") /\ Tear(w) /\ UNCHANGED <<docs, refs>>
  <2>1. x.dst \in torn'
    BY <1>2 DEF Tear
  <2> QED  BY <1>1, <1>2, <2>1, Through, FaultOK
<1>3. CASE /\ docs' = docs \ {x.dst} /\ refs' = [refs EXCEPT ![x.dst] = {}]
           /\ UNCHANGED <<torn, mishaps>>
  <2>1. /\ docs' \subseteq used /\ refs' \in [Id -> SUBSET File] /\ files' \in [Id -> SUBSET File]
        /\ mishaps' \in 0..MaxMishaps /\ torn' \subseteq used
        /\ \A d \in Id \ {x.dst} : (d \in docs' <=> d \in docs) /\ refs'[d] = refs[d]
    BY <1>1, <1>3 DEF ContentInv, TypeInv, TypeOK
  <2>2. x.op = "copy"
    BY DEF JobOK, Stage
  <2>3. \A c \in Id \ (torn' \cup clashed) : c = x.dst => Whole(c)'
    BY <1>1, <1>3, <2>2 DEF Phase, Whole
  <2>4. JobOK(NoJob)
    BY DEF JobOK
  <2> QED  BY <1>1, <1>3, <2>1, <2>3, <2>4 DEF Advances, Finish
<1> QED  BY <1>2, <1>3 DEF Undo

\* One CopyObject
LEMMA CopyFileStep ==
  ASSUME ContentInv, NEW w \in Worker, CopyFile(w)
  PROVE  \E j : Advances(w, j)
<1> PICK x \in Job : /\ x = job[w] /\ JobOK(x) /\ x # NoJob /\ x.pc = "cp" /\ x.dst \in Id
                     /\ x.dst \in used /\ x.src \in Id
                     /\ x.dst \notin torn \cup clashed => Phase(x)
  BY Working DEF CopyFile, At
<1>1. UNCHANGED <<docs, refs, queue, used, clashed, ops>>
  BY DEF CopyFile
<1>2. PICK f \in x.list :
        /\ GotoWith(w, "cp", x.list \ {f})
        /\ \/ files' = [files EXCEPT ![x.dst] = @ \cup {f}] /\ UNCHANGED <<torn, mishaps>>
           \/ Tear(w) /\ UNCHANGED files /\ (UNCHANGED mishaps \/ Fault("s3"))
  BY DEF CopyFile
<1>3. PICK L \in SUBSET File : L = x.list \ {f}
  BY DEF Job
<1> DEFINE j == [x EXCEPT !.pc = "cp", !.list = L]
<1>4. j \in Job
  BY DEF Job, Steps
<1>5. /\ j.op = x.op /\ j.src = x.src /\ j.dst = x.dst /\ j.names = x.names /\ j.held = x.held
      /\ j.pc = "cp" /\ j.list = L
  BY DEF Job
<1>6. job' = [job EXCEPT ![w] = j]
  BY <1>2, <1>3 DEF GotoWith
<1> HIDE DEF j
<1>7. JobOK(j)
  BY <1>4, <1>5 DEF JobOK, Stage, Ends
<1>8. /\ files' \in [Id -> SUBSET File]
      /\ \A d \in Id \ {x.dst} : files'[d] = files[d]
      /\ x.dst \notin torn' => files'[x.dst] = files[x.dst] \cup {f}
  BY <1>2 DEF ContentInv, TypeInv, TypeOK, Tear, Job
<1>9. mishaps' \in 0..MaxMishaps
  BY <1>2, FaultOK DEF ContentInv, TypeInv, TypeOK
<1>10. /\ docs' \subseteq used /\ refs' \in [Id -> SUBSET File] /\ torn' \subseteq used
       /\ \A d \in Id \ {x.dst} : d \in torn' <=> d \in torn
       /\ torn \subseteq torn'
  BY <1>1, <1>2 DEF ContentInv, TypeInv, TypeOK, Tear
<1>11. x.dst \notin torn' \cup clashed => Phase(j)'
  BY <1>1, <1>3, <1>5, <1>8, <1>10 DEF Phase
<1>12. j # NoJob
  BY <1>4 DEF Job, NoJob
<1> QED  BY <1>1, <1>5, <1>6, <1>7, <1>8, <1>9, <1>10, <1>11, <1>12 DEF Advances

LEMMA CopiedStep ==
  ASSUME ContentInv, NEW w \in Worker, Copied(w)
  PROVE  \E j : Advances(w, j)
<1> PICK x \in Job : /\ x = job[w] /\ x.pc = "cp" /\ x.list = {}
                     /\ x.dst \notin torn \cup clashed => Phase(x)
  BY Working DEF Copied, At
<1>1. UNCHANGED <<docs, refs, files, queue, used, torn, clashed, ops, mishaps>> /\ Finish(w)
  BY DEF Copied, store
<1>2. x.dst \notin torn' \cup clashed => Whole(x.dst)
  BY <1>1 DEF Phase, Whole
<1> QED  BY <1>1, <1>2, Through

\* The document of a deletion.
LEMMA RemoveDocStep ==
  ASSUME ContentInv, NEW w \in Worker, RemoveDoc(w)
  PROVE  \E j : Advances(w, j)
<1> PICK x \in Job : /\ x = job[w] /\ JobOK(x) /\ x # NoJob /\ x.pc = "rm" /\ x.dst \in Id
                     /\ x.dst \in used
                     /\ x.dst \notin torn \cup clashed => Phase(x)
  BY Working DEF RemoveDoc, At
<1>1. UNCHANGED <<files, queue, used, clashed, ops>>
  BY DEF RemoveDoc
<1>2. PICK j \in Job :
        /\ job' = [job EXCEPT ![w] = j]
        /\ j.op = x.op /\ j.src = x.src /\ j.dst = x.dst /\ j.pc = "rm" /\ j.list = x.list
        /\ x.op = "delete" => (j.held => x.op # "save")
  <2>1. CASE job' = [job EXCEPT ![w].doc = FALSE]
    <3> DEFINE j == [x EXCEPT !.doc = FALSE]
    <3>1. j \in Job /\ job' = [job EXCEPT ![w] = j]
      BY <2>1 DEF Job
    <3>2. j.op = x.op /\ j.src = x.src /\ j.dst = x.dst /\ j.pc = "rm" /\ j.list = x.list
      BY DEF Job
    <3> QED  BY <3>1, <3>2
  <2>2. CASE job' = [job EXCEPT ![w].doc = FALSE, ![w].held = FALSE]
    <3> DEFINE j == [x EXCEPT !.doc = FALSE, !.held = FALSE]
    <3>1. j \in Job
      BY DEF Job
    <3>2. job' = [job EXCEPT ![w] = j]
      BY <2>2
    <3>3. j.op = x.op /\ j.src = x.src /\ j.dst = x.dst /\ j.pc = "rm" /\ j.list = x.list
      BY DEF Job
    <3> QED  BY <3>1, <3>2, <3>3
  <2> QED  BY <2>1, <2>2 DEF RemoveDoc
<1>3. x.op = "delete" /\ JobOK(j)
  BY <1>2 DEF JobOK, Stage, Ends
<1>4. /\ docs' \subseteq used /\ refs' \in [Id -> SUBSET File] /\ files' \in [Id -> SUBSET File]
      /\ torn' \subseteq used /\ torn \subseteq torn'
      /\ \A d \in Id \ {x.dst} : /\ d \in docs' <=> d \in docs
                                 /\ d \in torn' <=> d \in torn
                                 /\ refs'[d] = refs[d]
      /\ x.dst \notin torn' => x.dst \notin docs'
  BY <1>1 DEF RemoveDoc, Tear, ContentInv, TypeInv, TypeOK
<1>5. mishaps' \in 0..MaxMishaps
  BY FaultOK DEF RemoveDoc, ContentInv, TypeInv, TypeOK
<1>6. x.dst \notin torn' \cup clashed => Phase(j)'
  BY <1>1, <1>2, <1>3, <1>4 DEF Phase
<1>7. j # NoJob
  BY DEF Job, NoJob
<1> QED  BY <1>1, <1>2, <1>3, <1>4, <1>5, <1>6, <1>7 DEF Advances

\* A file of a deletion.
LEMMA RemoveFileStep ==
  ASSUME ContentInv, NEW w \in Worker, RemoveFile(w)
  PROVE  \E j : Advances(w, j)
<1> PICK x \in Job : /\ x = job[w] /\ JobOK(x) /\ x # NoJob /\ x.pc = "rm" /\ x.dst \in Id
                     /\ x.dst \in used
                     /\ x.dst \notin torn \cup clashed => Phase(x)
  BY Working DEF RemoveFile, At
<1>1. UNCHANGED <<docs, refs, queue, used, clashed, ops>>
  BY DEF RemoveFile
<1>2. PICK f \in x.list :
       \/ /\ files' = [files EXCEPT ![x.dst] = @ \ {f}]
          /\ GotoWith(w, "rm", x.list \ {f})
          /\ UNCHANGED <<torn, mishaps>>
       \/ /\ Fault("s3") /\ Tear(w)
          /\ \E thrown \in BOOLEAN :
               job' = [job EXCEPT ![w].list = @ \ {f}, ![w].held = @ /\ ~thrown]
          /\ UNCHANGED files
  BY DEF RemoveFile
<1>3. PICK L \in SUBSET File : L = x.list \ {f}
  BY DEF Job
<1>4. PICK j \in Job :
        /\ job' = [job EXCEPT ![w] = j]
        /\ j.op = x.op /\ j.src = x.src /\ j.dst = x.dst /\ j.pc = "rm" /\ j.list = L
        /\ (j.doc <=> x.doc)
  <2>1. CASE GotoWith(w, "rm", x.list \ {f})
    <3> DEFINE j == [x EXCEPT !.pc = "rm", !.list = L]
    <3>1. j \in Job
      BY DEF Job, Steps
    <3>2. job' = [job EXCEPT ![w] = j]
      BY <1>3, <2>1 DEF GotoWith
    <3>3. j.op = x.op /\ j.src = x.src /\ j.dst = x.dst /\ j.pc = "rm" /\ j.list = L /\ (j.doc <=> x.doc)
      BY DEF Job
    <3> QED  BY <3>1, <3>2, <3>3
  <2>2. ASSUME NEW thrown \in BOOLEAN,
               job' = [job EXCEPT ![w].list = @ \ {f}, ![w].held = @ /\ ~thrown]
        PROVE  \E j \in Job :
                 /\ job' = [job EXCEPT ![w] = j]
                 /\ j.op = x.op /\ j.src = x.src /\ j.dst = x.dst /\ j.pc = "rm" /\ j.list = L
                 /\ (j.doc <=> x.doc)
    <3> DEFINE j == [x EXCEPT !.list = L, !.held = x.held /\ ~thrown]
    <3>1. j \in Job
      BY DEF Job
    <3>2. job' = [job EXCEPT ![w] = j]
      BY <1>3, <2>2
    <3>3. j.op = x.op /\ j.src = x.src /\ j.dst = x.dst /\ j.pc = "rm" /\ j.list = L /\ (j.doc <=> x.doc)
      BY DEF Job
    <3> QED  BY <3>1, <3>2, <3>3
  <2> QED  BY <1>2, <2>1, <2>2
<1>5. x.op = "delete" /\ JobOK(j)
  BY <1>4 DEF JobOK, Stage, Ends
<1>6. /\ files' \in [Id -> SUBSET File] /\ torn' \subseteq used /\ torn \subseteq torn'
      /\ \A d \in Id \ {x.dst} : (d \in torn' <=> d \in torn) /\ files'[d] = files[d]
      /\ x.dst \notin torn' => files'[x.dst] = files[x.dst] \ {f}
  BY <1>2 DEF Tear, ContentInv, TypeInv, TypeOK
<1>7. mishaps' \in 0..MaxMishaps
  BY <1>2, FaultOK DEF ContentInv, TypeInv, TypeOK
<1>8. docs' \subseteq used /\ refs' \in [Id -> SUBSET File]
  BY <1>1 DEF ContentInv, TypeInv, TypeOK
<1>9. x.dst \notin torn' \cup clashed => Phase(j)'
  BY <1>1, <1>3, <1>4, <1>5, <1>6 DEF Phase
<1>10. j # NoJob
  BY DEF Job, NoJob
<1> QED  BY <1>1, <1>4, <1>5, <1>6, <1>7, <1>8, <1>9, <1>10 DEF Advances

LEMMA RemovedStep ==
  ASSUME ContentInv, NEW w \in Worker, Removed(w)
  PROVE  \E j : Advances(w, j)
<1> PICK x \in Job : /\ x = job[w] /\ x.pc = "rm" /\ x.list = {} /\ ~x.doc
                     /\ x.dst \notin torn \cup clashed => Phase(x)
  BY Working DEF Removed, At
<1>1. UNCHANGED <<docs, refs, files, queue, used, torn, clashed, ops, mishaps>> /\ Finish(w)
  BY DEF Removed, store
<1>2. x.dst \notin torn' \cup clashed => Whole(x.dst)
  BY <1>1 DEF Phase, Whole
<1> QED  BY <1>1, <1>2, Through

\* A worker with no operation.
LEMMA IdleOnly ==
  ASSUME TypeInv, NEW v \in Worker, ~Busy(v)
  PROVE  job[v] = NoJob
<1>1. job[v] \in Job \cup {NoJob}
  BY DEF TypeInv, JobOK
<1> QED  BY <1>1 DEF Busy, Job

\* The source of a copy nobody has touched is at rest.
LEMMA SourceWhole ==
  ASSUME ContentInv, NEW w \in Worker, job[w].op = "copy", job[w] \in Job,
         job[w].dst \notin clashed, job[w].src \notin torn
  PROVE  Whole(job[w].src)
<1>1. job[w].src \in Id /\ job[w].dst # job[w].src /\ Busy(w)
  <2>1. job[w] # NoJob /\ JobOK(job[w])
    BY DEF NoJob, ContentInv, TypeInv
  <2> QED  BY <2>1 DEF JobOK, Ends, Job, Busy
<1>2. job[w].src \notin clashed
  BY DEF ContentInv, ClashInv
<1>3. ASSUME NEW v \in Worker PROVE job[v].dst # job[w].src
  <2>1. CASE v = w
    BY <1>1, <2>1
  <2>2. CASE v # w /\ Busy(v)
    BY <1>1, <2>2 DEF ContentInv, ClashInv, Apart
  <2>3. CASE ~Busy(v)
    <3>1. job[v] = NoJob
      BY <2>3, IdleOnly DEF ContentInv
    <3> QED  BY <1>1, <3>1, ContentAssumption DEF NoJob
  <2> QED  BY <2>1, <2>2, <2>3
<1> QED  BY <1>1, <1>2, <1>3 DEF ContentInv, WholeAtRest

\* listFiles
LEMMA ListStep ==
  ASSUME ContentInv, NEW w \in Worker, List(w)
  PROVE  \E j : Advances(w, j)
<1> PICK x \in Job : /\ x = job[w] /\ JobOK(x) /\ x # NoJob /\ x.pc = "list" /\ x.dst \in Id
                     /\ x.dst \in used /\ x.src \in Id
                     /\ x.dst \notin torn \cup clashed => Phase(x)
  BY Working DEF List, At
<1>1. UNCHANGED <<docs, refs, files, queue, used, clashed, ops>>
  BY DEF List, store
<1>2. x.op \in {"copy", "delete"} /\ torn \subseteq used
  BY DEF JobOK, Stage, ContentInv, TypeInv, TypeOK
<1>3. CASE x.op = "copy" /\ x.src \in docs /\ GotoWith(w, "cp", files[x.src]) /\ UNCHANGED mishaps
           /\ IF x.src \in torn THEN Tear(w) ELSE UNCHANGED torn
  <2>1. PICK L \in SUBSET File : L = files[x.src]
    BY DEF ContentInv, TypeInv, TypeOK
  <2> DEFINE j == [x EXCEPT !.pc = "cp", !.list = L]
  <2>2. j \in Job
    BY DEF Job, Steps
  <2>3. /\ j.op = x.op /\ j.src = x.src /\ j.dst = x.dst /\ j.names = x.names /\ j.held = x.held
        /\ j.pc = "cp" /\ j.list = L
    BY DEF Job
  <2>4. job' = [job EXCEPT ![w] = j]
    BY <1>3, <2>1 DEF GotoWith
  <2> HIDE DEF j
  <2>5. JobOK(j)
    BY <1>3, <2>2, <2>3 DEF JobOK, Stage, Ends
  <2>6. torn' \subseteq used /\ torn \subseteq torn' /\ \A d \in Id \ {x.dst} : d \in torn' <=> d \in torn
    BY <1>2, <1>3 DEF Tear
  <2>7. ASSUME x.dst \notin torn' \cup clashed
        PROVE  Phase(j)
    <3>1. x.src \notin torn
      BY <1>3, <2>7 DEF Tear
    <3>2. Whole(x.src) /\ Phase(x)
      BY <1>3, <2>6, <2>7, <3>1, SourceWhole
    <3>3. x.dst \in docs /\ refs[x.dst] = refs[x.src] /\ refs[x.src] \subseteq L
      BY <1>3, <2>1, <3>2 DEF Phase, Whole
    <3> QED  BY <1>3, <2>3, <3>3 DEF Phase
  <2> QED  BY <1>1, <1>3, <2>2, <2>3, <2>4, <2>5, <2>6, <2>7, GoesOn
<1>4. CASE /\ x.op # "copy" /\ UNCHANGED mishaps /\ torn' = torn \ {x.dst}
           /\ job' = [job EXCEPT ![w].pc = "rm", ![w].list = files[x.src], ![w].doc = TRUE]
  <2>1. PICK L \in SUBSET File : L = files[x.src]
    BY DEF ContentInv, TypeInv, TypeOK
  <2> DEFINE j == [x EXCEPT !.pc = "rm", !.list = L, !.doc = TRUE]
  <2>2. j \in Job
    BY DEF Job, Steps
  <2>3. /\ j.op = x.op /\ j.src = x.src /\ j.dst = x.dst /\ j.names = x.names /\ j.held = x.held
        /\ j.pc = "rm" /\ j.list = L
    BY DEF Job
  <2>4. j.doc = TRUE
    BY DEF Job
  <2>5. job' = [job EXCEPT ![w] = j]
    BY <1>4, <2>1
  <2> HIDE DEF j
  <2>6. JobOK(j)
    BY <1>2, <1>4, <2>2, <2>3 DEF JobOK, Stage, Ends
  <2>7. x.src = x.dst
    BY <1>4 DEF JobOK, Ends
  <2>8. Phase(j)
    BY <1>2, <1>4, <2>1, <2>3, <2>4, <2>7 DEF Phase
  <2>9. torn' \subseteq used /\ \A d \in Id \ {x.dst} : d \in torn' <=> d \in torn
    BY <1>2, <1>4
  <2> QED  BY <1>1, <1>4, <2>2, <2>3, <2>5, <2>6, <2>8, <2>9, GoesOn
<1>5. CASE /\ UNCHANGED torn /\ (UNCHANGED mishaps \/ \E k \in {"db", "s3"} : Fault(k))
           /\ IF x.op = "copy" THEN Goto(w, "undo") ELSE Finish(w)
  <2>1. mishaps' = mishaps \/ mishaps' \in 0..MaxMishaps
    BY <1>5, FaultOK
  <2>2. CASE x.op # "copy"
    <3>1. x.dst \notin torn' \cup clashed => Whole(x.dst)
      BY <1>2, <1>5, <2>2 DEF Phase
    <3> QED  BY <1>1, <1>5, <2>1, <2>2, <3>1, Through
  <2>3. CASE x.op = "copy"
    <3> DEFINE j == [x EXCEPT !.pc = "undo"]
    <3>1. j \in Job
      BY DEF Job, Steps
    <3>2. j.op = x.op /\ j.src = x.src /\ j.dst = x.dst /\ j.held = x.held /\ j.pc = "undo"
      BY DEF Job
    <3>3. job' = [job EXCEPT ![w] = j]
      BY <1>5, <2>3 DEF Goto
    <3> HIDE DEF j
    <3>4. JobOK(j)
      BY <2>3, <3>1, <3>2 DEF JobOK, Stage, Ends
    <3>5. x.dst \notin torn' \cup clashed => Phase(j)
      BY <1>5, <2>3, <3>2 DEF Phase
    <3> QED  BY <1>1, <1>2, <1>5, <2>1, <3>1, <3>2, <3>3, <3>4, <3>5, GoesOn
  <2> QED  BY <2>2, <2>3
<1> QED  BY <1>3, <1>4, <1>5 DEF List

\* Every call of an operation is one of these steps.
LEMMA CallStep ==
  ASSUME ContentInv, NEW w \in Worker, Call(w)
  PROVE  Busy(w) /\ \E j : Advances(w, j)
<1>1. \E j : Advances(w, j)
  BY SMTT(60), FindStep, InsertStep, WriteStep, AddFileStep, PutFileStep, AddedStep, PruneStep, SavedStep,
     ListStep, UndoStep, CopyFileStep, CopiedStep, RemoveDocStep, RemoveFileStep, RemovedStep
  DEF Call
<1>2. job[w].pc # "idle"
  BY DEF Call, At, Find, Insert, Write, AddFile, PutFile, Added, Prune, Saved, List, Undo, CopyFile,
         Copied, RemoveDoc, RemoveFile, Removed
<1> QED  BY <1>1, <1>2, Working

(***************************************************************************)
(* Every step keeps the invariant.                                         *)
(***************************************************************************)
\* What a job relies on is left alone by those who change other contents.
LEMMA PhaseKept ==
  ASSUME NEW j, Phase(j), j.dst \in docs' <=> j.dst \in docs,
         refs'[j.dst] = refs[j.dst], files'[j.dst] = files[j.dst],
         j.op = "copy" => refs'[j.src] = refs[j.src]
  PROVE  Phase(j)'
BY DEF Phase, Whole

LEMMA CallKeeps ==
  ASSUME ContentInv, NEW w \in Worker, Call(w)
  PROVE  ContentInv'
<1>1. PICK j : Busy(w) /\ Advances(w, j)
  BY CallStep
<1>2. /\ job' = [job EXCEPT ![w] = j] /\ JobOK(j)
      /\ j # NoJob => j.op = job[w].op /\ j.src = job[w].src /\ j.dst = job[w].dst
      /\ UNCHANGED <<queue, used, clashed, ops>>
      /\ \A c \in Id \ {job[w].dst} :
           /\ c \in docs' <=> c \in docs
           /\ c \in torn' <=> c \in torn
           /\ refs'[c] = refs[c] /\ files'[c] = files[c]
  BY <1>1 DEF Advances
<1>3. job \in [Worker -> Job \cup {NoJob}] /\ j \in Job \cup {NoJob}
  BY <1>2 DEF ContentInv, TypeInv, TypeOK, JobOK
<1>4. \A v \in Worker : job'[v] = IF v = w THEN j ELSE job[v]
  BY <1>2, <1>3
<1>5. TypeInv'
  <2>1. TypeOK'
    BY <1>1, <1>2, <1>3 DEF ContentInv, TypeInv, TypeOK, Advances
  <2>2. \A v \in Worker : JobOK(job[v])'
    BY <1>2, <1>4 DEF ContentInv, TypeInv, JobOK, Ends
  <2>3. \A m \in queue' : Ends(m)'
    BY <1>2 DEF ContentInv, TypeInv, Ends
  <2> QED  BY <2>1, <2>2, <2>3 DEF TypeInv
<1>6. \A v \in Worker : /\ Busy(v)' => Busy(v)
                        /\ Busy(v)' => job'[v].src = job[v].src /\ job'[v].dst = job[v].dst
                        /\ job'[v].src \in clashed => job[v].src \in clashed /\ job'[v].dst = job[v].dst
  <2>1. NoJob.src \notin clashed
    BY ContentAssumption DEF NoJob, ContentInv, TypeInv, TypeOK
  <2> QED  BY <1>1, <1>2, <1>4, <2>1 DEF Busy, NoJob
<1>7. ClashInv'
  <2>1. ASSUME NEW u \in Worker, NEW v \in Worker, u # v, Busy(u)', Busy(v)'
        PROVE  Apart(job[u], job[v])'
    BY <1>2, <1>6, <2>1 DEF ContentInv, ClashInv, Apart
  <2>2. ASSUME NEW v \in Worker, NEW m \in queue, Busy(v)'
        PROVE  Apart(job[v], m)' /\ Apart(m, job[v])'
    BY <1>2, <1>6, <2>2 DEF ContentInv, ClashInv, Apart
  <2>3. ASSUME NEW m \in queue, NEW n \in queue, m # n
        PROVE  Apart(m, n)'
    BY <1>2, <2>3 DEF ContentInv, ClashInv, Apart
  <2>4. ASSUME NEW v \in Worker, job'[v].src \in clashed'
        PROVE  job'[v].dst \in clashed'
    BY <1>2, <1>6, <2>4 DEF ContentInv, ClashInv
  <2>5. \A m \in queue : m.src \in clashed => m.dst \in clashed
    BY DEF ContentInv, ClashInv
  <2> QED  BY <1>2, <2>1, <2>2, <2>3, <2>4, <2>5 DEF ClashInv
<1>8. WholeAtRest'
  <2> SUFFICES ASSUME NEW c \in Id \ (torn' \cup clashed'), \A v \in Worker : job'[v].dst # c
               PROVE  Whole(c)'
    BY DEF WholeAtRest
  <2>1. CASE c = job[w].dst
    BY <1>1, <1>2, <1>4, <2>1 DEF Advances
  <2>2. CASE c # job[w].dst
    <3>1. Whole(c)
      BY <1>2, <1>4, <2>2 DEF ContentInv, WholeAtRest
    <3> QED  BY <1>2, <2>2, <3>1 DEF Whole
  <2> QED  BY <2>1, <2>2
<1>9. PhaseInv'
  <2> SUFFICES ASSUME NEW v \in Worker, Busy(v)', job'[v].dst \notin torn' \cup clashed'
               PROVE  Phase(job[v])'
    BY DEF PhaseInv
  <2>1. job'[v].dst \in Id /\ job'[v] # NoJob
    <3>1. job'[v] \in Job \cup {NoJob} /\ job'[v].op # "none"
      BY <1>5 DEF TypeInv, TypeOK, Busy
    <3> QED  BY <3>1 DEF Job, NoJob
  <2>2. CASE v = w
    <3>1. job'[v] = j /\ j # NoJob
      BY <1>4, <2>1, <2>2
    <3>2. Phase(j)'
      BY <1>1, <1>2, <2>1, <3>1 DEF Advances
    <3> QED  BY <3>1, <3>2 DEF Phase, Whole
  <2>3. CASE v # w
    <3>1. PICK x : x = job[v]
      OBVIOUS
    <3>2. job'[v] = x /\ Busy(v) /\ x.dst \in Id /\ x.src \in Id /\ x.dst \notin clashed
      <4>1. job'[v] = x /\ Busy(v) /\ x.dst \in Id /\ x.dst \notin clashed
        BY <1>2, <1>4, <1>6, <2>1, <2>3, <3>1
      <4>2. x \in Job
        BY <1>3, <2>1, <3>1, <4>1
      <4> QED  BY <4>1, <4>2 DEF Job
    <3>3. job[w].dst # x.dst /\ job[w].dst # x.src
      BY <1>1, <2>3, <3>1, <3>2 DEF ContentInv, ClashInv, Apart
    <3>4. Phase(x)
      BY <1>2, <3>1, <3>2, <3>3 DEF ContentInv, PhaseInv
    <3>5. Phase(x)'
      BY <1>2, <3>2, <3>3, <3>4, PhaseKept
    <3> QED  BY <3>2, <3>5 DEF Phase, Whole
  <2> QED  BY <2>2, <2>3
<1> QED  BY <1>5, <1>7, <1>8, <1>9 DEF ContentInv

\* Different operations under way are kept apart, as messages or as jobs.
LEMMA PendingApart ==
  ASSUME ContentInv, NEW p \in Pending, NEW q \in Pending, p # q
  PROVE  Apart(p, q)
BY DEF Pending, ContentInv, ClashInv

LEMMA PendingOK ==
  ASSUME ContentInv, NEW p \in Pending
  PROVE  /\ p.src \in Id /\ p.dst \in Id /\ Ends(p)
         /\ p.src \in clashed => p.dst \in clashed
<1>1. CASE p \in queue
  BY <1>1 DEF ContentInv, TypeInv, TypeOK, Message, Ends, ClashInv
<1>2. ASSUME NEW w \in Worker, Busy(w), p = job[w]
      PROVE  /\ p.src \in Id /\ p.dst \in Id /\ Ends(p)
             /\ p.src \in clashed => p.dst \in clashed
  <2>1. p \in Job /\ p # NoJob /\ JobOK(p)
    BY <1>2 DEF ContentInv, TypeInv, JobOK, Busy, NoJob
  <2>2. Ends(p)
    BY <2>1 DEF JobOK
  <2> QED  BY <1>2, <2>1, <2>2 DEF ContentInv, ClashInv, Job
<1> QED  BY <1>1, <1>2 DEF Pending

\* An operation started on c gives up c and what is made of it.
LEMMA ClashOnOK ==
  ASSUME ContentInv, NEW c \in Id, ClashOn(c)
  PROVE  /\ clashed \subseteq clashed' /\ clashed' \subseteq used \cup {c}
         /\ \A p \in Pending : c \in {p.src, p.dst} => c \in clashed' /\ p.dst \in clashed'
         /\ \A p \in Pending : p.src \in clashed' => p.dst \in clashed'
<1>1. clashed \subseteq clashed' /\ used \subseteq Id /\ clashed \subseteq used
  BY DEF ClashOn, ContentInv, TypeInv, TypeOK
<1>2. \A p \in Pending : c \in {p.src, p.dst} => c \in clashed' /\ p.dst \in clashed'
  BY <1>1, PendingOK DEF ClashOn
<1>3. \A d \in clashed' \ clashed : \E p \in Pending : c \in {p.src, p.dst} /\ d \in {c, p.dst}
  BY DEF ClashOn
<1>4. clashed' \subseteq used \cup {c}
  BY <1>1, <1>3, PendingOK DEF Ends
<1>5. ASSUME NEW q \in Pending, q.src \in clashed'
      PROVE  q.dst \in clashed'
  <2>1. CASE q.src \in clashed
    BY <1>1, <2>1, PendingOK
  <2>2. CASE q.src \notin clashed
    <3>1. PICK p \in Pending : c \in {p.src, p.dst} /\ q.src \in {c, p.dst}
      BY <1>3, <1>5, <2>2
    <3>2. CASE q.src = c
      BY <1>2, <3>2
    <3>3. CASE q.src = p.dst /\ p # q
      BY <1>1, <3>3, PendingApart DEF Apart
    <3>4. CASE p = q
      BY <1>5, <3>1, <1>2, <3>4
    <3> QED  BY <3>1, <3>2, <3>3, <3>4
  <2> QED  BY <2>1, <2>2
<1> QED  BY <1>1, <1>2, <1>4, <1>5

\* A new message.
LEMMA NewMessage ==
  ASSUME ContentInv, NEW m \in Message, queue' = queue \cup {m}, NewOp,
         UNCHANGED <<docs, refs, files, job, torn, mishaps>>,
         used \subseteq used', used' \subseteq Id, Ends(m)',
         clashed \subseteq clashed', clashed' \subseteq used',
         \A p \in Pending : /\ p.dst \in {m.src, m.dst} => m.dst \in clashed'
                            /\ m.dst \in {p.src, p.dst} => p.dst \in clashed'
                            /\ p.src \in clashed' => p.dst \in clashed',
         m.src \in clashed' => m.dst \in clashed'
  PROVE  ContentInv'
<1>1. TypeInv'
  BY ContentAssumption DEF ContentInv, TypeInv, TypeOK, JobOK, Ends, NewOp
<1>2. WholeAtRest' /\ PhaseInv'
  BY DEF ContentInv, WholeAtRest, PhaseInv, Phase, Whole, Busy
<1>3. ClashInv'
  <2>1. \A v \in Worker : Busy(v) => job[v] \in Pending
    BY DEF Pending
  <2>2. \A n \in queue : n \in Pending
    BY DEF Pending
  <2>3. ASSUME NEW u \in Worker, NEW v \in Worker, u # v, Busy(u)', Busy(v)'
        PROVE  Apart(job[u], job[v])'
    BY <2>3 DEF ContentInv, ClashInv, Apart, Busy
  <2>4. ASSUME NEW v \in Worker, NEW n \in queue', Busy(v)'
        PROVE  Apart(job[v], n)' /\ Apart(n, job[v])'
    BY <2>1, <2>4 DEF ContentInv, ClashInv, Apart, Busy
  <2>5. ASSUME NEW n \in queue', NEW o \in queue', n # o
        PROVE  Apart(n, o)'
    BY <2>2, <2>5 DEF ContentInv, ClashInv, Apart
  <2>6. ASSUME NEW v \in Worker, job'[v].src \in clashed'
        PROVE  job'[v].dst \in clashed'
    <3>1. CASE Busy(v)
      BY <2>1, <2>6, <3>1
    <3>2. CASE ~Busy(v)
      <4>1. job[v] = NoJob
        BY <3>2, IdleOnly DEF ContentInv
      <4> QED  BY <2>6, <4>1, ContentAssumption DEF NoJob
    <3> QED  BY <3>1, <3>2
  <2>7. \A n \in queue' : n.src \in clashed' => n.dst \in clashed'
    BY <2>2
  <2> QED  BY <2>3, <2>4, <2>5, <2>6, <2>7 DEF ClashInv
<1> QED  BY <1>1, <1>2, <1>3 DEF ContentInv

LEMMA SendKeeps == ContentInv /\ (SendCopy \/ SendDelete) => ContentInv'
<1>0. ContentInv => /\ used \subseteq Id /\ clashed \subseteq used
                    /\ \A p \in Pending : p.src \in used /\ p.dst \in used
                                          /\ (p.src \in clashed => p.dst \in clashed)
  BY PendingOK DEF ContentInv, TypeInv, TypeOK, Ends
<1>1. ASSUME ContentInv, SendCopy PROVE ContentInv'
  <2>1. PICK s \in used, d \in Id \ used :
          /\ queue' = queue \cup {[op |-> "copy", src |-> s, dst |-> d]}
          /\ used' = used \cup {d}
          /\ ClashOfCopy(s, d)
    BY <1>1 DEF SendCopy
  <2> DEFINE m == [op |-> "copy", src |-> s, dst |-> d]
  <2>2. m \in Message /\ m.op = "copy" /\ m.src = s /\ m.dst = d /\ s # d
    BY <1>0, <1>1, <2>1 DEF Message
  <2>3. /\ clashed \subseteq clashed' /\ clashed' \subseteq clashed \cup {d}
        /\ s \in Changing \cup clashed => d \in clashed'
    BY <2>1 DEF ClashOfCopy
  <2>4. \A p \in Pending : p.dst \in Changing
    BY DEF Changing
  <2> HIDE DEF m
  <2>5. Ends(m)'
    BY <2>1, <2>2 DEF Ends
  <2>6. \A p \in Pending : /\ p.dst \in {m.src, m.dst} => m.dst \in clashed'
                           /\ m.dst \in {p.src, p.dst} => p.dst \in clashed'
                           /\ p.src \in clashed' => p.dst \in clashed'
    BY <1>0, <1>1, <2>1, <2>2, <2>3, <2>4
  <2>7. m.src \in clashed' => m.dst \in clashed'
    BY <2>1, <2>2, <2>3
  <2>8. queue' = queue \cup {m}
    BY <2>1 DEF m
  <2>9. used \subseteq used' /\ used' \subseteq Id /\ clashed' \subseteq used'
    BY <1>0, <1>1, <2>1, <2>3
  <2>10. NewOp /\ UNCHANGED <<docs, refs, files, job, torn, mishaps>>
    BY <1>1 DEF SendCopy, store
  <2> QED  BY <1>1, <2>2, <2>3, <2>5, <2>6, <2>7, <2>8, <2>9, <2>10, NewMessage
<1>2. ASSUME ContentInv, SendDelete PROVE ContentInv'
  <2>1. PICK c \in used : queue' = queue \cup {[op |-> "delete", src |-> c, dst |-> c]} /\ ClashOn(c)
    BY <1>2 DEF SendDelete
  <2> DEFINE m == [op |-> "delete", src |-> c, dst |-> c]
  <2>2. m \in Message /\ m.op = "delete" /\ m.src = c /\ m.dst = c /\ c \in Id
    BY <1>0, <1>2, <2>1 DEF Message
  <2>3. NewOp /\ UNCHANGED <<docs, refs, files, job, used, torn, mishaps>>
    BY <1>2 DEF SendDelete, store
  <2>4. queue' = queue \cup {m}
    BY <2>1
  <2> HIDE DEF m
  <2>5. Ends(m)'
    BY <2>2, <2>3 DEF Ends
  <2>6. /\ clashed \subseteq clashed' /\ clashed' \subseteq used
        /\ \A p \in Pending : c \in {p.src, p.dst} => c \in clashed' /\ p.dst \in clashed'
        /\ \A p \in Pending : p.src \in clashed' => p.dst \in clashed'
    BY <1>2, <2>1, <2>2, ClashOnOK
  <2> QED  BY <1>0, <1>2, <2>2, <2>3, <2>4, <2>5, <2>6, NewMessage
<1> QED  BY <1>1, <1>2

\* A worker starts on an operation.
LEMMA NewJob ==
  ASSUME ContentInv, NEW w \in Worker, ~Busy(w), NEW j \in Job, JobOK(j)',
         job' = [job EXCEPT ![w] = j], queue' \subseteq queue,
         UNCHANGED <<docs, refs, files, torn, mishaps>>, ops' \in 0..MaxOps,
         used \subseteq used', used' \subseteq Id, clashed \subseteq clashed', clashed' \subseteq used',
         j.pc \in {"find", "insert"}, j.op = "copy" => j.pc = "find",
         j.src \in clashed' => j.dst \in clashed',
         \A v \in Worker \ {w} : Busy(v) =>
            /\ job[v].dst \in {j.src, j.dst} => j.dst \in clashed'
            /\ j.dst \in {job[v].src, job[v].dst} => job[v].dst \in clashed'
            /\ job[v].src \in clashed' => job[v].dst \in clashed',
         \A m \in queue' :
            /\ m.dst \in {j.src, j.dst} => j.dst \in clashed'
            /\ j.dst \in {m.src, m.dst} => m.dst \in clashed'
            /\ m.src \in clashed' => m.dst \in clashed'
  PROVE  ContentInv'
<1>1. job \in [Worker -> Job \cup {NoJob}] /\ \A v \in Worker : job'[v] = IF v = w THEN j ELSE job[v]
  BY DEF ContentInv, TypeInv, TypeOK
<1>2. TypeInv'
  <2>1. TypeOK'
    BY <1>1 DEF ContentInv, TypeInv, TypeOK
  <2>2. ASSUME NEW v \in Worker PROVE JobOK(job[v])'
    BY <1>1 DEF ContentInv, TypeInv, JobOK, Ends
  <2>3. \A m \in queue' : Ends(m)'
    BY DEF ContentInv, TypeInv, Ends
  <2> QED  BY <2>1, <2>2, <2>3 DEF TypeInv
<1>3. ClashInv'
  <2>1. ASSUME NEW u \in Worker, NEW v \in Worker, u # v, Busy(u)', Busy(v)'
        PROVE  Apart(job[u], job[v])'
    <3>1. CASE u # w /\ v # w
      BY <1>1, <2>1, <3>1 DEF ContentInv, ClashInv, Apart, Busy
    <3>2. CASE u = w
      BY <1>1, <2>1, <3>2 DEF Apart, Busy
    <3>3. CASE v = w
      BY <1>1, <2>1, <3>3 DEF Apart, Busy
    <3> QED  BY <3>1, <3>2, <3>3
  <2>2. ASSUME NEW v \in Worker, NEW m \in queue', Busy(v)'
        PROVE  Apart(job[v], m)' /\ Apart(m, job[v])'
    <3>1. CASE v # w
      BY <1>1, <2>2, <3>1 DEF ContentInv, ClashInv, Apart, Busy
    <3>2. CASE v = w
      BY <1>1, <2>2, <3>2 DEF Apart
    <3> QED  BY <3>1, <3>2
  <2>3. ASSUME NEW m \in queue', NEW n \in queue', m # n
        PROVE  Apart(m, n)'
    BY <2>3 DEF ContentInv, ClashInv, Apart
  <2>4. ASSUME NEW v \in Worker, job'[v].src \in clashed'
        PROVE  job'[v].dst \in clashed'
    <3>1. CASE v = w \/ Busy(v)
      BY <1>1, <2>4, <3>1
    <3>2. CASE v # w /\ ~Busy(v)
      <4>1. job'[v] = NoJob
        BY <1>1, <3>2, IdleOnly DEF ContentInv
      <4> QED  BY <2>4, <4>1, ContentAssumption DEF NoJob
    <3> QED  BY <3>1, <3>2
  <2> QED  BY <2>1, <2>2, <2>3, <2>4 DEF ClashInv
<1>4. job[w] = NoJob /\ NoJob.dst \notin Id
  BY IdleOnly, ContentAssumption DEF ContentInv, NoJob
<1>5. WholeAtRest'
  <2> SUFFICES ASSUME NEW c \in Id \ (torn' \cup clashed'), \A v \in Worker : job'[v].dst # c
               PROVE  Whole(c)'
    BY DEF WholeAtRest
  <2>1. \A v \in Worker : job[v].dst # c
    BY <1>1, <1>4
  <2>2. Whole(c)
    BY <2>1 DEF ContentInv, WholeAtRest
  <2> QED  BY <2>2 DEF Whole
<1>6. PhaseInv'
  <2> SUFFICES ASSUME NEW v \in Worker, Busy(v)', job'[v].dst \notin torn' \cup clashed'
               PROVE  Phase(job[v])'
    BY DEF PhaseInv
  <2>1. CASE v # w
    BY <1>1, <2>1 DEF ContentInv, PhaseInv, Phase, Whole, Busy
  <2>2. CASE v = w
    <3>1. j.dst \in Id \ (torn \cup clashed)
      BY <1>1, <2>2 DEF Job
    <3>2. ASSUME NEW u \in Worker PROVE job[u].dst # j.dst
      <4>1. CASE u = w
        BY <1>4, <3>1, <4>1
      <4>2. CASE u # w /\ Busy(u)
        BY <1>1, <2>2, <4>2
      <4>3. CASE ~Busy(u)
        BY <1>4, <3>1, <4>3, IdleOnly DEF ContentInv
      <4> QED  BY <4>1, <4>2, <4>3
    <3>3. Whole(j.dst)
      BY <3>1, <3>2 DEF ContentInv, WholeAtRest
    <3>4. Phase(j)
      BY <3>3 DEF Phase
    <3>5. Phase(j)'
      BY <3>4 DEF Phase, Whole
    <3> QED  BY <1>1, <2>2, <3>5 DEF Phase, Whole
  <2> QED  BY <2>1, <2>2
<1> QED  BY <1>2, <1>3, <1>5, <1>6 DEF ContentInv


LEMMA TakeKeeps == ASSUME ContentInv, NEW w \in Worker, Take(w) PROVE ContentInv'
<1>1. PICK m \in queue : /\ queue' = queue \ {m}
                         /\ job' = [job EXCEPT ![w] = Start(m.op, FALSE, m.src, m.dst, "find", {})]
  BY DEF Take
<1>2. ~Busy(w) /\ UNCHANGED <<docs, refs, files, used, torn, clashed, ops, mishaps>>
  BY DEF Take, store
<1>3. m.op \in {"copy", "delete"} /\ m.src \in Id /\ m.dst \in Id /\ Ends(m)
  BY DEF ContentInv, TypeInv, TypeOK, Message
<1> DEFINE j == [op |-> m.op, api |-> FALSE, src |-> m.src, dst |-> m.dst, pc |-> "find",
                 names |-> {}, list |-> {}, doc |-> FALSE, held |-> ~FALSE]
<1>4. j \in Job /\ j.op = m.op /\ j.src = m.src /\ j.dst = m.dst /\ j.pc = "find"
  BY <1>3 DEF Job, Steps
<1>4a. job' = [job EXCEPT ![w] = j]
  BY <1>1 DEF Start
<1> HIDE DEF j
<1>5. JobOK(j)'
  BY <1>2, <1>3, <1>4 DEF JobOK, Stage, Ends
<1>6. j.src \in clashed => j.dst \in clashed
  BY <1>4 DEF ContentInv, ClashInv
<1>7. \A v \in Worker : Busy(v) => /\ Apart(job[v], m) /\ Apart(m, job[v])
                                   /\ job[v].src \in clashed => job[v].dst \in clashed
  BY DEF ContentInv, ClashInv
<1>8. \A n \in queue' : /\ Apart(n, m) /\ Apart(m, n)
                        /\ n.src \in clashed => n.dst \in clashed
  BY <1>1 DEF ContentInv, ClashInv
<1>9. ops \in 0..MaxOps /\ used \subseteq Id /\ clashed \subseteq used
  BY DEF ContentInv, TypeInv, TypeOK
<1>10. /\ job' = [job EXCEPT ![w] = j] /\ queue' \subseteq queue /\ ops' \in 0..MaxOps
       /\ used \subseteq used' /\ used' \subseteq Id /\ clashed \subseteq clashed' /\ clashed' \subseteq used'
       /\ j.src \in clashed' => j.dst \in clashed'
  BY <1>1, <1>2, <1>4, <1>4a, <1>6, <1>9
<1>11. \A v \in Worker \ {w} : Busy(v) =>
         /\ job[v].dst \in {j.src, j.dst} => j.dst \in clashed'
         /\ j.dst \in {job[v].src, job[v].dst} => job[v].dst \in clashed'
         /\ job[v].src \in clashed' => job[v].dst \in clashed'
  BY <1>2, <1>4, <1>7 DEF Apart
<1>12. \A n \in queue' :
         /\ n.dst \in {j.src, j.dst} => j.dst \in clashed'
         /\ j.dst \in {n.src, n.dst} => n.dst \in clashed'
         /\ n.src \in clashed' => n.dst \in clashed'
  BY <1>2, <1>4, <1>8 DEF Apart
<1> QED  BY <1>2, <1>4, <1>5, <1>10, <1>11, <1>12, NewJob

\* A request for content c: who else uses c is given up.
LEMMA RequestKeeps ==
  ASSUME ContentInv, NEW w \in Worker, ~Busy(w), NewOp, NEW c \in Id, ClashOn(c), NEW j \in Job,
         j.op \in {"delete", "save"}, j.src = c, j.dst = c, j.held = FALSE,
         <<j.op, j.pc>> \in Stage, j.pc \in {"find", "insert"},
         job' = [job EXCEPT ![w] = j], used' = used \cup {c},
         UNCHANGED <<docs, refs, files, queue, torn, mishaps>>
  PROVE  ContentInv'
<1>1. JobOK(j)'
  BY DEF JobOK, Ends
<1>2. /\ clashed \subseteq clashed' /\ clashed' \subseteq used'
      /\ \A p \in Pending : c \in {p.src, p.dst} => c \in clashed' /\ p.dst \in clashed'
      /\ \A p \in Pending : p.src \in clashed' => p.dst \in clashed'
  BY ClashOnOK
<1>3. used \subseteq used' /\ used' \subseteq Id /\ ops' \in 0..MaxOps
  BY ContentAssumption DEF ContentInv, TypeInv, TypeOK, NewOp
<1>4. \A v \in Worker : Busy(v) => job[v] \in Pending
  BY DEF Pending
<1>5. \A m \in queue : m \in Pending
  BY DEF Pending
<1>6. \A v \in Worker \ {w} : Busy(v) =>
         /\ job[v].dst \in {j.src, j.dst} => j.dst \in clashed'
         /\ j.dst \in {job[v].src, job[v].dst} => job[v].dst \in clashed'
         /\ job[v].src \in clashed' => job[v].dst \in clashed'
  BY <1>2, <1>4
<1>7. \A n \in queue' :
         /\ n.dst \in {j.src, j.dst} => j.dst \in clashed'
         /\ j.dst \in {n.src, n.dst} => n.dst \in clashed'
         /\ n.src \in clashed' => n.dst \in clashed'
  BY <1>2, <1>5
<1>8. j.src \in clashed' => j.dst \in clashed'
  OBVIOUS
<1>9. j.op = "copy" => j.pc = "find"
  OBVIOUS
<1>10. queue' \subseteq queue
  OBVIOUS
<1> QED  BY <1>1, <1>2, <1>3, <1>6, <1>7, <1>8, <1>9, <1>10, NewJob

LEMMA RequestDeleteKeeps == ASSUME ContentInv, NEW w \in Worker, RequestDelete(w) PROVE ContentInv'
<1>1. PICK c \in used : ClashOn(c) /\ job' = [job EXCEPT ![w] = Start("delete", TRUE, c, c, "find", {})]
  BY DEF RequestDelete
<1>2. /\ ~Busy(w) /\ NewOp /\ c \in Id /\ used' = used \cup {c}
      /\ UNCHANGED <<docs, refs, files, queue, torn, mishaps>>
  BY DEF RequestDelete, store, ContentInv, TypeInv, TypeOK
<1> DEFINE j == [op |-> "delete", api |-> TRUE, src |-> c, dst |-> c, pc |-> "find",
                 names |-> {}, list |-> {}, doc |-> FALSE, held |-> ~TRUE]
<1>3. j \in Job /\ j.op = "delete" /\ j.src = c /\ j.dst = c /\ j.pc = "find" /\ j.held = FALSE
  BY <1>2 DEF Job, Steps
<1>3a. job' = [job EXCEPT ![w] = j]
  BY <1>1 DEF Start
<1> HIDE DEF j
<1>4. <<j.op, j.pc>> \in Stage
  BY <1>3 DEF Stage
<1> QED  BY <1>1, <1>2, <1>3, <1>3a, <1>4, RequestKeeps

LEMMA RequestSaveKeeps == ASSUME ContentInv, NEW w \in Worker, RequestSave(w) PROVE ContentInv'
<1>1. PICK c \in Id, N \in SUBSET File :
        /\ ClashOn(c) /\ used' = used \cup {c}
        /\ job' = [job EXCEPT ![w] =
                     Start("save", TRUE, c, c, IF c \in used THEN "find" ELSE "insert", N)]
  BY DEF RequestSave
<1>2. ~Busy(w) /\ NewOp /\ UNCHANGED <<docs, refs, files, queue, torn, mishaps>>
  BY DEF RequestSave, store
<1>3. PICK p \in {"find", "insert"} : p = IF c \in used THEN "find" ELSE "insert"
  OBVIOUS
<1> DEFINE j == [op |-> "save", api |-> TRUE, src |-> c, dst |-> c, pc |-> p,
                 names |-> N, list |-> {}, doc |-> FALSE, held |-> ~TRUE]
<1>4. j \in Job /\ j.op = "save" /\ j.src = c /\ j.dst = c /\ j.pc = p /\ j.held = FALSE
  BY <1>1, <1>3 DEF Job, Steps
<1>5. <<j.op, j.pc>> \in Stage
  BY <1>3, <1>4 DEF Stage
<1>6. job' = [job EXCEPT ![w] = j]
  BY <1>1, <1>3 DEF Start
<1> HIDE DEF j
<1> QED  BY <1>1, <1>2, <1>4, <1>5, <1>6, RequestKeeps

\* An operation that stops where nothing is half done leaves its content whole.
LEMMA NotHalfway ==
  ASSUME ContentInv, NEW w \in Worker, Busy(w), ~Halfway(w), job[w].dst \notin torn \cup clashed
  PROVE  Whole(job[w].dst)
<1> PICK x : x = job[w]
  OBVIOUS
<1>1. x \in Job /\ x # NoJob /\ JobOK(x) /\ Phase(x)
  BY DEF ContentInv, TypeInv, PhaseInv, JobOK, Busy, NoJob
<1>2. <<x.op, x.pc>> \in Stage
  BY <1>1 DEF JobOK
<1>3. CASE x.pc \in {"find", "insert", "write"}
  BY <1>1, <1>3 DEF Phase
<1>4. CASE x.op = "copy" /\ x.pc \notin {"find", "insert"}
  <2>1. x.pc = "cp" /\ x.list = {}
    BY <1>2, <1>4 DEF Stage, Halfway, At
  <2> QED  BY <1>1, <2>1 DEF Phase, Whole
<1>5. CASE x.op = "delete" /\ x.pc # "find"
  <2>1. x.pc = "list" \/ (x.pc = "rm" /\ x.list = {} /\ ~x.doc)
    BY <1>2, <1>5 DEF Stage, Halfway, At
  <2> QED  BY <1>1, <1>5, <2>1 DEF Phase, Whole
<1>6. CASE x.op = "save" /\ x.pc \notin {"find", "insert", "write"}
  <2>1. x.pc = "prune" \/ (x.pc = "add" /\ x.list = {})
    BY <1>1, <1>2, <1>6 DEF Stage, Halfway, JobOK
  <2> QED  BY <1>1, <2>1 DEF Phase, Whole
<1> QED  BY <1>1, <1>3, <1>4, <1>5, <1>6 DEF Job

LEMMA RestartKeeps ==
  ASSUME ContentInv, NEW process \in {"amqp", "api"}, Restart(process)
  PROVE  ContentInv'
<1>1. PICK L : /\ L = {w \in Worker : Busy(w) /\ job[w].api = (process = "api")}
               /\ job' = [w \in Worker |-> IF w \in L THEN NoJob ELSE job[w]]
               /\ queue' = queue \cup {[op |-> job[w].op, src |-> job[w].src, dst |-> job[w].dst] :
                                         w \in {v \in L : job[v].held}}
               /\ torn' = torn \cup {job[w].dst : w \in {v \in L : Halfway(v)}}
  BY DEF Restart
<1>2. UNCHANGED <<docs, refs, files, used, clashed, ops>> /\ mishaps' \in 0..MaxMishaps
  BY FaultOK DEF Restart, store
<1>3. L \subseteq Worker /\ \A w \in L : Busy(w)
  BY <1>1
<1>4. \A v \in Worker : /\ v \notin L => job'[v] = job[v]
                        /\ v \in L => job'[v] = NoJob /\ ~Busy(v)'
  BY <1>1 DEF Busy, NoJob
<1>5. ASSUME NEW n \in queue' \ queue
      PROVE  \E w \in L : n \in Message /\ Ends(n) /\ n.src = job[w].src /\ n.dst = job[w].dst
                          /\ n.op = job[w].op
  <2>1. PICK w \in L : job[w].held /\ n = [op |-> job[w].op, src |-> job[w].src, dst |-> job[w].dst]
    BY <1>1
  <2> PICK x : x = job[w]
    OBVIOUS
  <2>2. x \in Job /\ x # NoJob /\ JobOK(x)
    BY <1>3 DEF ContentInv, TypeInv, JobOK, Busy, NoJob
  <2>3. x.op \in {"copy", "delete"} /\ x.src \in Id /\ x.dst \in Id /\ Ends(x)
    BY <2>1, <2>2 DEF JobOK, Job
  <2>4. n.op = x.op /\ n.src = x.src /\ n.dst = x.dst /\ n \in [op : {"copy", "delete"}, src : Id, dst : Id]
    BY <2>1, <2>3
  <2>5. Ends(n) /\ (n.op = "delete" => n.src = n.dst)
    BY <2>3, <2>4 DEF Ends
  <2> QED  BY <2>4, <2>5 DEF Message
<1>6. TypeInv'
  <2>1. queue' \subseteq Message
    BY <1>5 DEF ContentInv, TypeInv, TypeOK
  <2>2. torn' \subseteq used
    <3>1. ASSUME NEW w \in L PROVE job[w].dst \in used
      <4>1. Busy(w) /\ JobOK(job[w])
        BY <1>3 DEF ContentInv, TypeInv
      <4> QED  BY <4>1 DEF JobOK, Ends, Busy, NoJob
    <3> QED  BY <1>1, <3>1 DEF ContentInv, TypeInv, TypeOK
  <2>3. job' \in [Worker -> Job \cup {NoJob}]
    BY <1>1 DEF ContentInv, TypeInv, TypeOK
  <2>4. TypeOK'
    BY <1>2, <2>1, <2>2, <2>3 DEF ContentInv, TypeInv, TypeOK
  <2>5. ASSUME NEW v \in Worker PROVE JobOK(job[v])'
    BY <1>2, <1>4 DEF ContentInv, TypeInv, JobOK, Ends
  <2>6. \A n \in queue' : Ends(n)'
    BY <1>2, <1>5 DEF ContentInv, TypeInv, Ends
  <2> QED  BY <2>4, <2>5, <2>6 DEF TypeInv
<1>7. ClashInv'
  <2>1. \A v \in Worker : Busy(v)' => v \notin L /\ Busy(v) /\ job'[v] = job[v]
    BY <1>4 DEF Busy
  <2>2. ASSUME NEW u \in Worker, NEW v \in Worker, u # v, Busy(u)', Busy(v)'
        PROVE  Apart(job[u], job[v])'
    BY <1>2, <2>1, <2>2 DEF ContentInv, ClashInv, Apart
  <2>3. ASSUME NEW v \in Worker, NEW m \in queue', Busy(v)'
        PROVE  Apart(job[v], m)' /\ Apart(m, job[v])'
    <3>1. CASE m \in queue
      BY <1>2, <2>1, <2>3, <3>1 DEF ContentInv, ClashInv, Apart
    <3>2. CASE m \notin queue
      <4>1. PICK w \in L : m.src = job[w].src /\ m.dst = job[w].dst
        BY <1>5, <3>2
      <4>2. Apart(job[v], job[w]) /\ Apart(job[w], job[v])
        BY <1>3, <2>1, <2>3, <4>1 DEF ContentInv, ClashInv
      <4> QED  BY <1>2, <2>1, <2>3, <4>1, <4>2 DEF Apart
    <3> QED  BY <3>1, <3>2
  <2>4. ASSUME NEW m \in queue', NEW n \in queue', m # n
        PROVE  Apart(m, n)'
    <3>1. CASE m \in queue /\ n \in queue
      BY <1>2, <2>4, <3>1 DEF ContentInv, ClashInv, Apart
    <3>2. CASE m \notin queue /\ n \in queue
      <4>1. PICK w \in L : m.src = job[w].src /\ m.dst = job[w].dst
        BY <1>5, <3>2
      <4> QED  BY <1>2, <1>3, <3>2, <4>1 DEF ContentInv, ClashInv, Apart
    <3>3. CASE m \in queue /\ n \notin queue
      <4>1. PICK w \in L : n.src = job[w].src /\ n.dst = job[w].dst
        BY <1>5, <3>3
      <4> QED  BY <1>2, <1>3, <3>3, <4>1 DEF ContentInv, ClashInv, Apart
    <3>4. CASE m \notin queue /\ n \notin queue
      <4>1. PICK u \in L : m = [op |-> job[u].op, src |-> job[u].src, dst |-> job[u].dst]
        BY <1>1, <3>4
      <4>2. PICK v \in L : n = [op |-> job[v].op, src |-> job[v].src, dst |-> job[v].dst]
        BY <1>1, <3>4
      <4>3. Apart(job[u], job[v])
        BY <1>3, <2>4, <4>1, <4>2 DEF ContentInv, ClashInv
      <4> QED  BY <1>2, <4>1, <4>2, <4>3 DEF Apart
    <3> QED  BY <3>1, <3>2, <3>3, <3>4
  <2>5. ASSUME NEW v \in Worker, job'[v].src \in clashed'
        PROVE  job'[v].dst \in clashed'
    <3>1. CASE v \in L
      <4>1. NoJob.src \notin clashed
        BY ContentAssumption DEF NoJob, ContentInv, TypeInv, TypeOK
      <4> QED  BY <1>2, <1>4, <2>5, <3>1, <4>1
    <3>2. CASE v \notin L
      BY <1>2, <1>4, <2>5, <3>2 DEF ContentInv, ClashInv
    <3> QED  BY <3>1, <3>2
  <2>6. ASSUME NEW m \in queue', m.src \in clashed'
        PROVE  m.dst \in clashed'
    <3>1. CASE m \in queue
      BY <1>2, <2>6, <3>1 DEF ContentInv, ClashInv
    <3>2. CASE m \notin queue
      BY <1>2, <1>3, <1>5, <2>6, <3>2 DEF ContentInv, ClashInv
    <3> QED  BY <3>1, <3>2
  <2> QED  BY <2>2, <2>3, <2>4, <2>5, <2>6 DEF ClashInv
<1>8. WholeAtRest'
  <2> SUFFICES ASSUME NEW c \in Id \ (torn' \cup clashed'), \A v \in Worker : job'[v].dst # c
               PROVE  Whole(c)'
    BY DEF WholeAtRest
  <2>1. CASE \E w \in L : job[w].dst = c
    <3>1. PICK w \in L : job[w].dst = c
      BY <2>1
    <3>2. c \notin torn \cup clashed /\ ~Halfway(w)
      BY <1>1, <1>2, <3>1
    <3>3. Whole(c)
      BY <1>3, <3>1, <3>2, NotHalfway
    <3> QED  BY <1>2, <3>3 DEF Whole
  <2>2. CASE \A w \in L : job[w].dst # c
    <3>1. Whole(c)
      BY <1>1, <1>2, <1>4, <2>2 DEF ContentInv, WholeAtRest
    <3> QED  BY <1>2, <3>1 DEF Whole
  <2> QED  BY <2>1, <2>2
<1>9. PhaseInv'
  <2> SUFFICES ASSUME NEW v \in Worker, Busy(v)', job'[v].dst \notin torn' \cup clashed'
               PROVE  Phase(job[v])'
    BY DEF PhaseInv
  <2>1. job'[v] = job[v] /\ Busy(v)
    BY <1>4 DEF Busy
  <2>2. Phase(job[v])
    BY <1>1, <1>2, <2>1 DEF ContentInv, PhaseInv
  <2> QED  BY <1>2, <2>1, <2>2 DEF Phase, Whole
<1> QED  BY <1>6, <1>7, <1>8, <1>9 DEF ContentInv

(***************************************************************************)
(* The theorems.                                                           *)
(***************************************************************************)
LEMMA InitContent == Init => ContentInv
<1> SUFFICES ASSUME Init PROVE ContentInv
  OBVIOUS
<1>1. /\ \A w \in Worker : job[w] = NoJob
      /\ queue = {} /\ torn = {} /\ clashed = {} /\ files = refs /\ used = docs
      /\ docs \subseteq Id /\ refs \in [Id -> SUBSET File] /\ \A c \in Id \ docs : refs[c] = {}
      /\ job \in [Worker -> Job \cup {NoJob}] /\ ops = 0 /\ mishaps = 0
  BY DEF Init
<1>2. \A w \in Worker : ~Busy(w)
  BY <1>1 DEF Busy, NoJob
<1>3. TypeInv
  BY <1>1, ContentAssumption DEF TypeInv, TypeOK, JobOK
<1>4. ClashInv
  BY <1>1, <1>2 DEF ClashInv
<1>5. WholeAtRest
  BY <1>1 DEF WholeAtRest, Whole
<1>6. PhaseInv
  BY <1>2 DEF PhaseInv
<1> QED  BY <1>3, <1>4, <1>5, <1>6 DEF ContentInv

LEMMA NextContent == ContentInv /\ [Next]_vars => ContentInv'
<1> SUFFICES ASSUME ContentInv, [Next]_vars PROVE ContentInv'
  OBVIOUS
<1>1. CASE SendCopy \/ SendDelete
  BY <1>1, SendKeeps
<1>2. ASSUME NEW w \in Worker, Take(w) PROVE ContentInv'
  BY <1>2, TakeKeeps
<1>3. ASSUME NEW w \in Worker, RequestDelete(w) \/ RequestSave(w) PROVE ContentInv'
  BY <1>3, RequestDeleteKeeps, RequestSaveKeeps
<1>4. ASSUME NEW w \in Worker, Call(w) PROVE ContentInv'
  BY <1>4, CallKeeps
<1>5. ASSUME NEW process \in {"amqp", "api"}, Restart(process) PROVE ContentInv'
  BY <1>5, RestartKeeps
<1>6. CASE UNCHANGED vars
  <2>1. TypeInv'
    BY <1>6 DEF vars, ContentInv, TypeInv, TypeOK, JobOK, Ends
  <2>2. ClashInv'
    BY <1>6 DEF vars, ContentInv, ClashInv, Apart, Busy
  <2>3. WholeAtRest' /\ PhaseInv'
    BY <1>6 DEF vars, ContentInv, WholeAtRest, PhaseInv, Phase, Whole, Busy
  <2> QED  BY <2>1, <2>2, <2>3 DEF ContentInv
<1> QED  BY <1>1, <1>2, <1>3, <1>4, <1>5, <1>6 DEF Next

\* The state stays within its types: documents and torn or given-up contents are
\* among the ids handed out, and jobs and messages are ones the program makes.
THEOREM ContentTypeCorrect == Spec => []TypeOK
<1>1. ContentInv => TypeOK
  BY DEF ContentInv, TypeInv
<1> QED  BY <1>1, InitContent, NextContent, PTL DEF Spec

\* Whatever operations interleave, calls fail and processes are restarted: a
\* content that no operation is changing, that no failure tore and whose users
\* did not get into each other's way has all the files its document refers to,
\* and no files without a document.
THEOREM ContentsWholeAtRest == Spec => []WholeAtRest
<1>1. ContentInv => WholeAtRest
  BY DEF ContentInv
<1> QED  BY <1>1, InitContent, NextContent, PTL DEF Spec

(***************************************************************************)
(* What AllHandled rests on.  Whatever is left to do shrinks with every    *)
(* step: faults, then requests, then messages, then the calls of the       *)
(* operations under way.                                                   *)
(***************************************************************************)
\* How far an operation is from its end, and whether it has something more to do with
\* the files that are left than handling them.
Level(j) ==
  CASE j.pc = "find"                  -> 4
    [] j.pc \in {"insert", "write"}   -> 3
    [] j.pc \in {"list", "add", "put"} -> 2
    [] OTHER                          -> 1

Turn(j) == IF j.pc = "add" \/ (j.pc = "rm" /\ j.doc) THEN 1 ELSE 0

\* What an operation may still come through: a level, the files left and a turn.
Token == (1..4) \X ((SUBSET File) \X (0..1))

\* The operation j may still come through the token t.
Ahead(t, j) ==
  \/ t[1] < Level(j)
  \/ t[1] = Level(j) /\ t[2][1] \subseteq j.list /\ t[2][1] # j.list
  \/ t[1] = Level(j) /\ t[2][1] = j.list /\ t[2][2] <= Turn(j)

\* What all workers may still come through.
Pool == {p \in Worker \X Token : Busy(p[1]) /\ Ahead(p[2], job[p[1]])}

\* What is left to do: faults and restarts, requests, messages and calls.
Toil == <<MaxMishaps - mishaps, <<MaxOps - ops, <<queue, Pool>>>>>>

\* Numbers are ordered by size, finite sets by inclusion.
Below == {ss \in Nat \X Nat : ss[1] < ss[2]}

Hands == FiniteSubsetsOf(Message) \X FiniteSubsetsOf(Worker \X Token)
Dues  == Nat \X Hands
Toils == Nat \X Dues

HandOrder == LexPairOrdering(StrictSubsetOrdering(Message), StrictSubsetOrdering(Worker \X Token),
                             FiniteSubsetsOf(Message), FiniteSubsetsOf(Worker \X Token))
DueOrder  == LexPairOrdering(Below, HandOrder, Nat, Hands)
ToilOrder == LexPairOrdering(Below, DueOrder, Nat, Dues)

ToilCounts == Toil \in Toils

LessToDo == <<Toil', Toil>> \in ToilOrder

QueueFinite == IsFiniteSet(queue)

LEMMA ToilOrderWellFounded == IsWellFoundedOn(ToilOrder, Toils)
<1>1. OpToRel(<, Nat) = Below
  BY DEF OpToRel, Below
<1>2. IsWellFoundedOn(Below, Nat)
  BY <1>1, NatLessThanWellFounded
<1>3. IsWellFoundedOn(HandOrder, Hands)
  BY WFLexPairOrdering, FS_StrictSubsetOrderingWellFounded, Zenon DEF HandOrder, Hands
<1>4. IsWellFoundedOn(DueOrder, Dues)
  BY <1>2, <1>3, WFLexPairOrdering, Zenon DEF DueOrder, Dues
<1> QED  BY <1>2, <1>4, WFLexPairOrdering, Zenon DEF ToilOrder, Toils

\* The order, spelled out.
LEMMA LessToil ==
  ASSUME NEW a \in Nat, NEW b \in Nat, NEW i \in Nat, NEW k \in Nat,
         NEW Q \in FiniteSubsetsOf(Message), NEW R \in FiniteSubsetsOf(Message),
         NEW P \in FiniteSubsetsOf(Worker \X Token), NEW O \in FiniteSubsetsOf(Worker \X Token),
         \/ a < b
         \/ a = b /\ i < k
         \/ a = b /\ i = k /\ Q \subseteq R /\ Q # R
         \/ a = b /\ i = k /\ Q = R /\ P \subseteq O /\ P # O
  PROVE  <<<<a, <<i, <<Q, P>>>>>>, <<b, <<k, <<R, O>>>>>>>> \in ToilOrder
<1>1. Q \in SUBSET Message /\ R \in SUBSET Message
      /\ P \in SUBSET (Worker \X Token) /\ O \in SUBSET (Worker \X Token)
  BY DEF FiniteSubsetsOf
<1>2. Q \subseteq R /\ Q # R => <<Q, R>> \in StrictSubsetOrdering(Message)
  BY <1>1 DEF StrictSubsetOrdering
<1>3. P \subseteq O /\ P # O => <<P, O>> \in StrictSubsetOrdering(Worker \X Token)
  BY <1>1 DEF StrictSubsetOrdering
<1>4. (a < b => <<a, b>> \in Below) /\ (i < k => <<i, k>> \in Below)
  BY DEF Below
<1>5. <<Q, P>> \in Hands /\ <<R, O>> \in Hands
  BY DEF Hands
<1>6. \/ a < b
      \/ a = b /\ i < k
      \/ a = b /\ i = k /\ <<<<Q, P>>, <<R, O>>>> \in HandOrder
  <2>1. (Q \subseteq R /\ Q # R) \/ (Q = R /\ P \subseteq O /\ P # O)
          => <<<<Q, P>>, <<R, O>>>> \in HandOrder
    BY <1>2, <1>3, <1>5 DEF HandOrder, Hands, LexPairOrdering
  <2> QED  BY <2>1
<1>7. <<i, <<Q, P>>>> \in Dues /\ <<k, <<R, O>>>> \in Dues
  BY <1>5 DEF Dues
<1>8. a < b \/ (a = b /\ <<<<i, <<Q, P>>>>, <<k, <<R, O>>>>>> \in DueOrder)
  BY <1>4, <1>5, <1>6, <1>7 DEF DueOrder, Dues, LexPairOrdering
<1> QED  BY <1>4, <1>7, <1>8 DEF ToilOrder, LexPairOrdering

\* There is only so much a worker may come through.
LEMMA TokenFinite ==
  ASSUME IsFiniteSet(File), IsFiniteSet(Worker)
  PROVE  IsFiniteSet(Worker \X Token)
<1>1. IsFiniteSet(1..4) /\ IsFiniteSet(0..1)
  <2>1. 0 \in Int /\ 1 \in Int /\ 4 \in Int
    OBVIOUS
  <2> QED  BY ONLY <2>1, FS_Interval, Zenon
<1>2. IsFiniteSet(SUBSET File)
  BY FS_SUBSET
<1>3. IsFiniteSet((SUBSET File) \X (0..1))
  BY <1>1, <1>2, FS_Product
<1>4. IsFiniteSet(Token)
  BY <1>1, <1>3, FS_Product DEF Token
<1> QED  BY <1>4, FS_Product

\* The messages that wait are finitely many.
LEMMA NextQueue ==
  ASSUME IsFiniteSet(Worker), QueueFinite, [Next]_vars
  PROVE  QueueFinite'
<1>1. CASE SendCopy \/ SendDelete
  <2>1. PICK m : queue' = queue \cup {m}
    BY <1>1 DEF SendCopy, SendDelete
  <2> QED  BY <2>1, FS_AddElement DEF QueueFinite
<1>2. ASSUME NEW w \in Worker, Take(w)
      PROVE  QueueFinite'
  <2>1. PICK m : queue' = queue \ {m}
    BY <1>2 DEF Take
  <2> QED  BY <2>1, FS_RemoveElement DEF QueueFinite
<1>3. ASSUME NEW w \in Worker, RequestDelete(w) \/ RequestSave(w)
      PROVE  QueueFinite'
  BY <1>3 DEF RequestDelete, RequestSave, QueueFinite
<1>4. ASSUME NEW w \in Worker, Call(w)
      PROVE  QueueFinite'
  BY <1>4 DEF Call, QueueFinite, Find, Insert, Write, AddFile, PutFile, Added, Prune, Saved, List,
              Undo, CopyFile, Copied, RemoveDoc, RemoveFile, Removed
<1>5. ASSUME NEW process, Restart(process)
      PROVE  QueueFinite'
  <2>1. PICK S \in SUBSET Worker :
          queue' = queue \cup {[op |-> job[w].op, src |-> job[w].src, dst |-> job[w].dst] : w \in S}
    <3> DEFINE S == {v \in {w \in Worker : Busy(w) /\ job[w].api = (process = "api")} : job[v].held}
    <3>1. S \in SUBSET Worker
      OBVIOUS
    <3> QED  BY <1>5, <3>1 DEF Restart
  <2> DEFINE f == [w \in S |-> [op |-> job[w].op, src |-> job[w].src, dst |-> job[w].dst]]
  <2>2. PICK T : T = {f[w] : w \in S}
    OBVIOUS
  <2>3. IsFiniteSet(S)
    BY FS_Subset
  <2>4. IsFiniteSet(T)
    <3>1. f \in Surjection(S, T)
      BY <2>2 DEF Surjection
    <3> HIDE DEF f
    <3> QED  BY <2>3, <3>1, FS_Surjection
  <2>5. queue' = queue \cup T
    BY <2>1, <2>2
  <2> QED  BY <2>4, <2>5, FS_Union DEF QueueFinite
<1>6. CASE UNCHANGED vars
  BY <1>6 DEF vars, QueueFinite
<1> QED  BY <1>1, <1>2, <1>3, <1>4, <1>5, <1>6 DEF Next

\* What is left to do is of the form that is ordered.
LEMMA ToilParts ==
  ASSUME IsFiniteSet(File), IsFiniteSet(Worker), TypeInv, QueueFinite
  PROVE  /\ MaxMishaps - mishaps \in Nat /\ MaxOps - ops \in Nat
         /\ queue \in FiniteSubsetsOf(Message)
         /\ Pool \in FiniteSubsetsOf(Worker \X Token)
<1>1. MaxMishaps - mishaps \in Nat /\ MaxOps - ops \in Nat
  BY ContentAssumption DEF TypeInv, TypeOK
<1>2. queue \in FiniteSubsetsOf(Message)
  BY DEF TypeInv, TypeOK, QueueFinite, FiniteSubsetsOf
<1>3. Pool \in SUBSET (Worker \X Token)
  BY DEF Pool
<1>4. IsFiniteSet(Pool)
  BY <1>3, TokenFinite, FS_Subset
<1> QED  BY <1>1, <1>2, <1>3, <1>4 DEF FiniteSubsetsOf

\* The operation y is nearer to its end than x.
Lower(y, x) ==
  \/ y = NoJob
  \/ Level(y) < Level(x)
  \/ Level(y) = Level(x) /\ y.list \subseteq x.list /\ y.list # x.list
  \/ Level(y) = Level(x) /\ y.list = x.list /\ Turn(y) < Turn(x)

\* A call brings its operation nearer to its end, unless a fault is spent on it.
LEMMA CallLowers ==
  ASSUME TypeInv, NEW w \in Worker, Call(w)
  PROVE  /\ mishaps' = mishaps + 1 \/ (mishaps' = mishaps /\ Lower(job'[w], job[w]))
         /\ UNCHANGED <<queue, ops>> /\ \A v \in Worker \ {w} : job'[v] = job[v]
<1>1. job[w].pc \in Steps
  BY DEF Call, At, Steps, Find, Insert, Write, AddFile, PutFile, Added, Prune, Saved, List, Undo, CopyFile,
         Copied, RemoveDoc, RemoveFile, Removed
<1> PICK x \in Job : x = job[w]
  BY <1>1 DEF TypeInv, TypeOK, NoJob, Steps
<1> PICK y : y = job'[w]
  OBVIOUS
<1>2. /\ Finish(w) => y = NoJob
      /\ \A p : Goto(w, p) => y = [x EXCEPT !.pc = p]
      /\ \A p, L : GotoWith(w, p, L) => y = [x EXCEPT !.pc = p, !.list = L]
  BY DEF TypeInv, TypeOK, Finish, Goto, GotoWith
<1>3. /\ \A p : Goto(w, p) => y.pc = p /\ y.list = x.list /\ y.doc = x.doc
      /\ \A p, L : GotoWith(w, p, L) => y.pc = p /\ y.list = L /\ y.doc = x.doc
  <2>1. ASSUME NEW p, Goto(w, p)
        PROVE  y.pc = p /\ y.list = x.list /\ y.doc = x.doc
    <3>1. y = [x EXCEPT !.pc = p]
      BY <1>2, <2>1
    <3> QED  BY <3>1 DEF Job
  <2>2. ASSUME NEW p, NEW L, GotoWith(w, p, L)
        PROVE  y.pc = p /\ y.list = L /\ y.doc = x.doc
    <3>1. y = [x EXCEPT !.pc = p, !.list = L]
      BY <1>2, <2>2
    <3> QED  BY <3>1 DEF Job
  <2> QED  BY <2>1, <2>2
<1>4. ASSUME \E z : job' = [job EXCEPT ![w] = z]
      PROVE  \A v \in Worker \ {w} : job'[v] = job[v]
  BY <1>4 DEF TypeInv, TypeOK
<1>o. (\E p : Goto(w, p)) \/ (\E p, L : GotoWith(w, p, L)) \/ Finish(w)
        => \A v \in Worker \ {w} : job'[v] = job[v]
  BY <1>4 DEF Goto, GotoWith, Finish
<1>f. \A k : Fault(k) => mishaps' = mishaps + 1
  BY DEF Fault
<1> DEFINE Goal == /\ mishaps' = mishaps + 1 \/ (mishaps' = mishaps /\ Lower(y, x))
                   /\ UNCHANGED <<queue, ops>> /\ \A v \in Worker \ {w} : job'[v] = job[v]
<1>5. CASE Find(w)
  <2>1. UNCHANGED <<queue, ops>> /\ x.pc = "find"
    BY <1>5 DEF Find, At
  <2>2. CASE Finish(w)
    BY <1>2, <1>f, <1>o, <1>5, <2>1, <2>2 DEF Find, Lower
  <2>3. CASE Goto(w, "list") \/ Goto(w, "write")
    <3>1. y.pc \in {"list", "write"}
      BY <1>3, <2>3
    <3>2. Level(y) < Level(x)
      BY <2>1, <3>1 DEF Level
    <3>3. mishaps' = mishaps \/ mishaps' = mishaps + 1
      BY <1>5, <1>f DEF Find
    <3> QED  BY <1>o, <2>1, <2>3, <3>2, <3>3 DEF Lower
  <2>4. ASSUME job' = [job EXCEPT ![w].pc = "insert", ![w].names = refs[x.src]], UNCHANGED mishaps
        PROVE  Goal
    <3>1. y = [x EXCEPT !.pc = "insert", !.names = refs[x.src]]
      BY <2>4 DEF TypeInv, TypeOK
    <3>2. y.pc = "insert"
      BY <3>1 DEF Job
    <3>3. Level(y) < Level(x)
      BY <2>1, <3>2 DEF Level
    <3> QED  BY <1>4, <2>1, <2>4, <3>3 DEF Lower
  <2> QED  BY <1>5, <2>2, <2>3, <2>4 DEF Find, Job
<1>6. CASE Insert(w) \/ Write(w)
  <2>1. UNCHANGED <<queue, ops>> /\ x.pc \in {"insert", "write"}
        /\ (mishaps' = mishaps \/ mishaps' = mishaps + 1)
    BY <1>6, <1>f DEF Insert, Write, At
  <2>2. Finish(w) \/ Goto(w, "list") \/ \E L : GotoWith(w, "add", L)
    BY <1>6 DEF Insert, Write
  <2>3. y = NoJob \/ y.pc \in {"list", "add"}
    BY <1>2, <1>3, <2>2
  <2>4. y = NoJob \/ Level(y) < Level(x)
    BY <2>1, <2>3 DEF Level
  <2> QED  BY <1>o, <2>1, <2>2, <2>4 DEF Lower
<1>7. CASE AddFile(w)
  <2>1. UNCHANGED <<queue, ops>> /\ x.pc = "add" /\ (mishaps' = mishaps \/ mishaps' = mishaps + 1)
    BY <1>7, <1>f DEF AddFile, At
  <2>2. Finish(w) \/ Goto(w, "put")
    BY <1>7 DEF AddFile
  <2>3. y = NoJob \/ (y.pc = "put" /\ y.list = x.list)
    BY <1>2, <1>3, <2>2
  <2>4. y = NoJob \/ (Level(y) = Level(x) /\ y.list = x.list /\ Turn(y) < Turn(x))
    BY <2>1, <2>3 DEF Level, Turn
  <2> QED  BY <1>o, <2>1, <2>2, <2>4 DEF Lower
<1>8. CASE PutFile(w) \/ Prune(w) \/ CopyFile(w)
  <2>1. /\ UNCHANGED <<queue, ops>> /\ (mishaps' = mishaps \/ mishaps' = mishaps + 1)
        /\ x.pc \in {"put", "prune", "cp"}
    BY <1>8, <1>f DEF PutFile, Prune, CopyFile, At
  <2>2. Finish(w) \/ \E f \in x.list : GotoWith(w, IF x.pc = "put" THEN "add" ELSE x.pc, x.list \ {f})
    BY <1>8 DEF PutFile, Prune, CopyFile, At
  <2>3. CASE Finish(w)
    BY <1>2, <1>o, <2>1, <2>3 DEF Lower
  <2>4. ASSUME NEW f \in x.list, GotoWith(w, IF x.pc = "put" THEN "add" ELSE x.pc, x.list \ {f})
        PROVE  Goal
    <3>1. y.pc = (IF x.pc = "put" THEN "add" ELSE x.pc) /\ y.list = x.list \ {f}
      BY <1>3, <2>4
    <3>2. Level(y) = Level(x) /\ y.list \subseteq x.list /\ y.list # x.list
      BY <2>1, <3>1 DEF Level
    <3> QED  BY <1>o, <2>1, <2>4, <3>2 DEF Lower
  <2> QED  BY <2>2, <2>3, <2>4
<1>9. CASE Added(w)
  <2>1. UNCHANGED <<queue, ops, mishaps>> /\ x.pc = "add" /\ \E L : GotoWith(w, "prune", L)
    BY <1>9 DEF Added, At
  <2>2. y.pc = "prune"
    BY <1>3, <2>1
  <2>3. Level(y) < Level(x)
    BY <2>1, <2>2 DEF Level
  <2> QED  BY <1>o, <2>1, <2>3 DEF Lower
<1>10. CASE Saved(w) \/ Undo(w) \/ Copied(w) \/ Removed(w)
  <2>1. UNCHANGED <<queue, ops>> /\ Finish(w) /\ (mishaps' = mishaps \/ mishaps' = mishaps + 1)
    BY <1>10, <1>f DEF Saved, Undo, Copied, Removed
  <2> QED  BY <1>2, <1>o, <2>1 DEF Lower
<1>11. CASE List(w)
  <2>1. UNCHANGED <<queue, ops>> /\ x.pc = "list" /\ (mishaps' = mishaps \/ mishaps' = mishaps + 1)
    BY <1>11, <1>f DEF List, At
  <2>2. \/ Finish(w) \/ Goto(w, "undo") \/ \E L : GotoWith(w, "cp", L)
        \/ job' = [job EXCEPT ![w].pc = "rm", ![w].list = files[x.src], ![w].doc = TRUE]
    BY <1>11 DEF List
  <2>3. CASE job' = [job EXCEPT ![w].pc = "rm", ![w].list = files[x.src], ![w].doc = TRUE]
    <3>1. y = [x EXCEPT !.pc = "rm", !.list = files[x.src], !.doc = TRUE]
      BY <2>3 DEF TypeInv, TypeOK
    <3>2. y.pc = "rm"
      BY <3>1 DEF Job
    <3>3. Level(y) < Level(x)
      BY <2>1, <3>2 DEF Level
    <3> QED  BY <1>4, <2>1, <2>3, <3>3 DEF Lower
  <2>4. CASE Finish(w) \/ Goto(w, "undo") \/ \E L : GotoWith(w, "cp", L)
    <3>1. y = NoJob \/ y.pc \in {"undo", "cp"}
      BY <1>2, <1>3, <2>4
    <3>2. y = NoJob \/ Level(y) < Level(x)
      BY <2>1, <3>1 DEF Level
    <3> QED  BY <1>o, <2>1, <2>4, <3>2 DEF Lower
  <2> QED  BY <2>2, <2>3, <2>4
<1>12. CASE RemoveDoc(w)
  <2>1. /\ UNCHANGED <<queue, ops>> /\ x.pc = "rm" /\ x.doc
        /\ (mishaps' = mishaps \/ mishaps' = mishaps + 1)
    BY <1>12, <1>f DEF RemoveDoc, At
  <2>2. \/ job' = [job EXCEPT ![w].doc = FALSE]
        \/ job' = [job EXCEPT ![w].doc = FALSE, ![w].held = FALSE]
    BY <1>12 DEF RemoveDoc
  <2>3. y = [x EXCEPT !.doc = FALSE] \/ y = [x EXCEPT !.doc = FALSE, !.held = FALSE]
    BY <2>2 DEF TypeInv, TypeOK
  <2>4. y.pc = x.pc /\ y.list = x.list /\ ~y.doc
    BY <2>3 DEF Job
  <2>5. Level(y) = Level(x) /\ Turn(y) < Turn(x)
    BY <2>1, <2>4 DEF Level, Turn
  <2> QED  BY <1>4, <2>1, <2>2, <2>4, <2>5 DEF Lower
<1>13. CASE RemoveFile(w)
  <2>1. /\ UNCHANGED <<queue, ops>> /\ x.pc = "rm" /\ (mishaps' = mishaps \/ mishaps' = mishaps + 1)
    BY <1>13, <1>f DEF RemoveFile, At
  <2>2. PICK f \in x.list :
          \/ GotoWith(w, "rm", x.list \ {f})
          \/ \E thrown \in BOOLEAN : job' = [job EXCEPT ![w].list = @ \ {f}, ![w].held = @ /\ ~thrown]
    BY <1>13 DEF RemoveFile
  <2>3. ASSUME GotoWith(w, "rm", x.list \ {f})
        PROVE  y.pc = x.pc /\ y.list = x.list \ {f}
    BY <1>3, <2>1, <2>3
  <2>4. ASSUME NEW thrown \in BOOLEAN, job' = [job EXCEPT ![w].list = @ \ {f}, ![w].held = @ /\ ~thrown]
        PROVE  y.pc = x.pc /\ y.list = x.list \ {f} /\ \E z : job' = [job EXCEPT ![w] = z]
    <3>1. PICK L, h : L = x.list \ {f} /\ h = (x.held /\ ~thrown)
      OBVIOUS
    <3>2. y = [x EXCEPT !.list = L, !.held = h]
      BY <2>4, <3>1 DEF TypeInv, TypeOK
    <3>3. y.pc = x.pc /\ y.list = L
      BY <3>2 DEF Job
    <3> QED  BY <2>4, <3>1, <3>3
  <2>5. y.pc = x.pc /\ y.list = x.list \ {f} /\ \A v \in Worker \ {w} : job'[v] = job[v]
    BY <1>4, <1>o, <2>2, <2>3, <2>4
  <2>6. Level(y) = Level(x) /\ y.list \subseteq x.list /\ y.list # x.list
    BY <2>1, <2>5 DEF Level
  <2> QED  BY <2>1, <2>5, <2>6 DEF Lower
<1> QED
  BY SMTT(60), <1>5, <1>6, <1>7, <1>8, <1>9, <1>10, <1>11, <1>12, <1>13 DEF Call

\* An operation that is nearer to its end may come through less.
LEMMA LowerMeansLess ==
  ASSUME NEW x \in Job, NEW y \in Job, Lower(y, x), NEW t \in Token, Ahead(t, y)
  PROVE  Ahead(t, x)
<1>1. y # NoJob
  BY DEF Job, NoJob
<1>2. PICK n \in Nat, m \in Nat, i \in Nat, k \in Nat :
        n = Level(y) /\ m = Level(x) /\ i = Turn(y) /\ k = Turn(x)
  BY DEF Level, Turn
<1> PICK S : S = t[2][1]
  OBVIOUS
<1>3. PICK q \in Nat, b \in Nat : q = t[1] /\ b = t[2][2]
  <2>1. t[1] \in Nat /\ t[2][2] \in Nat
    BY DEF Token
  <2> QED  BY <2>1
<1>4. \/ n < m
      \/ n = m /\ y.list \subseteq x.list /\ y.list # x.list
      \/ n = m /\ y.list = x.list /\ i < k
  BY <1>1, <1>2 DEF Lower
<1>5. \/ q < n
      \/ q = n /\ S \subseteq y.list /\ S # y.list
      \/ q = n /\ S = y.list /\ b <= i
  BY <1>2, <1>3 DEF Ahead
<1>6. \/ q < m
      \/ q = m /\ S \subseteq x.list /\ S # x.list
      \/ q = m /\ S = x.list /\ b <= k
  <2>1. CASE n < m
    BY <1>5, <2>1
  <2>2. CASE n = m /\ y.list \subseteq x.list /\ y.list # x.list
    BY <1>5, <2>2
  <2>3. CASE n = m /\ y.list = x.list /\ i < k
    BY <1>5, <2>3
  <2> QED  BY <1>4, <2>1, <2>2, <2>3
<1> QED  BY <1>2, <1>3, <1>6 DEF Ahead

\* Where it was, it does not come again.
LEMMA LowerLeavesOne ==
  ASSUME NEW x \in Job, NEW y \in Job, Lower(y, x)
  PROVE  LET t == <<Level(x), <<x.list, Turn(x)>>>> IN
         t \in Token /\ Ahead(t, x) /\ ~Ahead(t, y)
<1>1. y # NoJob /\ x.list \in SUBSET File
  BY DEF Job, NoJob
<1>2. PICK n \in Nat, m \in 1..4, i \in Nat, k \in 0..1 :
        n = Level(y) /\ m = Level(x) /\ i = Turn(y) /\ k = Turn(x)
  BY DEF Level, Turn
<1>3. PICK t : t = <<m, <<x.list, k>>>>
  OBVIOUS
<1>4. t \in Token /\ t[1] = m /\ t[2][1] = x.list /\ t[2][2] = k
  BY <1>1, <1>3 DEF Token
<1>5. Ahead(t, x)
  BY <1>2, <1>4 DEF Ahead
<1>6. \/ n < m
      \/ n = m /\ y.list \subseteq x.list /\ y.list # x.list
      \/ n = m /\ y.list = x.list /\ i < k
  BY <1>1, <1>2 DEF Lower
<1>7. ~Ahead(t, y)
  <2> DEFINE Later == \/ m < n
                      \/ m = n /\ x.list \subseteq y.list /\ x.list # y.list
                      \/ m = n /\ x.list = y.list /\ k <= i
  <2>1. y.list \subseteq x.list /\ y.list # x.list => ~(x.list \subseteq y.list)
    BY Zenon
  <2>2. ~Later
    BY <1>6, <2>1
  <2>3. Ahead(t, y) => Later
    BY <1>2, <1>4, Zenon DEF Ahead
  <2> QED  BY <2>2, <2>3
<1> QED  BY <1>2, <1>3, <1>4, <1>5, <1>7

\* A call leaves the workers less to come through, unless a fault is spent on it.
LEMMA PoolShrinks ==
  ASSUME TypeInv, TypeInv', NEW w \in Worker, Call(w), mishaps' = mishaps
  PROVE  Pool' \subseteq Pool /\ Pool' # Pool
<1>1. job[w].pc \in Steps
  BY DEF Call, At, Steps, Find, Insert, Write, AddFile, PutFile, Added, Prune, Saved, List, Undo, CopyFile,
         Copied, RemoveDoc, RemoveFile, Removed
<1> PICK x \in Job : x = job[w]
  BY <1>1 DEF TypeInv, TypeOK, NoJob, Steps
<1> PICK y \in Job \cup {NoJob} : y = job'[w]
  BY DEF TypeInv, TypeOK
<1>2. Busy(w) /\ x # NoJob
  BY DEF Busy, Job, NoJob
<1>3. Lower(y, x) /\ \A v \in Worker \ {w} : job'[v] = job[v]
  <2>1. mishaps \in Int
    BY DEF TypeInv, TypeOK
  <2> QED  BY <2>1, CallLowers
<1>4. Busy(w)' <=> y # NoJob
  <2>1. Busy(w)' <=> y.op # "none"
    BY DEF Busy
  <2>2. y \in Job => y.op # "none" /\ y # NoJob
    BY DEF Job, NoJob
  <2>3. NoJob.op = "none"
    BY DEF NoJob
  <2> QED  BY <2>1, <2>2, <2>3
<1>5. ASSUME NEW t \in Token, y # NoJob, Ahead(t, y)
      PROVE  Ahead(t, x)
  BY <1>3, <1>5, LowerMeansLess
<1>6. PICK t \in Token : Ahead(t, x) /\ (y # NoJob => ~Ahead(t, y))
  <2>1. CASE y # NoJob
    BY <1>3, <2>1, LowerLeavesOne
  <2>2. CASE y = NoJob
    <3>1. x \in Job /\ x.list \in SUBSET File /\ Level(x) \in 1..4 /\ Turn(x) \in 0..1
      BY DEF Job, Level, Turn
    <3>2. PICK t : t = <<Level(x), <<x.list, Turn(x)>>>>
      OBVIOUS
    <3>3. t \in Token /\ t[1] = Level(x) /\ t[2][1] = x.list /\ t[2][2] = Turn(x)
      BY <3>1, <3>2 DEF Token
    <3>4. Ahead(t, x)
      BY <3>1, <3>3 DEF Ahead
    <3> QED  BY <2>2, <3>3, <3>4
  <2> QED  BY <2>1, <2>2
<1>7. Pool' = {p \in Worker \X Token : Busy(p[1])' /\ Ahead(p[2], job'[p[1]])}
  BY DEF Pool, Ahead, Level, Turn
<1>8. ASSUME NEW p \in Worker \X Token, Busy(p[1])', Ahead(p[2], job'[p[1]])
      PROVE  Busy(p[1]) /\ Ahead(p[2], job[p[1]])
  <2>1. CASE p[1] = w
    BY <1>2, <1>4, <1>5, <1>8, <2>1
  <2>2. CASE p[1] # w
    <3>1. job'[p[1]] = job[p[1]]
      BY <1>3, <2>2
    <3>2. Busy(p[1])
      BY <1>8, <3>1 DEF Busy
    <3> QED  BY <1>8, <3>1, <3>2
  <2> QED  BY <2>1, <2>2
<1>9. Pool' \subseteq Pool
  BY <1>7, <1>8 DEF Pool
<1>10. <<w, t>> \in Pool
  BY <1>2, <1>6 DEF Pool
<1>11. <<w, t>> \notin Pool'
  BY <1>4, <1>6, <1>7
<1> QED  BY SMTT(60), <1>9, <1>10, <1>11

LEMMA NextShrinks ==
  ASSUME IsFiniteSet(File), IsFiniteSet(Worker), TypeInv, TypeInv', QueueFinite, QueueFinite', Next
  PROVE  LessToDo
<1>1. PICK a \in Nat, b \in Nat, i \in Nat, k \in Nat,
           Q \in FiniteSubsetsOf(Message), R \in FiniteSubsetsOf(Message),
           P \in FiniteSubsetsOf(Worker \X Token), O \in FiniteSubsetsOf(Worker \X Token) :
        /\ a = MaxMishaps - mishaps' /\ b = MaxMishaps - mishaps
        /\ i = MaxOps - ops' /\ k = MaxOps - ops
        /\ Q = queue' /\ R = queue /\ P = Pool' /\ O = Pool
  <2>1. /\ MaxMishaps - mishaps' \in Nat /\ MaxOps - ops' \in Nat
        /\ queue' \in FiniteSubsetsOf(Message) /\ Pool' \in FiniteSubsetsOf(Worker \X Token)
    <3>a. PICK s \in 0..MaxMishaps, o \in 0..MaxOps : s = mishaps' /\ o = ops'
      BY DEF TypeInv, TypeOK
    <3>b. MaxMishaps - s \in Nat /\ MaxOps - o \in Nat
      BY ContentAssumption
    <3>1. MaxMishaps - mishaps' \in Nat /\ MaxOps - ops' \in Nat
      BY <3>a, <3>b
    <3>2. queue' \in FiniteSubsetsOf(Message)
      BY DEF TypeInv, TypeOK, QueueFinite, FiniteSubsetsOf
    <3>3. Pool' \in SUBSET (Worker \X Token)
      BY DEF Pool
    <3>4. IsFiniteSet(Pool')
      BY <3>3, TokenFinite, FS_Subset
    <3> QED  BY <3>1, <3>2, <3>3, <3>4 DEF FiniteSubsetsOf
  <2> QED  BY <2>1, ToilParts
<1>2. Toil' = <<a, <<i, <<Q, P>>>>>> /\ Toil = <<b, <<k, <<R, O>>>>>>
  BY <1>1 DEF Toil
<1> SUFFICES \/ a < b
             \/ a = b /\ i < k
             \/ a = b /\ i = k /\ Q \subseteq R /\ Q # R
             \/ a = b /\ i = k /\ Q = R /\ P \subseteq O /\ P # O
  BY ZenonT(60), <1>2, LessToil DEF LessToDo
<1>3. /\ mishaps \in Nat /\ ops \in Nat /\ mishaps' \in Nat /\ ops' \in Nat
      /\ MaxMishaps \in Nat /\ MaxOps \in Nat
  BY ContentAssumption DEF TypeInv, TypeOK
<1>4. ASSUME UNCHANGED mishaps, ops' = ops + 1
      PROVE  a = b /\ i < k
  BY <1>1, <1>3, <1>4
<1>5. ASSUME mishaps' = mishaps + 1
      PROVE  a < b
  BY <1>1, <1>3, <1>5
<1>6. CASE SendCopy \/ SendDelete
  BY <1>4, <1>6 DEF SendCopy, SendDelete, NewOp
<1>7. ASSUME NEW w \in Worker, RequestDelete(w) \/ RequestSave(w)
      PROVE  a = b /\ i < k
  BY <1>4, <1>7 DEF RequestDelete, RequestSave, NewOp
<1>8. ASSUME NEW w \in Worker, Take(w)
      PROVE  a = b /\ i = k /\ Q \subseteq R /\ Q # R
  <2>1. UNCHANGED <<mishaps, ops>> /\ \E m \in queue : queue' = queue \ {m}
    BY <1>8 DEF Take
  <2> QED  BY <1>1, <2>1
<1>9. ASSUME NEW w \in Worker, Call(w)
      PROVE  a < b \/ (a = b /\ i = k /\ Q = R /\ P \subseteq O /\ P # O)
  <2>1. UNCHANGED <<queue, ops>> /\ (mishaps' = mishaps + 1 \/ mishaps' = mishaps)
    BY <1>9, CallLowers
  <2>2. CASE mishaps' = mishaps + 1
    BY <1>5, <2>2
  <2>3. CASE mishaps' = mishaps
    BY <1>1, <1>9, <2>1, <2>3, PoolShrinks
  <2> QED  BY <2>1, <2>2, <2>3
<1>10. ASSUME NEW process, Restart(process)
       PROVE  a < b
  BY <1>5, <1>10 DEF Restart, Fault
<1> QED  BY <1>6, <1>7, <1>8, <1>9, <1>10 DEF Next

(***************************************************************************)
(* What is left to do decreases in a well-founded order with every step:   *)
(* an error, a restart or an interleaving may bring a message back, but    *)
(* only at the price of a fault or a request, so that no message comes     *)
(* back for ever and no operation goes round.  (AllHandled adds that calls *)
(* return and that free workers take what waits.)                          *)
(***************************************************************************)
THEOREM WorkRunsOut ==
  ASSUME IsFiniteSet(File), IsFiniteSet(Worker)
  PROVE  /\ IsWellFoundedOn(ToilOrder, Toils)
         /\ Spec => []ToilCounts
         /\ Spec => [][LessToDo]_vars
<1>1. Init => ContentInv /\ QueueFinite
  <2>1. Init => QueueFinite
    BY FS_EmptySet DEF Init, QueueFinite
  <2> QED  BY <2>1, InitContent
<1>2. ContentInv /\ QueueFinite /\ [Next]_vars => (ContentInv /\ QueueFinite)'
  BY NextContent, NextQueue
<1>3. ContentInv /\ QueueFinite => ToilCounts
  BY ToilParts DEF ContentInv, ToilCounts, Toil, Toils, Dues, Hands
<1>4. ContentInv /\ QueueFinite /\ ContentInv' /\ QueueFinite' /\ [Next]_vars => [LessToDo]_vars
  BY NextShrinks DEF ContentInv
<1> QED  BY <1>1, <1>2, <1>3, <1>4, ToilOrderWellFounded, PTL DEF Spec
================================================================================
