---------------------------- MODULE ContentLifecycle ----------------------------
(***************************************************************************)
(* H5P contents: a document in MongoDB and files in S3 per content, changed *)
(* by requests to the editor and by the delete-content and copy-content     *)
(* messages the consumer takes from RabbitMQ.                               *)
(*                                                                          *)
(* Every operation is a sequence of remote calls; a worker is one operation *)
(* under way in the editor (api) or in the consumer.  Operations interleave *)
(* between any two calls, calls fail, and each process can be restarted, in *)
(* which case RabbitMQ delivers what the consumer had not acknowledged.     *)
(***************************************************************************)
EXTENDS Integers, FiniteSets

CONSTANTS
  Id,          \* content ids
  File,        \* file names
  Worker,      \* operations under way at once (prefetch count and requests)
  Faults,      \* "db" and "s3": remote calls that fail; "amqp", "api": restarts
  MaxMishaps,  \* bound on faults
  MaxOps,      \* bound on requests and messages
  NoId

ASSUME ContentAssumption ==
  /\ NoId \notin Id
  /\ MaxMishaps \in Nat
  /\ MaxOps \in Nat

VARIABLES
  docs,     \* the contents that have a document
  refs,     \* refs[c]: the files the document of c refers to
  files,    \* files[c]: the files of c in S3
  queue,    \* messages neither delivered nor acknowledged
  job,      \* job[w]: the operation of worker w
  used,     \* ids given to a content so far
  torn,     \* history: contents that an error or a restart left half done
  clashed,  \* history: contents an operation was started on while another used them
  ops,      \* requests and messages so far
  mishaps   \* faults and restarts so far

store == <<docs, refs, files>>
vars  == <<docs, refs, files, queue, job, used, torn, clashed, ops, mishaps>>

Message == {m \in [op : {"copy", "delete"}, src : Id, dst : Id] : m.op = "delete" => m.src = m.dst}

\* src is read and dst is changed; names are the files the document is to refer
\* to, list the files still to handle; doc says that the document is still to be
\* removed, held that a message is still to be acknowledged.
NoJob == [op |-> "none", api |-> FALSE, src |-> NoId, dst |-> NoId, pc |-> "idle",
          names |-> {}, list |-> {}, doc |-> FALSE, held |-> FALSE]

Steps == {"find", "insert", "write", "add", "put", "prune", "list", "cp", "undo", "rm"}

Job == [op : {"copy", "delete", "save"}, api : BOOLEAN, src : Id, dst : Id, pc : Steps,
        names : SUBSET File, list : SUBSET File, doc : BOOLEAN, held : BOOLEAN]

Start(op, api, src, dst, pc, names) ==
  [op |-> op, api |-> api, src |-> src, dst |-> dst, pc |-> pc,
   names |-> names, list |-> {}, doc |-> FALSE, held |-> ~api]

Busy(w) == job[w].op # "none"

(***************************************************************************)
(* Requests and messages.                                                  *)
(***************************************************************************)
Init ==
  /\ docs \in SUBSET Id
  /\ refs \in {r \in [Id -> SUBSET File] : \A c \in Id \ docs : r[c] = {}}
  /\ files = refs
  /\ used = docs
  /\ queue = {} /\ torn = {} /\ clashed = {}
  /\ job = [w \in Worker |-> NoJob]
  /\ ops = 0 /\ mishaps = 0

Pending  == queue \cup {job[w] : w \in {v \in Worker : Busy(v)}}
Changing == {p.dst : p \in Pending}

\* Clients do not wait for each other: an operation that changes c may be started
\* while c is in use, and c may be copied while it is being changed.
ClashOn(c) ==
  clashed' = clashed \cup {d \in Id : \E p \in Pending : c \in {p.src, p.dst} /\ d \in {c, p.dst}}
ClashOfCopy(s, d) ==
  clashed' = clashed \cup (IF s \in Changing \cup clashed THEN {d} ELSE {})

NewOp == ops < MaxOps /\ ops' = ops + 1

SendCopy ==
  /\ NewOp
  /\ \E s \in used, d \in Id \ used :
       /\ queue' = queue \cup {[op |-> "copy", src |-> s, dst |-> d]}
       /\ used' = used \cup {d}
       /\ ClashOfCopy(s, d)
  /\ UNCHANGED <<store, job, torn, mishaps>>

SendDelete ==
  /\ NewOp
  /\ \E c \in used :
       /\ queue' = queue \cup {[op |-> "delete", src |-> c, dst |-> c]}
       /\ ClashOn(c)
  /\ UNCHANGED <<store, job, used, torn, mishaps>>

Take(w) ==
  /\ ~Busy(w)
  /\ \E m \in queue :
       /\ queue' = queue \ {m}
       /\ job' = [job EXCEPT ![w] = Start(m.op, FALSE, m.src, m.dst, "find", {})]
  /\ UNCHANGED <<store, used, torn, clashed, ops, mishaps>>

RequestDelete(w) ==
  /\ ~Busy(w) /\ NewOp
  /\ \E c \in used : /\ ClashOn(c)
                     /\ job' = [job EXCEPT ![w] = Start("delete", TRUE, c, c, "find", {})]
  /\ UNCHANGED <<store, queue, used, torn, mishaps>>

\* A new content gets a fresh id; its document is inserted without a lookup.
RequestSave(w) ==
  /\ ~Busy(w) /\ NewOp
  /\ \E c \in Id, N \in SUBSET File :
       /\ ClashOn(c)
       /\ used' = used \cup {c}
       /\ job' = [job EXCEPT ![w] =
                    Start("save", TRUE, c, c, IF c \in used THEN "find" ELSE "insert", N)]
  /\ UNCHANGED <<store, queue, torn, mishaps>>

(***************************************************************************)
(* The calls of an operation.                                              *)
(***************************************************************************)
At(w, p)       == job[w].pc = p
Goto(w, p)     == job' = [job EXCEPT ![w].pc = p]
GotoWith(w, p, L) == job' = [job EXCEPT ![w].pc = p, ![w].list = L]

Fault(k) == k \in Faults /\ mishaps < MaxMishaps /\ mishaps' = mishaps + 1

\* The handler is through, with or without an error: registerAmqpSubscriber logs
\* errors and acknowledges the message, the editor answers its request.
Finish(w) == job' = [job EXCEPT ![w] = NoJob]

Tear(w) == torn' = torn \cup {job[w].dst}

\* A broken variant of Find: a message whose content is missing is put back.
FindRequeues(w) ==
  /\ At(w, "find") /\ Finish(w)
  /\ \/ job[w].src \notin docs /\ UNCHANGED mishaps
     \/ Fault("db")
  /\ queue' = queue \cup {m \in Message : job[w].held /\ m.op = job[w].op
                                         /\ m.src = job[w].src /\ m.dst = job[w].dst}
  /\ UNCHANGED <<store, used, torn, clashed, ops>>

\* repo.findById
Find(w) ==
  /\ At(w, "find")
  /\ \/ /\ job[w].src \in docs
        /\ CASE job[w].op = "copy" ->
                  job' = [job EXCEPT ![w].pc = "insert", ![w].names = refs[job[w].src]]
             [] job[w].op = "delete" -> Goto(w, "list")
             [] job[w].op = "save"   -> Goto(w, "write")
        /\ UNCHANGED mishaps
     \/ job[w].src \notin docs /\ Finish(w) /\ UNCHANGED mishaps
     \/ Fault("db") /\ Finish(w)
  /\ UNCHANGED <<store, queue, used, torn, clashed, ops>>

\* repo.save of a new document: an existing one is a duplicate key error.
Insert(w) ==
  /\ At(w, "insert")
  /\ \/ /\ job[w].dst \notin docs
        /\ docs' = docs \cup {job[w].dst}
        /\ refs' = [refs EXCEPT ![job[w].dst] = job[w].names]
        /\ IF job[w].op = "copy" THEN Goto(w, "list") ELSE GotoWith(w, "add", job[w].names)
        /\ UNCHANGED mishaps
     \/ job[w].dst \in docs /\ Finish(w) /\ UNCHANGED <<docs, refs, mishaps>>
     \/ Fault("db") /\ Finish(w) /\ UNCHANGED <<docs, refs>>
  /\ UNCHANGED <<files, queue, used, torn, clashed, ops>>

\* repo.save of a document read before: if it has gone in the meantime, nothing
\* is written and no error is raised.
Write(w) ==
  /\ At(w, "write")
  /\ \/ /\ refs' = [refs EXCEPT ![job[w].dst] = IF job[w].dst \in docs THEN job[w].names ELSE @]
        /\ GotoWith(w, "add", job[w].names \ refs[job[w].dst])
        /\ UNCHANGED mishaps
     \/ Fault("db") /\ Finish(w) /\ UNCHANGED refs
  /\ UNCHANGED <<docs, files, queue, used, torn, clashed, ops>>

\* addFile: contentExists, then create.
AddFile(w) ==
  /\ At(w, "add") /\ job[w].list # {}
  /\ \/ job[w].dst \in docs /\ Goto(w, "put") /\ UNCHANGED <<torn, mishaps>>
     \/ job[w].dst \notin docs /\ Finish(w) /\ UNCHANGED <<torn, mishaps>>
     \/ Fault("db") /\ Tear(w) /\ Finish(w)
  /\ UNCHANGED <<store, queue, used, clashed, ops>>

PutFile(w) ==
  /\ At(w, "put")
  /\ \/ /\ \E f \in job[w].list :
             /\ files' = [files EXCEPT ![job[w].dst] = @ \cup {f}]
             /\ GotoWith(w, "add", job[w].list \ {f})
        /\ UNCHANGED <<torn, mishaps>>
     \/ Fault("s3") /\ Tear(w) /\ Finish(w) /\ UNCHANGED files
  /\ UNCHANGED <<docs, refs, queue, used, clashed, ops>>

\* The editor removes the files the new document no longer refers to; it logs
\* the errors this meets.
Added(w) ==
  /\ At(w, "add") /\ job[w].list = {}
  /\ GotoWith(w, "prune", files[job[w].dst] \ job[w].names)
  /\ UNCHANGED <<store, queue, used, torn, clashed, ops, mishaps>>

Prune(w) ==
  /\ At(w, "prune")
  /\ \E f \in job[w].list :
       /\ GotoWith(w, "prune", job[w].list \ {f})
       /\ \/ files' = [files EXCEPT ![job[w].dst] = @ \ {f}] /\ UNCHANGED mishaps
          \/ Fault("s3") /\ UNCHANGED files
  /\ UNCHANGED <<docs, refs, queue, used, torn, clashed, ops>>

Saved(w) ==
  /\ At(w, "prune") /\ job[w].list = {}
  /\ Finish(w)
  /\ UNCHANGED <<store, queue, used, torn, clashed, ops, mishaps>>

\* listFiles: contentExists, then list.  An error makes copyH5pContent take the
\* new document back.  The copy of a torn content is torn as well; a deletion
\* that gets as far as this makes good what an earlier one left.
List(w) ==
  /\ At(w, "list")
  /\ \/ /\ job[w].src \in docs /\ UNCHANGED mishaps
        /\ IF job[w].op = "copy"
           THEN /\ GotoWith(w, "cp", files[job[w].src])
                /\ IF job[w].src \in torn THEN Tear(w) ELSE UNCHANGED torn
           ELSE /\ job' = [job EXCEPT ![w].pc = "rm", ![w].list = files[job[w].src],
                                      ![w].doc = TRUE]
                /\ torn' = torn \ {job[w].dst}
     \/ /\ \/ job[w].src \notin docs /\ UNCHANGED mishaps
           \/ \E k \in {"db", "s3"} : Fault(k)
        /\ IF job[w].op = "copy" THEN Goto(w, "undo") ELSE Finish(w)
        /\ UNCHANGED torn
  /\ UNCHANGED <<store, queue, used, clashed, ops>>

\* A broken variant of Undo: the new document stays.
UndoForgotten(w) ==
  /\ At(w, "undo") /\ Finish(w)
  /\ UNCHANGED <<store, queue, used, torn, clashed, ops, mishaps>>

Undo(w) ==
  /\ At(w, "undo")
  /\ \/ /\ docs' = docs \ {job[w].dst}
        /\ refs' = [refs EXCEPT ![job[w].dst] = {}]
        /\ UNCHANGED <<torn, mishaps>>
     \/ Fault("db") /\ Tear(w) /\ UNCHANGED <<docs, refs>>
  /\ Finish(w)
  /\ UNCHANGED <<files, queue, used, clashed, ops>>

\* One CopyObject of S3ClientAdapter.copy, which waits for all and logs those
\* that failed, be it because the source file has gone.
CopyFile(w) ==
  /\ At(w, "cp")
  /\ \E f \in job[w].list :
       /\ GotoWith(w, "cp", job[w].list \ {f})
       /\ \/ /\ f \in files[job[w].src]
             /\ files' = [files EXCEPT ![job[w].dst] = @ \cup {f}]
             /\ UNCHANGED <<torn, mishaps>>
          \/ f \notin files[job[w].src] /\ Tear(w) /\ UNCHANGED <<files, mishaps>>
          \/ Fault("s3") /\ Tear(w) /\ UNCHANGED files
  /\ UNCHANGED <<docs, refs, queue, used, clashed, ops>>

\* "Content successfully copied"
Copied(w) ==
  /\ At(w, "cp") /\ job[w].list = {}
  /\ Finish(w)
  /\ UNCHANGED <<store, queue, used, torn, clashed, ops, mishaps>>

\* deleteContent removes the document and the files at once.  After the first
\* error the handler is through, but the other calls go on.
RemoveDoc(w) ==
  /\ At(w, "rm") /\ job[w].doc
  /\ \/ /\ docs' = docs \ {job[w].dst}
        /\ refs' = [refs EXCEPT ![job[w].dst] = {}]
        /\ job' = [job EXCEPT ![w].doc = FALSE]
        /\ UNCHANGED <<torn, mishaps>>
     \/ /\ Fault("db") /\ Tear(w)
        /\ job' = [job EXCEPT ![w].doc = FALSE, ![w].held = FALSE]
        /\ UNCHANGED <<docs, refs>>
  /\ UNCHANGED <<files, queue, used, clashed, ops>>

\* A file may stay because the call fails, or because DeleteObjects reports an
\* error for its key, which nobody reads.
RemoveFile(w) ==
  /\ At(w, "rm")
  /\ \E f \in job[w].list :
       \/ /\ files' = [files EXCEPT ![job[w].dst] = @ \ {f}]
          /\ GotoWith(w, "rm", job[w].list \ {f})
          /\ UNCHANGED <<torn, mishaps>>
       \/ /\ Fault("s3") /\ Tear(w)
          /\ \E thrown \in BOOLEAN :
               job' = [job EXCEPT ![w].list = @ \ {f}, ![w].held = @ /\ ~thrown]
          /\ UNCHANGED files
  /\ UNCHANGED <<docs, refs, queue, used, clashed, ops>>

Removed(w) ==
  /\ At(w, "rm") /\ job[w].list = {} /\ ~job[w].doc
  /\ Finish(w)
  /\ UNCHANGED <<store, queue, used, torn, clashed, ops, mishaps>>

(***************************************************************************)
(* A process is restarted (the consumer exits by itself when it loses the  *)
(* connection): its operations stop where they are and what it had not     *)
(* acknowledged is delivered again.                                        *)
(***************************************************************************)
Halfway(w) ==
  CASE job[w].op = "copy"   -> job[w].pc \in {"list", "undo"} \/ (At(w, "cp") /\ job[w].list # {})
    [] job[w].op = "delete" -> At(w, "rm") /\ (job[w].doc \/ job[w].list # {})
    [] job[w].op = "save"   -> job[w].pc \in {"add", "put"} /\ job[w].list # {}

\* A broken variant of Restart: what was handled already is delivered as well.
RestartRepeats(process) ==
  /\ Fault(process)
  /\ LET Lost == {w \in Worker : Busy(w) /\ job[w].api = (process = "api")}
     IN /\ job' = [w \in Worker |-> IF w \in Lost THEN NoJob ELSE job[w]]
        /\ queue' = queue \cup {[op |-> job[w].op, src |-> job[w].src, dst |-> job[w].dst] :
                                  w \in Lost}
        /\ torn' = torn \cup {job[w].dst : w \in {v \in Lost : Halfway(v)}}
  /\ UNCHANGED <<store, used, clashed, ops>>

Restart(process) ==
  /\ Fault(process)
  /\ LET Lost == {w \in Worker : Busy(w) /\ job[w].api = (process = "api")}
     IN /\ job' = [w \in Worker |-> IF w \in Lost THEN NoJob ELSE job[w]]
        /\ queue' = queue \cup {[op |-> job[w].op, src |-> job[w].src, dst |-> job[w].dst] :
                                  w \in {v \in Lost : job[v].held}}
        /\ torn' = torn \cup {job[w].dst : w \in {v \in Lost : Halfway(v)}}
  /\ UNCHANGED <<store, used, clashed, ops>>

Call(w) ==
  \/ Find(w) \/ Insert(w) \/ Write(w) \/ AddFile(w) \/ PutFile(w) \/ Added(w)
  \/ Prune(w) \/ Saved(w) \/ List(w) \/ Undo(w) \/ CopyFile(w) \/ Copied(w)
  \/ RemoveDoc(w) \/ RemoveFile(w) \/ Removed(w)

Next ==
  \/ SendCopy \/ SendDelete
  \/ \E w \in Worker : Take(w) \/ RequestDelete(w) \/ RequestSave(w) \/ Call(w)
  \/ \E process \in {"amqp", "api"} : Restart(process)

Spec == Init /\ [][Next]_vars

\* Every call returns, and a message in the queue is delivered when a worker is free.
FairSpec == Spec /\ \A w \in Worker : WF_vars(Call(w)) /\ WF_vars(Take(w))

(***************************************************************************)
(* Properties.                                                             *)
(***************************************************************************)
TypeOK ==
  /\ docs \subseteq used /\ used \subseteq Id
  /\ refs \in [Id -> SUBSET File]
  /\ files \in [Id -> SUBSET File]
  /\ queue \subseteq Message
  /\ job \in [Worker -> Job \cup {NoJob}]
  /\ torn \subseteq used
  /\ clashed \subseteq used
  /\ ops \in 0..MaxOps
  /\ mishaps \in 0..MaxMishaps

Whole(c) == IF c \in docs THEN refs[c] \subseteq files[c] ELSE files[c] = {}

\* When no operation is changing a content, its document and its files agree:
\* the document has all files it refers to, and without a document there are no
\* files.  The only exceptions are contents torn by a call that failed or a
\* restart at one of the places where the code does not undo its work, and a
\* deletion that gets through mends those, and contents on which clients started
\* an operation while another was using them: nothing in the code orders those.
WholeAtRest ==
  \A c \in Id \ (torn \cup clashed) : (\A w \in Worker : job[w].dst # c) => Whole(c)

\* "when the files of the h5p content fail to be copied ... should remove the
\* previously saved h5p content": a copy that ends with "Content successfully
\* copied" has every file of its source, when no other operation was started on
\* either of them in the meantime.
CopiedHasFiles ==
  \A w \in {v \in Worker : job[v].op = "copy" /\ At(v, "cp") /\ job[v].list = {}} :
    {job[w].src, job[w].dst} \cap clashed = {} => files[job[w].src] \subseteq files[job[w].dst]

\* Every request is answered and every message is acknowledged in the end: no
\* error, restart or interleaving makes a message come back for ever.
AllHandled == <>[](queue = {} /\ \A w \in Worker : ~Busy(w))
=================================================================================
