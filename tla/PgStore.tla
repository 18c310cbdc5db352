-------------------------------- MODULE PgStore -------------------------------
(***************************************************************************)
(* PostgresGraphStore under its pool of connections, the evidence index    *)
(* written after it, and GET /ready, which reads both.                     *)
(*                                                                         *)
(* Every statement is a query of the pool: it takes the connection that    *)
(* was given back last, opens one while there are fewer than the pool may  *)
(* have, or queues. The pool closes connections that stay idle and those   *)
(* whose query failed. The server is PostgreSQL at READ COMMITTED: a       *)
(* statement sees what is committed and what its own connection's          *)
(* transaction did, an insert waits for another transaction that has the   *)
(* key, a delete for one that deletes its rows. A row is its table and id. *)
(***************************************************************************)
EXTENDS Naturals, FiniteSets, Sequences, SequencesExt

CONSTANTS
    PoolMax,            \* connections the pool may open
    Readers, None,
    Payloads,           \* what refreshes store: [nodes, edges : Seq, documents : Nat]
    First,              \* the payload stored at first
    MaxRebuilds, MaxReads, MaxFaults    \* bounds

Conns == 1..PoolMax
Callers == Readers \cup {"refresh", "initSchema"}

NodeRows(p) == {<<"nodes", p.nodes[i]>> : i \in DOMAIN p.nodes}
EdgeRows(p) == {<<"edges", p.edges[i]>> : i \in DOMAIN p.edges}
Rows(p) == NodeRows(p) \cup EdgeRows(p)
InTable(table, rows) == {r \in rows : r[1] = table}

ASSUME PgAssumption ==
    /\ PoolMax \in Nat \ {0} /\ None \notin Callers
    /\ Readers \cap {"refresh", "initSchema"} = {}
    /\ First \in Payloads
    /\ \A p \in Payloads : /\ p.nodes \in Seq(ToSet(p.nodes)) /\ p.edges \in Seq(ToSet(p.edges))
                          /\ p.documents \in Nat
    /\ {MaxRebuilds, MaxReads, MaxFaults} \subseteq Nat

VARIABLES
    rows,               \* the rows committed
    tx,                 \* [Conns -> the transaction of each connection]
    pool,               \* the pool: [opened, idle, busy, queue]
    initPromise,        \* PostgresGraphStore.initPromise
    job,                \* [Callers -> the statements left and what was read]
    index,              \* documents in the evidence index file
    metadata,           \* documents its metadata file tells, None without one
    bootstrapState,
    rebuilds, reads, faults,
    tainted,            \* history: since the start, a read overlapped a rebuild
    cut,                \* history: the metadata was kept while the index was replaced
    answers             \* history: what /ready answered

database == <<rows, tx>>
evidence == <<index, metadata>>
bounds   == <<rebuilds, reads, faults>>
history  == <<tainted, cut, answers>>
vars     == <<database, pool, initPromise, job, evidence, bootstrapState, bounds, history>>

NoTx == [status |-> "none", deleted |-> {}, inserted |-> {}]
NoJob == [pc |-> "idle", todo |-> <<>>, got |-> <<>>, payload |-> First]
EmptyPool == [opened |-> {}, idle |-> <<>>, busy |-> [c \in Conns |-> None], queue |-> <<>>]

AllRows == UNION {Rows(p) : p \in Payloads}
Statement(verb, row) == [verb |-> verb, row |-> row]
Statements ==
    {Statement(v, <<>>) : v \in {"create", "begin", "commit", "rollback", "count nodes",
                                 "count edges", "delete edges", "delete nodes"}}
    \cup {Statement("insert", r) : r \in AllRows}

TypeOK ==
    /\ rows \subseteq AllRows
    /\ \A c \in Conns :
        /\ tx[c].status \in {"none", "open"}
        /\ tx[c].deleted \subseteq rows /\ tx[c].inserted \subseteq AllRows
        /\ c \notin pool.opened => tx[c] = NoTx /\ pool.busy[c] = None
        /\ c \in pool.opened => (pool.busy[c] = None <=> c \in ToSet(pool.idle))
    /\ IsInjective(pool.idle) /\ ToSet(pool.idle) \subseteq pool.opened
    /\ initPromise \in {"none", "pending", "resolved", "rejected"}
    /\ \A x \in Callers :
        /\ job[x].pc \in {"idle", "init", "query", "rename", "metadata"}
        /\ ToSet(job[x].todo) \subseteq Statements
        \* a caller with a statement under way has one place in the pool
        /\ Cardinality({c \in Conns : pool.busy[c] = x}) + Cardinality({i \in DOMAIN pool.queue :
                pool.queue[i] = x}) = (IF job[x].pc = "query" THEN 1 ELSE 0)
    /\ index \in Nat /\ metadata \in Nat \cup {None}
    /\ bootstrapState \in {"ready", "failed"} /\ {tainted, cut} \subseteq BOOLEAN

Init ==
    /\ rows = Rows(First) /\ tx = [c \in Conns |-> NoTx]
    /\ pool = EmptyPool /\ initPromise = "none"
    /\ job = [x \in Callers |-> NoJob]
    /\ index = First.documents /\ metadata = First.documents
    /\ bootstrapState \in {"ready", "failed"}
    /\ rebuilds = 0 /\ reads = 0 /\ faults = 0
    /\ tainted = FALSE /\ cut = FALSE /\ answers = {}

------------------------------------------------------------------------------
(* The pool.                                                               *)

Acquire(p, x) ==
    IF p.idle # <<>> THEN [p EXCEPT !.idle = Front(@), !.busy[Last(p.idle)] = x]
    ELSE IF p.opened # Conns
    THEN LET c == CHOOSE c \in Conns \ p.opened : TRUE
         IN  [p EXCEPT !.opened = @ \cup {c}, !.busy[c] = x]
    ELSE [p EXCEPT !.queue = Append(@, x)]

Release(p, c) ==
    IF p.queue # <<>> THEN [p EXCEPT !.busy[c] = Head(p.queue), !.queue = Tail(@)]
    ELSE [p EXCEPT !.busy[c] = None, !.idle = Append(@, c)]

\* A connection in use is gone; whoever waits gets another.
Drop(p, c) ==
    LET rest == [p EXCEPT !.opened = @ \ {c}, !.busy[c] = None]
    IN  IF rest.queue = <<>> THEN rest
        ELSE Acquire([rest EXCEPT !.queue = Tail(@)], Head(rest.queue))

------------------------------------------------------------------------------
(* The server.                                                             *)

Visible(c) == (rows \ tx[c].deleted) \cup tx[c].inserted

Waits(c, s) ==
    \E d \in Conns \ {c} :
        \/ s.verb = "insert" /\ s.row \in tx[d].deleted \cup tx[d].inserted
        \/ s.verb = "delete edges" /\ InTable("edges", tx[d].deleted) # {}
        \/ s.verb = "delete nodes" /\ InTable("nodes", tx[d].deleted) # {}

\* A key that is there already.
Refused(c, s) == s.verb = "insert" /\ s.row \in Visible(c)

Delete(c, table) ==
    IF tx[c].status = "open"
    THEN /\ tx' = [tx EXCEPT ![c].deleted = @ \cup InTable(table, rows),
                             ![c].inserted = @ \ InTable(table, @)]
         /\ UNCHANGED rows
    ELSE rows' = rows \ InTable(table, rows) /\ UNCHANGED tx

Insert(c, row) ==
    IF tx[c].status = "open"
    THEN tx' = [tx EXCEPT ![c].inserted = @ \cup {row}] /\ UNCHANGED rows
    ELSE rows' = rows \cup {row} /\ UNCHANGED tx

Execute(c, s) ==
    CASE s.verb = "begin" ->
            tx' = [tx EXCEPT ![c].status = "open"] /\ UNCHANGED rows
      [] s.verb = "delete edges" -> Delete(c, "edges")
      [] s.verb = "delete nodes" -> Delete(c, "nodes")
      [] s.verb = "insert" -> Insert(c, s.row)
      [] s.verb = "commit" -> rows' = Visible(c) /\ tx' = [tx EXCEPT ![c] = NoTx]
      [] s.verb = "rollback" -> tx' = [tx EXCEPT ![c] = NoTx] /\ UNCHANGED rows
      [] OTHER -> UNCHANGED <<rows, tx>>

------------------------------------------------------------------------------
(* The store.                                                              *)

Begin == <<Statement("begin", <<>>)>>
Deletes == <<Statement("delete edges", <<>>), Statement("delete nodes", <<>>)>>
Commit == <<Statement("commit", <<>>)>>

Inserts(p) ==
    [i \in DOMAIN p.nodes |-> Statement("insert", <<"nodes", p.nodes[i]>>)]
    \o [i \in DOMAIN p.edges |-> Statement("insert", <<"edges", p.edges[i]>>)]

\* Mutated: the old rows are deleted before the transaction begins.
fullRebuild_LateBegin(p) == Deletes \o Begin \o Inserts(p) \o Commit

fullRebuild(p) == Begin \o Deletes \o Inserts(p) \o Commit

getCounts == <<Statement("count nodes", <<>>), Statement("count edges", <<>>)>>

\* ensureInit: the first caller creates the schema, the others await it.
Start(x, todo, p) ==
    LET pc == IF initPromise = "resolved" THEN "query" ELSE "init"
        fresh == [NoJob EXCEPT !.pc = pc, !.todo = todo, !.payload = p]
        create == [NoJob EXCEPT !.pc = "query", !.todo = <<Statement("create", <<>>)>>]
    IN  CASE initPromise = "resolved" ->
                /\ job' = [job EXCEPT ![x] = fresh] /\ pool' = Acquire(pool, x)
                /\ UNCHANGED initPromise
          [] initPromise = "none" ->
                /\ job' = [job EXCEPT ![x] = fresh, !["initSchema"] = create]
                /\ pool' = Acquire(pool, "initSchema") /\ initPromise' = "pending"
          [] OTHER ->
                /\ job' = [job EXCEPT ![x] = fresh]
                /\ UNCHANGED <<pool, initPromise>>

\* Mutated: the index and its metadata are written by awaited calls.
Free_Async == TRUE

\* Between the rename of the index and its metadata nothing else runs.
Free == job["refresh"].pc \notin {"rename", "metadata"}

Reading == \E x \in Readers : job[x].pc # "idle"
Rebuilding == job["refresh"].pc \in {"init", "query"}

\* A refresh stores its payload.
StartRebuild ==
    /\ job["refresh"] = NoJob /\ rebuilds < MaxRebuilds
    /\ rebuilds' = rebuilds + 1
    /\ \E p \in Payloads : Start("refresh", fullRebuild(p), p)
    /\ tainted' = (tainted \/ Reading)
    /\ UNCHANGED <<database, evidence, bootstrapState, reads, faults, cut, answers>>

\* GET /ready counts the nodes and the edges.
StartReady(x) ==
    /\ Free /\ job[x] = NoJob /\ reads < MaxReads
    /\ reads' = reads + 1
    /\ Start(x, getCounts, First)
    /\ tainted' = (tainted \/ Rebuilding)
    /\ UNCHANGED <<database, evidence, bootstrapState, rebuilds, faults, cut, answers>>

\* The schema is there, or its creation failed once and for all.
Initialised(x) ==
    /\ Free /\ job[x].pc = "init" /\ initPromise \in {"resolved", "rejected"}
    /\ IF initPromise = "resolved"
       THEN job' = [job EXCEPT ![x].pc = "query"] /\ pool' = Acquire(pool, x)
       ELSE job' = [job EXCEPT ![x] = NoJob] /\ UNCHANGED pool
    /\ UNCHANGED <<database, initPromise, evidence, bootstrapState, bounds, history>>

getDocumentCount == IF metadata # None THEN metadata ELSE index

dbOk(counts) == counts[1] > 0 /\ counts[2] > 0

ready(counts) ==
    [ready |-> bootstrapState # "failed" /\ dbOk(counts) /\ getDocumentCount > 0,
     graph |-> InTable("nodes", rows) # {} /\ InTable("edges", rows) # {},
     evidence |-> index > 0, tainted |-> tainted, cut |-> cut]

\* Mutated: an error is not thrown again after the rollback.
stored_Swallowed(last) == TRUE

\* fullRebuild returns; after a rollback it throws.
stored(last) == last = "commit"

\* The caller goes on with what a statement returned.
Continue(x, c, value) ==
    LET j == job[x]
        left == Tail(j.todo)
        read == IF x \in Readers THEN Append(j.got, value) ELSE <<>>
    IN  IF left # <<>>
        THEN /\ job' = [job EXCEPT ![x] = [j EXCEPT !.todo = left, !.got = read]]
             /\ pool' = Acquire(Release(pool, c), x)
             /\ UNCHANGED <<initPromise, answers>>
        ELSE /\ pool' = Release(pool, c)
             /\ job' = [job EXCEPT ![x] =
                    \* the refresh that has committed indexes its evidence next
                    IF x = "refresh" /\ stored(Head(j.todo).verb)
                    THEN [j EXCEPT !.pc = "rename", !.todo = <<>>] ELSE NoJob]
             /\ initPromise' = IF x = "initSchema" THEN "resolved" ELSE initPromise
             /\ answers' = IF x \in Readers THEN answers \cup {ready(read)} ELSE answers

\* Mutated: the rollback is not awaited.
Throw_NoAwait(x, p) ==
    LET undo == x = "refresh" /\ Head(job[x].todo).verb \notin {"begin", "rollback"}
    IN  /\ job' = [job EXCEPT ![x] = NoJob]
        /\ pool' = IF undo THEN Acquire(p, x) ELSE p
        /\ initPromise' = IF x = "initSchema" THEN "rejected" ELSE initPromise

\* An error: a rebuild that has begun rolls back, on whatever connection it gets.
Throw(x, p) ==
    LET stmt == Head(job[x].todo).verb
        undo == x = "refresh" /\ stmt \notin {"begin", "rollback"}
    IN  /\ job' = [job EXCEPT ![x] =
                IF undo THEN [@ EXCEPT !.todo = <<Statement("rollback", <<>>)>>] ELSE NoJob]
        /\ pool' = IF undo THEN Acquire(p, x) ELSE p
        /\ initPromise' = IF x = "initSchema" THEN "rejected" ELSE initPromise

Count(c, s) ==
    CASE s.verb = "count nodes" -> Cardinality(InTable("nodes", Visible(c)))
      [] s.verb = "count edges" -> Cardinality(InTable("edges", Visible(c)))
      [] OTHER -> 0

\* A statement is executed, or refused, and its caller goes on.
Answered(c) ==
    /\ Free /\ pool.busy[c] # None
    /\ LET x == pool.busy[c]
           s == Head(job[x].todo)
       IN  /\ ~Waits(c, s)
           /\ IF Refused(c, s)
              THEN /\ Throw(x, Drop(pool, c))
                   /\ tx' = [tx EXCEPT ![c] = NoTx]
                   /\ UNCHANGED <<rows, answers>>
              ELSE Execute(c, s) /\ Continue(x, c, Count(c, s))
    /\ UNCHANGED <<evidence, bootstrapState, bounds, tainted, cut>>

\* A connection is lost, before its statement was executed or after.
ConnectionLost(c) ==
    /\ Free /\ pool.busy[c] # None /\ faults < MaxFaults
    /\ faults' = faults + 1
    /\ LET s == Head(job[pool.busy[c]].todo)
       IN  \/ UNCHANGED rows
           \/ s.verb = "commit" /\ rows' = Visible(c)
    /\ tx' = [tx EXCEPT ![c] = NoTx]
    /\ Throw(pool.busy[c], Drop(pool, c))
    /\ UNCHANGED <<evidence, bootstrapState, rebuilds, reads, history>>

\* Mutated: idle connections are kept.
IdleClosed_Never(c) == FALSE /\ UNCHANGED vars

\* The pool closes a connection that was idle too long: its transaction ends.
\* Nobody waits for one while one is idle.
IdleClosed(c) ==
    /\ \E i \in DOMAIN pool.idle :
        /\ pool.idle[i] = c
        /\ pool' = [pool EXCEPT !.opened = @ \ {c}, !.idle = RemoveAt(@, i)]
    /\ tx' = [tx EXCEPT ![c] = NoTx]
    /\ UNCHANGED <<rows, initPromise, job, evidence, bootstrapState, bounds, history>>

------------------------------------------------------------------------------
(* The evidence index, and the end of the process.                         *)

\* reindexFromFixtures: the new index replaces the old one.
RenameIndex ==
    /\ job["refresh"].pc = "rename"
    /\ index' = job["refresh"].payload.documents
    /\ job' = [job EXCEPT !["refresh"].pc = "metadata"]
    /\ UNCHANGED <<database, pool, initPromise, metadata, bootstrapState, bounds, history>>

WriteIndexMetadata ==
    /\ job["refresh"].pc = "metadata"
    /\ metadata' = job["refresh"].payload.documents
    /\ job' = [job EXCEPT !["refresh"] = NoJob] /\ cut' = FALSE
    /\ UNCHANGED <<database, pool, initPromise, index, bootstrapState, bounds, tainted, answers>>

\* What is left of the metadata when its write does not end: the old file, or,
\* half written, none that can be read, and then the index is counted.
MetadataLeft ==
    IF job["refresh"].pc = "metadata"
    THEN metadata' \in {metadata, None} /\ cut' = (metadata' # None)
    ELSE UNCHANGED <<metadata, cut>>

\* A file of the evidence cannot be written, and the refresh fails.
ReindexFails ==
    /\ job["refresh"].pc \in {"rename", "metadata"}
    /\ faults < MaxFaults /\ faults' = faults + 1
    /\ MetadataLeft /\ job' = [job EXCEPT !["refresh"] = NoJob]
    /\ UNCHANGED <<database, pool, initPromise, index, bootstrapState, rebuilds, reads, tainted, answers>>

\* The process dies and is started again.
Crash ==
    /\ faults < MaxFaults /\ faults' = faults + 1
    /\ MetadataLeft
    /\ job' = [x \in Callers |-> NoJob]
    /\ tx' = [c \in Conns |-> NoTx] /\ pool' = EmptyPool /\ initPromise' = "none"
    /\ bootstrapState' \in {"ready", "failed"} /\ tainted' = FALSE
    /\ UNCHANGED <<rows, index, rebuilds, reads, answers>>

Next ==
    \/ StartRebuild \/ \E x \in Readers : StartReady(x)
    \/ \E x \in Readers \cup {"refresh"} : Initialised(x)
    \/ \E c \in Conns : Answered(c) \/ ConnectionLost(c) \/ IdleClosed(c)
    \/ RenameIndex \/ WriteIndexMetadata \/ ReindexFails \/ Crash

\* The server answers, promises settle, idle connections are closed, and
\* synchronous code runs on.
Fairness ==
    /\ \A c \in Conns : WF_vars(Answered(c)) /\ WF_vars(IdleClosed(c))
    /\ \A x \in Readers \cup {"refresh"} : WF_vars(Initialised(x))
    /\ WF_vars(RenameIndex) /\ WF_vars(WriteIndexMetadata)

Spec == Init /\ [][Next]_vars /\ Fairness

------------------------------------------------------------------------------
(* Properties.                                                             *)

\* Without a read beside it, a rebuild changes what is committed in one step and
\* wholly, whatever fails, and goes on to the evidence only when it is stored:
\* fullRebuild uses the pool, not one connection, and relies on being given the
\* same one each time.
QuietRebuildIsAtomic ==
    [][~tainted =>
        /\ rows' # rows => rows' = Rows(job["refresh"].payload)
        /\ job'["refresh"].pc = "rename" => rows' = Rows(job'["refresh"].payload)]_vars

\* /ready says ready only while the evidence index holds something, whatever
\* refresh ran beside it, unless the last refresh that replaced the index left
\* the metadata of an older one; and only while the graph does, unless a read
\* overlapped a rebuild (HealthController.ready; EvidenceStoreService, 78-94).
ReadyIsGrounded ==
    \A a \in answers : a.ready => (a.evidence \/ a.cut) /\ (a.graph \/ a.tainted)

\* Every rebuild ends: one that waits for rows its own earlier statement locked
\* on another connection is freed when the pool closes that connection.
RebuildEnds == Rebuilding ~> ~Rebuilding
==============================================================================
