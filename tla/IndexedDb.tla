----------------------------- MODULE IndexedDb -----------------------------
(***************************************************************************)
(* storage/IndexedDb and the realm's side of it in bindings/IndexedDb: one *)
(* database, the pages and workers (realms) that open, upgrade, delete and *)
(* use it from their own threads, the queue of open requests, the schedule *)
(* of transactions, the undoing of what is aborted, the file.              *)
(*                                                                         *)
(* A task of a realm's event loop is an action.  It may take the storage's *)
(* mutex more than once, but what it does between two sections touches its *)
(* own realm, or stores no other running transaction may touch, so running *)
(* them together loses no outcome the properties tell apart.  What a store *)
(* holds is the last write: which transaction's, and which of its writes.  *)
(* The database exists while its version is not 0.  A versionchange event  *)
(* only informs the page, and a page may close a connection at any time.   *)
(***************************************************************************)
EXTENDS Naturals, Sequences, FiniteSets, SequencesExt

CONSTANTS
    Opens, Deletes,     \* open and delete requests the pages may make
    Made,               \* transactions the pages may make (an upgrade has its request's name)
    Stores,
    Realms, ThreadOf,   \* each realm lives on a thread
    RealmOf,            \* the realm of each request and transaction
    VersionOf,          \* the version each open request asks for, None for whichever
    PlanOf,             \* the mode and the scope the pages give each
    Databases,          \* what the file may hold when the first page comes
    MaxRequests,        \* how many of the requests are made (bound)
    MaxOps,             \* the operations of each transaction (bound)
    None

Requests == Opens \cup Deletes
Transactions == Opens \cup Made
Threads == {ThreadOf[p] : p \in Realms}
Absent == <<None, 0>>
Nothing == [version |-> 0, stores |-> [s \in Stores |-> Absent]]

ASSUME NamesAssumption ==
    /\ IsFiniteSet(Requests \cup Made)
    /\ Opens \cap Deletes = {} /\ Made \cap Requests = {} /\ None \notin Requests \cup Made
ASSUME RealmsAssumption ==
    /\ RealmOf \in [Requests \cup Made -> Realms]
    /\ VersionOf \in [Opens -> (Nat \ {0}) \cup {None}]
    /\ \A t \in Made : PlanOf[t].mode \in {"readonly", "readwrite"} /\ PlanOf[t].scope \subseteq Stores
ASSUME PartsAssumption == "version" \notin Stores   \* the name of the version among a database's parts
ASSUME BoundsAssumption ==
    /\ MaxOps \in [Transactions -> Nat]
    /\ Databases \subseteq [version : Nat, stores : [Stores -> {None} \X Nat]]

VARIABLES
    db, file,           \* Database::state, and what its file holds
    queue, begun,       \* Database::queue, and which of it have been started
    watchers,           \* Database::close_watchers: the requests to be told of a close
    conns,              \* the connection of each open request
    scheduled,          \* Database::transactions, in the order they were made
    tx,                 \* the realms' side of each transaction
    req,                \* what has become of each request
    tasks, later, remote,   \* a thread's tasks of this turn, its own for the next, others' for it
    alive               \* the realms that have not ended

vars == <<db, file, queue, begun, watchers, conns, scheduled, tx, req, tasks, later, remote, alive>>

Task(kind, id) == [kind |-> kind, id |-> id]

NewTx == [state |-> "unmade", plan |-> [mode |-> "none", scope |-> {}, connection |-> None],
          started |-> FALSE, queue |-> <<>>, processing |-> FALSE, commitQueued |-> FALSE,
          undo |-> <<>>, saved |-> Nothing, made |-> 0]

Init ==
    /\ db \in Databases /\ file = db
    /\ queue = <<>> /\ begun = {} /\ watchers = {}
    /\ conns = [c \in Opens |-> [open |-> FALSE, closePending |-> FALSE, unfinished |-> 0, version |-> 0]]
    /\ scheduled = <<>>
    /\ tx = [t \in Transactions |-> NewTx]
    /\ req = [r \in Requests |-> "unmade"]
    /\ tasks = [th \in Threads |-> <<>>]
    /\ later = [th \in Threads |-> <<>>] /\ remote = [th \in Threads |-> <<>>]
    /\ alive = Realms

-----------------------------------------------------------------------------
\* The elements of s that are in S, in their order.
Only(s, S) ==
    LET kept[n \in 0..Len(s)] ==
            IF n = 0 THEN <<>>
            ELSE IF s[n] \in S THEN Append(kept[n - 1], s[n]) ELSE kept[n - 1]
    IN kept[Len(s)]

\* A task or a page's call works on the whole as it stands, and on the tasks
\* it posts.
World == [db |-> db, file |-> file, queue |-> queue, begun |-> begun, watchers |-> watchers,
          conns |-> conns, scheduled |-> scheduled, tx |-> tx, req |-> req, posts |-> <<>>]

Post(w, kind, id) == [w EXCEPT !.posts = Append(@, Task(kind, id))]

\* IdbLink::post: to the poster's own thread for its next turn, to another's by
\* the agent's remote tasks; a realm that has ended runs nothing any more.
Become(w, th) ==
    LET Living(s) == {k \in ToSet(s) : RealmOf[k.id] \in alive'}
        For(other) == Only(w.posts, {k \in Living(w.posts) : ThreadOf[RealmOf[k.id]] = other})
    IN /\ db' = w.db /\ file' = w.file
       /\ queue' = w.queue /\ begun' = w.begun /\ watchers' = w.watchers
       /\ conns' = w.conns /\ scheduled' = w.scheduled
       /\ tx' = w.tx /\ req' = w.req
       /\ later' = [o \in Threads |-> Only(later[o], Living(later[o])) \o (IF o = th THEN For(o) ELSE <<>>)]
       /\ remote' = [o \in Threads |-> Only(remote[o], Living(remote[o])) \o (IF o = th THEN <<>> ELSE For(o))]

-----------------------------------------------------------------------------
\* The storage, under its mutex.
Overlap(a, b) ==
    \/ "versionchange" \in {a.mode, b.mode}
    \/ a.scope \cap b.scope # {}

\* slip: only writers wait, readers never do
WaitsIfWriting(s, i) ==
    \E j \in 1..(i - 1) : Overlap(s[j], s[i]) /\ s[i].mode # "readonly"
Waits(s, i) ==
    \E j \in 1..(i - 1) : Overlap(s[j], s[i]) /\ ~(s[j].mode = "readonly" /\ s[i].mode = "readonly")

\* Whoever may start is started, and told so by a task (an upgrade knows).
StartReady(w) ==
    LET s == w.scheduled
        Starts(i) == ~s[i].started /\ ~Waits(s, i)
        Told == {i \in DOMAIN s : Starts(i) /\ s[i].mode # "versionchange"}
        Begin(i) == Task("start", s[i].id)
    IN [w EXCEPT !.scheduled = [i \in DOMAIN s |-> [s[i] EXCEPT !.started = s[i].started \/ Starts(i)]],
                 !.posts = @ \o Only([i \in DOMAIN s |-> Begin(i)], {Begin(i) : i \in Told})]

Schedule(w, t) ==
    LET plan == w.tx[t].plan
        entry == [id |-> t, mode |-> plan.mode, scope |-> plan.scope,
                  connection |-> plan.connection, started |-> FALSE]
    IN StartReady([w EXCEPT !.conns[plan.connection].unfinished = @ + 1,
                            !.scheduled = Append(@, entry)])

\* slip: closed at the request, whatever still runs on it
CloseAtOnce(w, c) ==
    IF ~w.conns[c].open \/ ~w.conns[c].closePending THEN w
    ELSE [w EXCEPT !.conns[c].open = FALSE,
                   !.posts = @ \o SetToSeq({Task("recheck", r) : r \in w.watchers})]
CloseIfDone(w, c) ==
    IF ~w.conns[c].open \/ ~w.conns[c].closePending \/ w.conns[c].unfinished > 0 THEN w
    ELSE [w EXCEPT !.conns[c].open = FALSE,
                   !.posts = @ \o SetToSeq({Task("recheck", r) : r \in w.watchers})]

RequestClose(w, c) == CloseIfDone([w EXCEPT !.conns[c].closePending = TRUE], c)

Without(w, t) ==
    [w EXCEPT !.scheduled = Only(@, {e \in ToSet(@) : e.id # t}),
              !.conns[w.tx[t].plan.connection].unfinished = @ - 1]

\* slip: the ones that waited for it are not looked at
FinishQuietly(w, t) == CloseIfDone(Without(w, t), w.tx[t].plan.connection)
Finish(w, t) == StartReady(CloseIfDone(Without(w, t), w.tx[t].plan.connection))

\* slip: one that is closing no longer counts, though it still works
OthersStaying(w, c) == \E other \in Opens \ {c} : w.conns[other].open /\ ~w.conns[other].closePending
OthersOpen(w, c) == \E other \in Opens \ {c} : w.conns[other].open

BeginFront(w) ==
    IF w.queue = <<>> \/ Head(w.queue) \in w.begun THEN w
    ELSE Post([w EXCEPT !.begun = @ \cup {Head(w.queue)}], "begin", Head(w.queue))
Enqueue(w, r) == BeginFront([w EXCEPT !.queue = Append(@, r)])
Dequeue(w, r) == BeginFront([w EXCEPT !.queue = Only(@, ToSet(@) \ {r}), !.watchers = @ \ {r}])

\* UndoLog::revert: the last step first.
Back(state, step) == [state EXCEPT ![step.store] = step.was]
UndoneInOrder(stores, undo) ==                        \* slip: the first step first
    LET back[n \in 0..Len(undo)] == IF n = 0 THEN stores ELSE Back(back[n - 1], undo[n])
    IN back[Len(undo)]
Undone(stores, undo) ==
    LET back[n \in 0..Len(undo)] ==
            IF n = 0 THEN stores ELSE Back(back[n - 1], undo[Len(undo) + 1 - n])
    IN back[Len(undo)]

\* Storage::persist: the database as it is in memory, whoever is at work on it.
Persisted(w) == IF w.db.version = 0 THEN w ELSE [w EXCEPT !.file = w.db]

-----------------------------------------------------------------------------
\* A transaction, on its realm's side.
Mode(w, t) == w.tx[t].plan.mode
Over(state) == state \in {"Finished", "complete", "abort"}

CommitTransaction(w, t) ==
    LET marked == [w EXCEPT !.tx[t].state = "Committing"]
    IN IF ~w.tx[t].started \/ w.tx[t].queue # <<>> \/ w.tx[t].processing \/ w.tx[t].commitQueued
       THEN marked
       ELSE Post([marked EXCEPT !.tx[t].commitQueued = TRUE], "commit", t)

PumpTx(w, t) ==
    LET it == w.tx[t]
    IN IF Over(it.state) \/ ~it.started \/ it.processing THEN w
       ELSE IF it.queue # <<>> THEN Post([w EXCEPT !.tx[t].processing = TRUE], "process", t)
       ELSE IF it.state \in {"Inactive", "Committing"} THEN CommitTransaction(w, t)
       ELSE w

\* An operation: a read, a write, or a request that fails.  An upgrade keeps no
\* undo log, it has the database as it was.
Execute(w, t, i) ==
    LET op == w.tx[t].queue[i]
        done == [w EXCEPT !.tx[t].queue[i].executed = TRUE]
    IN IF op.executed \/ op.kind # "write" THEN done
       ELSE [done EXCEPT !.db.stores[op.store] = <<t, op.number>>,
                         !.tx[t].undo = IF Mode(w, t) = "versionchange" THEN @
                                        ELSE Append(@, [store |-> op.store, was |-> w.db.stores[op.store]])]

\* execute_ready: every operation of a started transaction may run at once.
ExecuteReady(w, t) ==
    IF ~w.tx[t].started THEN w
    ELSE LET upto[n \in 0..Len(w.tx[t].queue)] ==
                 IF n = 0 THEN w ELSE Execute(upto[n - 1], t, n)
         IN upto[Len(w.tx[t].queue)]

Place(w, t, op) ==
    LET numbered == [store |-> op.store, kind |-> op.kind, number |-> w.tx[t].made + 1, executed |-> FALSE]
    IN PumpTx(ExecuteReady([w EXCEPT !.tx[t].queue = Append(@, numbered), !.tx[t].made = @ + 1], t), t)

\* What was changed is as it was, in memory; nothing is written.
Reverted(w, t) ==
    IF Mode(w, t) = "versionchange"
    THEN [w EXCEPT !.db = w.tx[t].saved]
    ELSE [w EXCEPT !.db.stores = Undone(@, w.tx[t].undo), !.tx[t].undo = <<>>]

AbortTransaction(w, t) ==
    LET undone == [Reverted(w, t) EXCEPT !.tx[t].state = "Finished", !.tx[t].queue = <<>>]
        c == w.tx[t].plan.connection
        told == IF Mode(w, t) # "versionchange" THEN undone
                ELSE [undone EXCEPT !.conns[c].version = w.tx[t].saved.version]
    IN Post(Finish(told, t), "aborted", t)

\* What a page's script does with a transaction while it is active: it places
\* requests, and may then commit it or abort it; after the script the
\* transaction is inactive again.
Operations(plan) ==
    [store : plan.scope, kind : IF plan.mode = "readonly" THEN {"read"} ELSE {"write", "fail"}]
Scripts(plan, most) == [ops : SeqOf(Operations(plan), most), end : {"nothing", "commit", "abort"}]

PlaceAll(w, t, ops) ==
    LET upto[n \in 0..Len(ops)] == IF n = 0 THEN w ELSE Place(upto[n - 1], t, ops[n])
    IN upto[Len(ops)]

RunScript(w, t, script) ==
    LET placed == PlaceAll([w EXCEPT !.tx[t].state = "Active"], t, script.ops)
        ended == CASE script.end = "commit" -> CommitTransaction(placed, t)
                   [] script.end = "abort" -> AbortTransaction(placed, t)
                   [] OTHER -> placed
    IN IF ended.tx[t].state = "Active" THEN [ended EXCEPT !.tx[t].state = "Inactive"] ELSE ended

\* process_next: the front request's event.  A failed request aborts the
\* transaction, a committing one too; a listener that prevents it is as one
\* whose request was a read.
ProcessNext(w, t, script) ==
    LET freed == [w EXCEPT !.tx[t].processing = FALSE]
        run == Execute(freed, t, 1)
        popped == [run EXCEPT !.tx[t].queue = Tail(@)]
    IN IF Over(w.tx[t].state) \/ w.tx[t].queue = <<>> THEN PumpTx(freed, t)
       ELSE IF Head(w.tx[t].queue).kind = "fail" THEN AbortTransaction(popped, t)
       ELSE IF w.tx[t].state = "Committing" THEN PumpTx(popped, t)
       ELSE PumpTx(RunScript(popped, t, script), t)

FinishCommit(w, t) ==
    LET written == IF Mode(w, t) = "readonly" THEN w ELSE Persisted(w)
    IN Finish([written EXCEPT !.tx[t].undo = <<>>, !.tx[t].state = "complete"], t)

-----------------------------------------------------------------------------
\* Open and delete requests.
Settle(w, r, how) == Dequeue([w EXCEPT !.req[r] = how], r)

VersionWanted(w, r) ==
    IF VersionOf[r] # None THEN VersionOf[r] ELSE IF w.db.version = 0 THEN 1 ELSE w.db.version

RunUpgrade(w, r, script) ==
    LET v == VersionWanted(w, r)
        made == [w EXCEPT !.tx[r] = [NewTx EXCEPT !.state = "Inactive", !.started = TRUE, !.saved = w.db,
                                                  !.plan = [mode |-> "versionchange", scope |-> Stores,
                                                            connection |-> r]],
                          !.db.version = v, !.conns[r].version = v, !.req[r] = "upgrading"]
    IN PumpTx(RunScript(Schedule(made, r), r, script), r)

\* erase: the state emptied and the file removed.
Erased(w) == [w EXCEPT !.db = Nothing, !.file = Nothing]

\* The step of a request once no other connection is open.
Proceed(w, r, script) ==
    IF r \in Deletes THEN Settle(Erased(w), r, "success") ELSE RunUpgrade(w, r, script)

-----------------------------------------------------------------------------
\* The tasks.
Takes(th, kind, id) == tasks[th] # <<>> /\ Head(tasks[th]) = Task(kind, id)

\* The task is over; what it must do right after an event comes next.
TaskOver(th, w, then) ==
    /\ tasks' = [tasks EXCEPT ![th] = then \o Tail(@)]
    /\ UNCHANGED alive
    /\ Become(w, th)

\* Realm::run_pending: what others have handed over joins what was queued; a
\* task one of these queues waits for the next turn.
RunPending(th) ==
    /\ tasks[th] = <<>> /\ later[th] \o remote[th] # <<>>
    /\ tasks' = [tasks EXCEPT ![th] = later[th] \o remote[th]]
    /\ later' = [later EXCEPT ![th] = <<>>] /\ remote' = [remote EXCEPT ![th] = <<>>]
    /\ UNCHANGED <<db, file, queue, begun, watchers, conns, scheduled, tx, req, alive>>

\* run_open
RunOpen(th, r) ==
    /\ Takes(th, "begin", r) /\ r \in Opens
    /\ LET wanted == VersionWanted(World, r)
           connected == [World EXCEPT !.conns[r].open = TRUE, !.conns[r].version = db.version]
       IN TaskOver(th,
            IF db.version > wanted THEN Settle(World, r, "error")
            ELSE IF db.version = wanted THEN Settle(connected, r, "success")
            ELSE Post([connected EXCEPT !.req[r] = "waiting"], "others", r), <<>>)

\* run_delete
RunDelete(th, r) ==
    /\ Takes(th, "begin", r) /\ r \in Deletes
    /\ TaskOver(th, IF db.version = 0 THEN Settle(World, r, "success")
                    ELSE Post([World EXCEPT !.req[r] = "waiting"], "others", r), <<>>)

Connection(r) == IF r \in Opens THEN r ELSE None

NoScript == [ops |-> <<>>, end |-> "nothing"]
FirstScripts(r) ==
    IF r \in Opens THEN Scripts([mode |-> "versionchange", scope |-> Stores], MaxOps[r]) ELSE {NoScript}

\* when_others_closed: at once, or (the page told it is blocked) on a close.
WhenOthersClosed(th, r) ==
    /\ Takes(th, "others", r)
    /\ IF OthersOpen(World, Connection(r))
       THEN TaskOver(th, [World EXCEPT !.watchers = @ \cup {r}], <<>>)
       ELSE \E script \in FirstScripts(r) : TaskOver(th, Proceed(World, r, script), <<>>)

\* Its close watcher's task: run only while the request still waits.
Recheck(th, r) ==
    /\ Takes(th, "recheck", r)
    /\ IF req[r] # "waiting" \/ OthersOpen(World, Connection(r))
       THEN TaskOver(th, World, <<>>)
       ELSE \E script \in FirstScripts(r) :
              TaskOver(th, Proceed([World EXCEPT !.watchers = @ \ {r}], r, script), <<>>)

Forgotten(t) == tx[t].state \in {"complete", "abort"}

\* on_start's task
Start(th, t) ==
    /\ Takes(th, "start", t)
    /\ TaskOver(th, IF Forgotten(t) THEN World
                    ELSE PumpTx([World EXCEPT !.tx[t].started = TRUE], t), <<>>)

Process(th, t) ==
    /\ Takes(th, "process", t)
    /\ \E script \in IF tx[t].state = "Inactive" THEN Scripts(tx[t].plan, MaxOps[t] - tx[t].made)
                     ELSE {NoScript} :
         TaskOver(th, IF Forgotten(t) THEN World ELSE ProcessNext(World, t, script), <<>>)

\* What on_done does of an upgrade once its last event has been fired.
OnDone(t) == IF t \in Opens THEN <<Task("done", t)>> ELSE <<>>

Commit(th, t) ==
    /\ Takes(th, "commit", t)
    /\ TaskOver(th, FinishCommit(World, t), OnDone(t))

Aborted(th, t) ==
    /\ Takes(th, "aborted", t)
    /\ TaskOver(th, [World EXCEPT !.tx[t].state = "abort"], OnDone(t))

\* run_upgrade's on_done: an aborted upgrade's connection closes; so does the
\* request of one closed meanwhile fail.
UpgradeDone(th, r) ==
    /\ Takes(th, "done", r)
    /\ LET committed == tx[r].state = "complete"
           closed == IF committed THEN World ELSE RequestClose(World, r)
       IN TaskOver(th, Settle(closed, r, IF committed /\ ~conns[r].closePending
                                        THEN "success" ELSE "error"), <<>>)

RunTask(th) ==
    \/ \E r \in Requests : \/ RunOpen(th, r) \/ RunDelete(th, r)
                          \/ WhenOthersClosed(th, r) \/ Recheck(th, r) \/ UpgradeDone(th, r)
    \/ \E t \in Transactions : Start(th, t) \/ Process(th, t) \/ Commit(th, t) \/ Aborted(th, t)

-----------------------------------------------------------------------------
\* The pages.
Acts(p, w) == p \in alive /\ UNCHANGED <<tasks, alive>> /\ Become(w, ThreadOf[p])

\* factory_open: indexedDB.open() and deleteDatabase().
FactoryOpen(r) ==
    /\ req[r] = "unmade" /\ Cardinality({q \in Requests : req[q] # "unmade"}) < MaxRequests
    /\ Acts(RealmOf[r], Enqueue([World EXCEPT !.req[r] = "queued"], r))

\* The page has been given the connection, at the latest by upgradeneeded.
Has(c) == conns[c].open /\ ~conns[c].closePending /\ req[c] \in {"upgrading", "success", "error"}
UpgradeRuns(c) == req[c] = "upgrading" /\ tx[c].state \in {"Inactive", "Committing"}

\* db.transaction() and what its script does next.
Transact(t, c, script) ==
    /\ tx[t].state = "unmade" /\ RealmOf[c] = RealmOf[t] /\ Has(c) /\ ~UpgradeRuns(c)
    /\ \A s \in PlanOf[t].scope : db.stores[s] # Absent
    /\ LET made == [World EXCEPT !.tx[t].plan = [mode |-> PlanOf[t].mode, scope |-> PlanOf[t].scope, connection |-> c],
                             !.tx[t].state = "Active"]
       IN Acts(RealmOf[t], RunScript(Schedule(made, t), t, script))

\* db.close()
Close(c) == Has(c) /\ Acts(RealmOf[c], RequestClose(World, c))

\* tx.abort(), from a script of the page's that is no listener of it.
Abort(t) == tx[t].state = "Inactive" /\ Acts(RealmOf[t], AbortTransaction(World, t))

\* ~IdbRealm: its transactions are undone, its connections close, its requests
\* leave the queue.
DropTransactions(w, es) ==
    LET upto[n \in 0..Len(es)] ==
            IF n = 0 THEN w ELSE Finish(Reverted(upto[n - 1], es[n].id), es[n].id)
    IN upto[Len(es)]
CloseAll(w, cs) ==
    LET upto[n \in 0..Len(cs)] == IF n = 0 THEN w ELSE RequestClose(upto[n - 1], cs[n])
    IN upto[Len(cs)]
DequeueAll(w, rs) ==
    LET upto[n \in 0..Len(rs)] == IF n = 0 THEN w ELSE Dequeue(upto[n - 1], rs[n])
    IN upto[Len(rs)]

Pending == {"Inactive", "Committing", "Finished"}
EndRealm(p) ==
    LET Mine(S) == {id \in S : RealmOf[id] = p}
        gone == [World EXCEPT
            !.req = [r \in Requests |-> IF r \in Mine(Requests) THEN "ended" ELSE @[r]],
            !.tx = [t \in Transactions |-> IF @[t].state \in Pending /\ t \in Mine(Transactions)
                                           THEN [@[t] EXCEPT !.state = "ended"] ELSE @[t]]]
        undone == DropTransactions(gone, Only(scheduled, {e \in ToSet(scheduled) : RealmOf[e.id] = p}))
        closed == CloseAll(undone, SetToSeq({c \in Mine(Opens) : conns[c].open}))
        left == DequeueAll(closed, Only(queue, Mine(Requests)))
    IN /\ p \in alive /\ alive' = alive \ {p}
       /\ tasks' = [th \in Threads |-> Only(tasks[th], {k \in ToSet(tasks[th]) : RealmOf[k.id] # p})]
       /\ Become(left, ThreadOf[p])

Next ==
    \/ \E th \in Threads : RunPending(th) \/ RunTask(th)
    \/ \E r \in Requests : FactoryOpen(r)
    \/ \E t \in Made, c \in Opens : \E script \in Scripts(PlanOf[t], MaxOps[t]) :
          script.end # "abort" /\ Transact(t, c, script)   \* (which Abort does as well)
    \/ \E c \in Opens : Close(c)
    \/ \E t \in Transactions : Abort(t)
    \/ \E p \in Realms : EndRealm(p)

\* The event loops run; the pages need not do anything.  Written out, this is
\* WF_vars(RunPending(th) \/ RunTask(th)): the loop can go on as long as something
\* is due, and only its steps (and the end of a realm, once) change tasks[th].
Fairness == \A th \in Threads :
    []<>(tasks[th] \o later[th] \o remote[th] = <<>>) \/ []<><<tasks'[th] # tasks[th]>>_vars
Spec == Init /\ [][Next]_vars /\ Fairness

-----------------------------------------------------------------------------
\* Properties.

Ids == {scheduled[i].id : i \in DOMAIN scheduled}
Running == {scheduled[i].id : i \in {j \in DOMAIN scheduled : scheduled[j].started}}

\* The storage and the realms count alike: a connection's unfinished ones are
\* those in the schedule, it is closed only without any, and whoever a realm
\* holds unfinished is in the schedule (schedule, finish, close_if_done).
TypeOK ==
    /\ db.version \in Nat /\ DOMAIN db.stores = Stores
    /\ IsInjective(queue) /\ \A i \in DOMAIN queue : queue[i] \in begun => i = 1
    /\ watchers \subseteq {r \in begun : req[r] = "waiting"}
    /\ \A i, j \in DOMAIN scheduled : scheduled[i].id = scheduled[j].id => i = j
    /\ \A c \in Opens :
         /\ conns[c].unfinished = Cardinality({i \in DOMAIN scheduled : scheduled[i].connection = c})
         /\ conns[c].unfinished > 0 => conns[c].open
         /\ conns[c].closePending /\ conns[c].unfinished = 0 => ~conns[c].open
    /\ Ids = {t \in Transactions : tx[t].state \in {"Inactive", "Committing"}}

\* While an upgrade runs nobody else is in the database: its connection is the
\* only one open, it is the only transaction, its request is still at the front.
\* So a page that uses its connection is never passed by: the database is of the
\* version the connection was opened to (when_others_closed, run_upgrade,
\* run_delete).
NobodyIsPassedBy ==
    /\ \A t \in Opens : t \in Ids =>
         /\ Ids = {t} /\ queue[1] = t
         /\ \A c \in Opens : conns[c].open => c = t
    /\ \A c \in Opens : conns[c].open /\ (req[c] = "success" \/ UpgradeRuns(c))
         => conns[c].version = db.version

\* From its start to its end a transaction sees each of its stores change by
\* nobody else's hand (start_ready, scopes_overlap).
Isolated ==
    [][\A i \in DOMAIN scheduled : LET e == scheduled[i] IN
        \A s \in e.scope : e.started /\ db'.stores[s] # db.stores[s]
            => e.id \notin Ids' \/ db'.stores[s][1] = e.id]_vars

\* What a transaction has changed, and the database as it would be if nothing
\* unfinished had happened.
Touched(t) ==
    IF t \notin Ids THEN {}
    ELSE IF t \in Opens THEN {"version"} \cup {s \in Stores : db.stores[s] # tx[t].saved.stores[s]}
    ELSE {tx[t].undo[i].store : i \in DOMAIN tx[t].undo}
FirstWas(t, s) ==
    LET undo == tx[t].undo
        first == CHOOSE i \in DOMAIN undo :
                    undo[i].store = s /\ \A j \in 1..(i - 1) : undo[j].store # s
    IN undo[first].was
PartsOf(d) == [x \in Stores \cup {"version"} |-> IF x = "version" THEN d.version ELSE d.stores[x]]
Uncommitted ==
    IF \E t \in Opens : t \in Ids THEN PartsOf(tx[CHOOSE t \in Opens : t \in Ids].saved)
    ELSE [x \in Stores \cup {"version"} |->
            IF \E t \in Ids : x \in Touched(t) THEN FirstWas(CHOOSE t \in Ids : x \in Touched(t), x)
            ELSE PartsOf(db)[x]]

Atomic == INSTANCE AtomicDatabase WITH
    Parts <- Stores \cup {"version"},
    Nothing <- PartsOf(Nothing),
    committed <- Uncommitted,
    work <- [t \in Transactions |-> [x \in Touched(t) |-> PartsOf(db)[x]]],
    told <- [t \in Transactions |-> IF tx[t].state \in {"complete", "abort"} THEN tx[t].state ELSE "nothing"]

\* Whatever pages do and whichever realms end, a transaction's changes are all
\* made or none (finish_commit, abort_transaction, ~IdbRealm).
KeepsPromise == Atomic!Spec

\* Somebody in the database will not leave it, though a request waits.
HeldOut == \E c \in Opens : RealmOf[c] \in alive /\ conns[c].open /\ ~conns[c].closePending
                              /\ \E q \in ToSet(queue) : q = queue[1] /\ c # q

\* A transaction ends by itself, and a request is answered unless a page keeps
\* its connection open, whoever waited for whom and whichever realm has ended:
\* every time some wait, a time comes when none do (enqueue, dequeue,
\* close_watchers, start_ready, pump).
EverybodyGoesOn ==
    []<>( /\ \A t \in Transactions : tx[t].state \notin Pending
          /\ \A r \in Requests : req[r] \in {"queued", "waiting", "upgrading"} => HeldOut )

\* With nothing unfinished, the file holds the database (persist, "What it had
\* not committed is undone").
FileIsTheDatabase == scheduled = <<>> => file = db
=============================================================================
