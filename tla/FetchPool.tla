----------------------------- MODULE FetchPool -----------------------------
(***************************************************************************)
(* net/FetchPool: pieces of work carried out on threads started as they    *)
(* are needed, each answered through a FetchTicket that gives its result   *)
(* once.  Every step is what one thread does between taking and releasing  *)
(* one lock (the pool's or a ticket's), or a notify made outside them, so  *)
(* that a wake-up sent to nobody is lost, as the C++ condition variable    *)
(* loses it.                                                               *)
(***************************************************************************)
EXTENDS Naturals, Sequences, FiniteSets

CONSTANTS
    Jobs,       \* the pieces of work a session may submit
    Limit,      \* m_thread_limit, after the constructor made it positive
    Takers,     \* threads that call FetchTicket::take
    None        \* no job

ASSUME LimitAssumption == Limit \in Nat \ {0}
ASSUME NoneAssumption == None \notin Jobs
ASSUME JobsAssumption == IsFiniteSet(Jobs)

VARIABLES
    queue,        \* m_queue: jobs not yet begun, oldest first
    threads,      \* m_threads.size(): threads 1..threads have been started
    waiting,      \* m_waiting, as counted in run()
    outstanding,  \* m_outstanding
    stopping,     \* m_stopping
    pc,           \* where each thread is in run()
    job,          \* the Job a thread has popped
    toNotify,     \* submits that have let go of the lock and not yet notified
    done,         \* m_done of each ticket
    result,       \* m_result of each ticket: nothing, an answer or an error
    dropped,      \* the destructor's list of jobs that never began
    dtor,         \* where the owner is in ~FetchPool
    taker,        \* where each taker is in take(), and on which ticket
    wake          \* m_wake was called and the loop has not looked since

poolVars == <<queue, threads, waiting, outstanding, stopping, pc, job, toNotify>>
ticketVars == <<done, result>>
vars == <<poolVars, ticketVars, dropped, dtor, taker, wake>>

Threads == 1..Limit

At(state) == {w \in Threads : pc[w] = state}
Asleep == At("asleep")
Arriving == At("start") \cup At("woken")      \* will look at the queue next
Busy == At("working") \cup At("answered") \cup At("ended")

Submitted == {j \in Jobs : result[j] # "unasked"}

TypeOK ==
    /\ queue \in Seq(Jobs)
    /\ threads \in 0..Limit
    /\ waiting \in Nat
    /\ outstanding \in Nat
    /\ stopping \in BOOLEAN
    /\ pc \in [Threads -> {"unstarted", "start", "asleep", "woken", "working",
                           "answered", "ended", "counted", "exited"}]
    /\ job \in [Threads -> Jobs \cup {None}]
    /\ toNotify \in SUBSET Jobs
    /\ done \in [Jobs -> BOOLEAN]
    /\ result \in [Jobs -> {"unasked", "none", "answer", "error"}]
    /\ dropped \in Seq(Jobs)
    /\ dtor \in {"up", "notifying", "answering", "gone"}
    /\ taker \in [Takers -> [at : {"idle", "asleep", "woken", "got", "empty"},
                             ticket : Jobs \cup {None}]]
    /\ wake \in BOOLEAN

Init ==
    /\ queue = <<>> /\ dropped = <<>>
    /\ threads = 0 /\ waiting = 0 /\ outstanding = 0
    /\ stopping = FALSE /\ dtor = "up"
    /\ pc = [w \in Threads |-> "unstarted"]
    /\ job = [w \in Threads |-> None]
    /\ toNotify = {}
    /\ done = [j \in Jobs |-> FALSE]
    /\ result = [j \in Jobs |-> "unasked"]
    /\ taker = [t \in Takers |-> [at |-> "idle", ticket |-> None]]
    /\ wake = FALSE

-----------------------------------------------------------------------------
\* submit(): the job joins the queue, and a thread is started when there is
\* more work waiting than threads waiting for work.

NeedsThreadIfNobodyIdle == waiting = 0 /\ threads < Limit   \* slip: "is anyone idle"
NeedsThread == Len(queue) + 1 > waiting /\ threads < Limit

AnnouncedIfThreadStarted(j) ==                              \* slip: only with a new thread
    IF NeedsThread THEN toNotify \cup {j} ELSE toNotify
Announced(j) == toNotify \cup {j}

Submit(j) ==
    /\ dtor = "up" /\ result[j] = "unasked"
    /\ queue' = Append(queue, j)
    /\ outstanding' = outstanding + 1
    /\ result' = [result EXCEPT ![j] = "none"]
    /\ IF NeedsThread
         THEN /\ threads' = threads + 1
              /\ pc' = [pc EXCEPT ![threads + 1] = "start"]
         ELSE UNCHANGED <<threads, pc>>
    /\ toNotify' = Announced(j)
    /\ UNCHANGED <<waiting, stopping, job, done, dropped, dtor, taker, wake>>

\* m_work_arrived.notify_one(), after the lock: one sleeper, if there is one.
NotifyOne(j) ==
    /\ j \in toNotify
    /\ toNotify' = toNotify \ {j}
    /\ \/ \E w \in Asleep : pc' = [pc EXCEPT ![w] = "woken"]
       \/ Asleep = {} /\ UNCHANGED pc
    /\ UNCHANGED <<queue, threads, waiting, outstanding, stopping, job,
                   ticketVars, dropped, dtor, taker, wake>>

-----------------------------------------------------------------------------
\* run(), with m_mutex held.  m_waiting counts a thread from its first look
\* at an empty queue until the look that finds work or the end.

WorkOrEnd == stopping \/ queue # <<>>

Pop(w) ==
    IF queue = <<>>
      THEN /\ pc' = [pc EXCEPT ![w] = "exited"]
           /\ UNCHANGED <<queue, job>>
      ELSE /\ pc' = [pc EXCEPT ![w] = "working"]
           /\ job' = [job EXCEPT ![w] = Head(queue)]
           /\ queue' = Tail(queue)

WaitNotOver == waiting                                      \* slip: still counted
WaitOver == waiting - 1

Arrive(w) ==
    /\ pc[w] = "start"
    /\ IF WorkOrEnd
         THEN Pop(w) /\ UNCHANGED waiting
         ELSE /\ pc' = [pc EXCEPT ![w] = "asleep"]
              /\ waiting' = waiting + 1
              /\ UNCHANGED <<queue, job>>
    /\ UNCHANGED <<threads, outstanding, stopping, toNotify, ticketVars, dropped,
                   dtor, taker, wake>>

LookAgain(w) ==
    /\ pc[w] = "woken"
    /\ IF WorkOrEnd
         THEN Pop(w) /\ waiting' = WaitOver
         ELSE /\ pc' = [pc EXCEPT ![w] = "asleep"]
              /\ UNCHANGED <<queue, job, waiting>>
    /\ UNCHANGED <<threads, outstanding, stopping, toNotify, ticketVars, dropped,
                   dtor, taker, wake>>

\* A condition variable may wake a thread nobody notified.
WakeSpuriously(w) ==
    /\ pc[w] = "asleep"
    /\ pc' = [pc EXCEPT ![w] = "woken"]
    /\ UNCHANGED <<queue, threads, waiting, outstanding, stopping, job, toNotify,
                   ticketVars, dropped, dtor, taker, wake>>

\* job.work() has returned: its ticket is answered under the ticket's lock.
Answer(w) ==
    /\ pc[w] = "working"
    /\ pc' = [pc EXCEPT ![w] = "answered"]
    /\ done' = [done EXCEPT ![job[w]] = TRUE]
    /\ result' = [result EXCEPT ![job[w]] = "answer"]
    /\ UNCHANGED <<queue, threads, waiting, outstanding, stopping, job, toNotify,
                   dropped, dtor, taker, wake>>

Woken(j) == [t \in Takers |->
                IF taker[t].at = "asleep" /\ taker[t].ticket = j
                  THEN [taker[t] EXCEPT !.at = "woken"] ELSE taker[t]]

\* ticket->m_ended.notify_all()
NotifyTicket(w) ==
    /\ pc[w] = "answered"
    /\ pc' = [pc EXCEPT ![w] = "ended"]
    /\ taker' = Woken(job[w])
    /\ UNCHANGED <<queue, threads, waiting, outstanding, stopping, job, toNotify,
                   ticketVars, dropped, dtor, wake>>

Discount(w) ==
    /\ pc[w] = "ended"
    /\ pc' = [pc EXCEPT ![w] = "counted"]
    /\ outstanding' = outstanding - 1
    /\ UNCHANGED <<queue, threads, waiting, stopping, job, toNotify, ticketVars,
                   dropped, dtor, taker, wake>>

WokenOnLast == wake \/ outstanding = 0                      \* slip: woken when all is done
WokenAnew == TRUE

\* m_wake(), and back to the top of the loop.
CallWake(w) ==
    /\ pc[w] = "counted"
    /\ pc' = [pc EXCEPT ![w] = "start"]
    /\ job' = [job EXCEPT ![w] = None]
    /\ wake' = WokenAnew
    /\ UNCHANGED <<queue, threads, waiting, outstanding, stopping, toNotify,
                   ticketVars, dropped, dtor, taker>>

-----------------------------------------------------------------------------
\* ~FetchPool.  Its owner is the thread that submits, so no submit is under way.

LeftOutstanding == outstanding - Len(queue)
LeftQueuedAll == queue                                      \* slip: copied, not swapped
LeftQueued == <<>>

Stop ==
    /\ dtor = "up" /\ toNotify = {}
    /\ dtor' = "notifying"
    /\ stopping' = TRUE
    /\ dropped' = queue
    /\ queue' = LeftQueued
    /\ outstanding' = LeftOutstanding
    /\ UNCHANGED <<threads, waiting, pc, job, toNotify, ticketVars, taker, wake>>

RousedNobody == pc                                          \* slip: no notify_all
Roused == [w \in Threads |-> IF pc[w] = "asleep" THEN "woken" ELSE pc[w]]

NotifyAll ==
    /\ dtor = "notifying"
    /\ dtor' = "answering"
    /\ pc' = Roused
    /\ UNCHANGED <<queue, threads, waiting, outstanding, stopping, job, toNotify,
                   ticketVars, dropped, taker, wake>>

AnswerDropped ==
    /\ dtor = "answering" /\ dropped # <<>>
    /\ done' = [done EXCEPT ![Head(dropped)] = TRUE]
    /\ result' = [result EXCEPT ![Head(dropped)] = "error"]
    /\ taker' = Woken(Head(dropped))
    /\ dropped' = Tail(dropped)
    /\ UNCHANGED <<poolVars, dtor, wake>>

JoinedStarted == \A w \in Threads : pc[w] # "start"         \* slip: running threads let go
Joined == \A w \in Threads : pc[w] \in {"unstarted", "exited"}

Join ==
    /\ dtor = "answering" /\ dropped = <<>>
    /\ Joined
    /\ dtor' = "gone"
    /\ UNCHANGED <<poolVars, ticketVars, dropped, taker, wake>>

-----------------------------------------------------------------------------
\* FetchTicket::take(), with the ticket's lock held.

HandedStays(j) == result                                    \* slip: copied, not moved out
Handed(j) == [result EXCEPT ![j] = "none"]

TakeNow(t, j) ==
    IF done[j]
      THEN /\ taker' = [taker EXCEPT ![t] =
                 [at |-> IF result[j] = "none" THEN "empty" ELSE "got", ticket |-> j]]
           /\ result' = Handed(j)
      ELSE /\ taker' = [taker EXCEPT ![t] = [at |-> "asleep", ticket |-> j]]
           /\ UNCHANGED result

Take(t, j) ==
    /\ taker[t].at = "idle" /\ j \in Submitted
    /\ TakeNow(t, j)
    /\ UNCHANGED <<poolVars, done, dropped, dtor, wake>>

TakeAgain(t) ==
    /\ taker[t].at = "woken"
    /\ TakeNow(t, taker[t].ticket)
    /\ UNCHANGED <<poolVars, done, dropped, dtor, wake>>

\* The loop set_on_done's waker wakes: it comes round and looks at its tickets.
LoopTurn ==
    /\ wake
    /\ wake' = FALSE
    /\ UNCHANGED <<poolVars, ticketVars, dropped, dtor, taker>>

\* Nothing is left to do: the pool is gone and every taker has its answer.
Over ==
    /\ dtor = "gone"
    /\ \A t \in Takers : taker[t].at \notin {"asleep", "woken"}
    /\ UNCHANGED vars

WorkerStep(w) ==
    \/ Arrive(w) \/ LookAgain(w)
    \/ Answer(w) \/ NotifyTicket(w) \/ Discount(w) \/ CallWake(w)

Next ==
    \/ \E j \in Jobs : Submit(j) \/ NotifyOne(j)
    \/ \E w \in Threads : WorkerStep(w) \/ WakeSpuriously(w)
    \/ Stop \/ NotifyAll \/ AnswerDropped \/ Join
    \/ \E t \in Takers : (\E j \in Jobs : Take(t, j)) \/ TakeAgain(t)
    \/ LoopTurn
    \/ Over

\* Every thread that can run does; work() returns because every socket call
\* it makes has a timeout.  Nobody is obliged to submit, take or destroy, and
\* no spurious wake-up is promised.
Fairness ==
    /\ \A j \in Jobs : WF_vars(NotifyOne(j))
    /\ \A w \in Threads : WF_vars(WorkerStep(w))
    /\ WF_vars(NotifyAll) /\ WF_vars(AnswerDropped) /\ WF_vars(Join)
    /\ \A t \in Takers : WF_vars(TakeAgain(t))

Spec == Init /\ [][Next]_vars /\ Fairness

-----------------------------------------------------------------------------
\* Properties.

\* The two counters, however the submits, the endings and the destructor's
\* dropping of the queue interleave: m_outstanding is "fetches asked for and not
\* yet ended", m_waiting "threads in run()'s wait, woken or not", which is what
\* submit() compares the queue with.
CountsAreExact ==
    /\ outstanding = Len(queue) + Cardinality(Busy)
    /\ waiting = Cardinality(Asleep \cup At("woken"))

\* While another thread may still be started, there is a thread without work
\* for every queued job: no job waits behind another job's work (the comment
\* in submit(): counted against the queue, not against "is anyone idle").
WorkIsSpread == threads < Limit => Len(queue) <= Cardinality(Arriving \cup Asleep)

\* No thread sleeps over work: if one is asleep, each queued job has a thread
\* on its way to the queue or a notify_one not yet delivered.
NobodySleepsOverWork ==
    Asleep # {} => Len(queue) <= Cardinality(Arriving) + Cardinality(toNotify)

\* "The answer is a ticket [...] taken once": a result is handed to at most one
\* taker, a taker without one comes after a taker with one, and no result is
\* handed over before the work (or the destructor) has answered.
TakenOnce ==
    \A j \in Jobs :
        LET got == {t \in Takers : taker[t] = [at |-> "got", ticket |-> j]} IN
          /\ Cardinality(got) <= 1
          /\ got # {} => done[j] /\ result[j] = "none"
          /\ (\E t \in Takers : taker[t] = [at |-> "empty", ticket |-> j]) => got # {}

\* Every submitted job is in exactly one place, so none is lost or run twice:
\* queued, held by one thread, dropped by the destructor, or answered.
NoJobLost ==
    \A j \in Submitted :
        LET places == {<<"queue", i>> : i \in {k \in 1..Len(queue) : queue[k] = j}}
                 \cup {<<"thread", w>> : w \in {v \in At("working") : job[v] = j}}
                 \cup {<<"dropped", i>> : i \in {k \in 1..Len(dropped) : dropped[k] = j}}
        IN  Cardinality(places) = (IF done[j] THEN 0 ELSE 1)

\* Once a ticket is answered and its thread is through, the loop has been woken
\* since: a job's thread never goes back to the queue with the loop still to
\* hear of it.  (m_wake comes after m_done and after m_outstanding.)
WokenAfterAnswer ==
    [][\A j \in Jobs : \A w \in Threads :
        job[w] = j /\ job'[w] # j => done[j] /\ wake']_vars

\* The destructor's promise: once the pool is gone every ticket is answered,
\* with an error if its job never began.
GoneMeansAnswered ==
    dtor = "gone" => \A j \in Submitted : done[j]

\* The pool keeps the promise of Tickets: whatever its threads do, each ticket
\* goes from asked to ended to taken, and every asked one ends, whether the pool
\* is destroyed or not.
TicketState == [j \in Jobs |->
    IF result[j] = "unasked" THEN "unasked"
    ELSE IF ~done[j] THEN "asked"
    ELSE IF result[j] = "none" THEN "taken"
    ELSE result[j]]
Promise == INSTANCE Tickets WITH state <- TicketState
KeepsPromise == Promise!Spec

\* Nobody who asked for a result waits forever, and ~FetchPool returns: no thread
\* sleeps through the end.
EverybodyReturns ==
    /\ \A t \in Takers : taker[t].at = "asleep" ~> taker[t].at \in {"got", "empty"}
    /\ dtor = "notifying" ~> dtor = "gone"
=============================================================================
