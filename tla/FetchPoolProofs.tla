--------------------------- MODULE FetchPoolProofs ---------------------------
(***************************************************************************)
(* Proofs about FetchPool, for any number of jobs, threads and takers: a   *)
(* submitted job is in exactly one place until it is answered, a result is *)
(* given once, a pool that is gone has answered everything, and every step *)
(* of it is one that Tickets allows.                                        *)
(***************************************************************************)
EXTENDS FetchPool, FiniteSetTheorems, TLAPS

Rng(s) == {s[i] : i \in 1..Len(s)}
Once(s) == \A i, k \in 1..Len(s) : s[i] = s[k] => i = k
Working == At("working")

Types ==
    /\ queue \in Seq(Jobs) /\ dropped \in Seq(Jobs)
    /\ threads \in 0..Limit
    /\ pc \in [Threads -> {"unstarted", "start", "asleep", "woken", "working",
                           "answered", "ended", "counted", "exited"}]
    /\ job \in [Threads -> Jobs \cup {None}]
    /\ done \in [Jobs -> BOOLEAN]
    /\ result \in [Jobs -> {"unasked", "none", "answer", "error"}]
    /\ taker \in [Takers -> [at : {"idle", "asleep", "woken", "got", "empty"},
                             ticket : Jobs \cup {None}]]

\* Where a job may be, and that it is in one place as long as it is owed an answer.
Queued(j) == j \in Rng(queue)
Dropped(j) == j \in Rng(dropped)
AtWork(j) == \E w \in Working : job[w] = j
Placed(j) ==
    /\ Queued(j) => ~Dropped(j) /\ ~AtWork(j)
    /\ Dropped(j) => ~AtWork(j)
    /\ result[j] # "unasked" /\ ~done[j] <=> Queued(j) \/ Dropped(j) \/ AtWork(j)
Places ==
    /\ Once(queue) /\ Once(dropped)
    /\ \A v, w \in Working : job[v] = job[w] => v = w
    /\ \A w \in Working : job[w] \in Jobs
    /\ \A j \in Jobs : Placed(j)

\* A result is there only once the ticket is done.
Results ==
    \A j \in Jobs :
        /\ done[j] => result[j] # "unasked"
        /\ ~done[j] => result[j] \in {"unasked", "none"}

\* The destructor: its list is empty before, the queue after.
Phases ==
    /\ dtor = "up" => dropped = <<>>
    /\ dtor # "up" => queue = <<>>
    /\ dtor = "gone" => dropped = <<>> /\ \A w \in Threads : pc[w] \in {"unstarted", "exited"}

\* submit() starts a thread that has not been.
Unstarted == \A w \in Threads : w > threads => pc[w] = "unstarted"

\* Who waits in take() waits on a ticket somebody asked for.
Asking == \A t \in Takers : taker[t].at \in {"asleep", "woken"} => taker[t].ticket \in Submitted

\* The invariant of the pool itself, whoever takes the results: a job is answered
\* once because it is in one place.
Core == Types /\ Places /\ Results /\ Phases /\ Unstarted /\ Asking

Got(t, j) == taker[t].at = "got" /\ taker[t].ticket = j
Takings ==
    /\ \A t \in Takers :
         taker[t].at \in {"got", "empty"} =>
            taker[t].ticket \in Jobs /\ done[taker[t].ticket] /\ result[taker[t].ticket] = "none"
    /\ \A t, u \in Takers, j \in Jobs : Got(t, j) /\ Got(u, j) => t = u
    /\ \A j \in Jobs : done[j] /\ result[j] = "none" => \E t \in Takers : Got(t, j)

\* The inductive invariant: a result is given once because a job is answered
\* once and nobody but the takers of its ticket takes it.
IInv == Core /\ Takings

-----------------------------------------------------------------------------
\* Queues whose elements are distinct.
LEMMA AppendOnce ==
    ASSUME NEW S, NEW s \in Seq(S), NEW e \in S, Once(s), e \notin Rng(s)
    PROVE  Append(s, e) \in Seq(S) /\ Once(Append(s, e)) /\ Rng(Append(s, e)) = Rng(s) \cup {e}
<1> DEFINE t == Append(s, e)
<1>1. /\ t \in Seq(S) /\ Len(s) \in Nat /\ Len(t) = Len(s) + 1 /\ t[Len(s) + 1] = e
      /\ \A i \in 1..Len(s) : t[i] = s[i]
  OBVIOUS
<1> HIDE DEF t
<1>2. \A i \in 1..Len(t) : i \in 1..Len(s) \/ i = Len(s) + 1
  BY <1>1
<1>3. Once(t)
  BY <1>1, <1>2 DEF Once, Rng
<1>4. Rng(t) = Rng(s) \cup {e}
  <2>1. ASSUME NEW x \in Rng(t) PROVE x \in Rng(s) \cup {e}
    BY <1>1, <1>2, <2>1 DEF Rng
  <2>2. ASSUME NEW x \in Rng(s) \cup {e} PROVE x \in Rng(t)
    <3>1. CASE x = e
      <4>1. Len(s) + 1 \in 1..Len(t)
        BY <1>1
      <4>2. QED
        BY <1>1, <3>1, <4>1 DEF Rng
    <3>2. CASE x \in Rng(s)
      <4>1. PICK i \in 1..Len(s) : x = s[i]
        BY <3>2 DEF Rng
      <4>2. i \in 1..Len(t)
        BY <1>1
      <4>3. QED
        BY <1>1, <4>1, <4>2 DEF Rng
    <3>3. QED
      BY <2>2, <3>1, <3>2
  <2>3. QED
    BY <2>1, <2>2
<1>5. QED
  BY <1>1, <1>3, <1>4 DEF t

LEMMA TailOnce ==
    ASSUME NEW S, NEW s \in Seq(S), Once(s), s # <<>>
    PROVE  /\ Head(s) \in S /\ Head(s) \in Rng(s)
           /\ Tail(s) \in Seq(S) /\ Once(Tail(s)) /\ Rng(Tail(s)) = Rng(s) \ {Head(s)}
<1> DEFINE t == Tail(s)
<1>1. /\ t \in Seq(S) /\ Len(s) \in Nat \ {0} /\ Len(t) = Len(s) - 1
      /\ \A i \in 1..Len(t) : t[i] = s[i + 1]
      /\ Head(s) = s[1] /\ s[1] \in S
  OBVIOUS
<1> HIDE DEF t
<1>2. \A i \in 1..Len(t) : i + 1 \in 1..Len(s) /\ i + 1 # 1
  BY <1>1
<1>3. \A k \in 1..Len(s) : k = 1 \/ (k - 1 \in 1..Len(t) /\ (k - 1) + 1 = k)
  BY <1>1
<1>4. Once(t)
  <2> SUFFICES ASSUME NEW i \in 1..Len(t), NEW k \in 1..Len(t), t[i] = t[k] PROVE i = k
    BY DEF Once
  <2>1. s[i + 1] = s[k + 1] /\ i + 1 \in 1..Len(s) /\ k + 1 \in 1..Len(s)
    BY <1>1, <1>2
  <2>2. i + 1 = k + 1
    BY <2>1 DEF Once
  <2>3. QED
    BY <2>2
<1>5. 1 \in 1..Len(s)
  BY <1>1
<1>6. Rng(t) = Rng(s) \ {s[1]}
  <2>1. ASSUME NEW x \in Rng(t) PROVE x \in Rng(s) /\ x # s[1]
    <3>1. PICK i \in 1..Len(t) : x = t[i]
      BY <2>1 DEF Rng
    <3>2. x = s[i + 1] /\ i + 1 \in 1..Len(s) /\ i + 1 # 1
      BY <1>1, <1>2, <3>1
    <3>3. QED
      BY <1>5, <3>2 DEF Rng, Once
  <2>2. ASSUME NEW x \in Rng(s), x # s[1] PROVE x \in Rng(t)
    <3>1. PICK k \in 1..Len(s) : x = s[k]
      BY <2>2 DEF Rng
    <3>2. k - 1 \in 1..Len(t) /\ t[k - 1] = s[k]
      BY <1>1, <1>3, <2>2, <3>1
    <3>3. QED
      BY <3>1, <3>2 DEF Rng
  <2>3. QED
    BY <2>1, <2>2
<1>7. Head(s) \in Rng(s)
  BY <1>1, <1>5 DEF Rng
<1>8. QED
  BY <1>1, <1>4, <1>6, <1>7 DEF t

-----------------------------------------------------------------------------
\* Steps that leave the jobs where they are.
LEMMA StayPlaced ==
    ASSUME Core, queue' = queue, dropped' = dropped, done' = done,
           \A j \in Jobs : result'[j] = "unasked" <=> result[j] = "unasked",
           Working' = Working, \A w \in Working : job'[w] = job[w]
    PROVE  Places'
<1>1. Places
  BY DEF Core
<1>2. ASSUME NEW j \in Jobs PROVE Placed(j)'
  BY <1>1, <1>2 DEF Places, Placed, Queued, Dropped, AtWork
<1>3. QED
  BY <1>1, <1>2 DEF Places

LEMMA EmptyIs ==
    ASSUME NEW S
    PROVE  << >> \in Seq(S) /\ Rng(<< >>) = {} /\ Once(<< >>)
  BY DEF Rng, Once

\* ... and move threads between states in which they have no job to do.
LEMMA MoveKeeps ==
    ASSUME Core, UNCHANGED <<queue, threads, ticketVars, dropped, taker>>,
           Types', \A w \in Threads : (pc[w] = "working" <=> pc'[w] = "working"),
           \A w \in Working : job'[w] = job[w],
           \A w \in Threads : pc[w] \in {"unstarted", "exited"} => pc'[w] = pc[w],
           dtor' = dtor
    PROVE  Core'
<1>1. Places'
  BY StayPlaced DEF Working, At, ticketVars
<1>2. Results' /\ Unstarted' /\ Asking'
  <2>1. Results /\ Unstarted /\ Asking
    BY DEF Core
  <2>2. QED
    BY <2>1 DEF Results, Unstarted, Asking, Submitted, ticketVars
<1>3. Phases'
  BY DEF Core, Phases
<1>4. QED
  BY <1>1, <1>2, <1>3 DEF Core

\* submit()
LEMMA SubmitKeeps ==
    ASSUME Core, NEW j \in Jobs, Submit(j)
    PROVE  Core'
<1>0. Types /\ Places /\ Results /\ Phases /\ Unstarted /\ Asking /\ Limit \in Nat
  BY LimitAssumption DEF Core
<1>1. /\ dtor = "up" /\ result[j] = "unasked" /\ ~done[j]
      /\ queue' = Append(queue, j) /\ result' = [result EXCEPT ![j] = "none"]
      /\ UNCHANGED <<job, done, dropped, dtor, taker>>
  BY <1>0 DEF Submit, Results
<1>2. ~Queued(j) /\ ~Dropped(j) /\ ~AtWork(j)
  BY <1>0, <1>1 DEF Places, Placed
<1>3. queue' \in Seq(Jobs) /\ Once(queue') /\ Rng(queue') = Rng(queue) \cup {j}
  BY <1>0, <1>1, <1>2, AppendOnce DEF Types, Places, Queued
<1>4. /\ threads' \in 0..Limit
      /\ \/ threads' = threads /\ pc' = pc
         \/ threads' = threads + 1 /\ pc' = [pc EXCEPT ![threads + 1] = "start"] /\ threads + 1 \in Threads
  <2>1. threads \in 0..Limit
    BY <1>0 DEF Types
  <2>2. \/ threads' = threads /\ pc' = pc
        \/ threads < Limit /\ threads' = threads + 1 /\ pc' = [pc EXCEPT ![threads + 1] = "start"]
    BY DEF Submit, NeedsThread
  <2>3. QED
    BY <1>0, <2>1, <2>2 DEF Threads
<1>5. threads \in Nat /\ (threads' = threads + 1 => pc[threads + 1] = "unstarted")
  BY <1>0, <1>4 DEF Types, Unstarted
<1>6. Types'
  BY <1>0, <1>1, <1>3, <1>4 DEF Types
<1>7. Working' = Working
  BY <1>0, <1>4, <1>5 DEF Types, Working, At
<1>8. Places'
  <2>1. ASSUME NEW i \in Jobs PROVE Placed(i)'
    <3>1. AtWork(i)' <=> AtWork(i)
      BY <1>1, <1>7 DEF AtWork
    <3>2. (Queued(i)' <=> Queued(i) \/ i = j) /\ (Dropped(i)' <=> Dropped(i))
      BY <1>1, <1>3 DEF Queued, Dropped
    <3>3. result'[i] = IF i = j THEN "none" ELSE result[i]
      BY <1>0, <1>1 DEF Types
    <3>4. QED
      BY <1>0, <1>1, <1>2, <3>1, <3>2, <3>3 DEF Places, Placed
  <2>2. QED
    BY <1>0, <1>1, <1>3, <1>7, <2>1 DEF Places
<1>9. Results' /\ Phases'
  BY <1>0, <1>1 DEF Types, Results, Phases
<1>10. Unstarted'
  <2>1. CASE threads' = threads /\ pc' = pc
    BY <1>0, <2>1 DEF Unstarted
  <2>2. CASE threads' = threads + 1 /\ pc' = [pc EXCEPT ![threads + 1] = "start"] /\ threads + 1 \in Threads
    <3> SUFFICES ASSUME NEW w \in Threads, w > threads + 1 PROVE pc'[w] = "unstarted"
      BY <2>2 DEF Unstarted
    <3>1. w \in Nat /\ w > threads /\ w # threads + 1
      BY <1>0, <1>5 DEF Threads
    <3>2. QED
      BY <1>0, <2>2, <3>1 DEF Unstarted, Types
  <2>3. QED
    BY <1>4, <2>1, <2>2
<1>11. Asking'
  BY <1>0, <1>1 DEF Types, Asking, Submitted
<1>12. QED
  BY <1>6, <1>8, <1>9, <1>10, <1>11 DEF Core

\* run() with the lock: a thread that finds work takes the oldest job.
LEMMA PopKeeps ==
    ASSUME Core, NEW w \in Threads, pc[w] \in {"start", "woken"}, Pop(w),
           UNCHANGED <<threads, ticketVars, dropped, dtor, taker>>
    PROVE  Core'
<1>0. Types /\ Places /\ Results /\ Phases /\ Unstarted /\ Asking
  BY DEF Core
<1>1. CASE queue = <<>>
  <2>1. pc' = [pc EXCEPT ![w] = "exited"] /\ UNCHANGED <<queue, job>>
    BY <1>1 DEF Pop
  <2>2. Types'
    BY <1>0, <2>1 DEF Types, ticketVars
  <2>3. /\ \A v \in Threads : pc[v] = "working" <=> pc'[v] = "working"
        /\ \A v \in Threads : pc[v] \in {"unstarted", "exited"} => pc'[v] = pc[v]
    BY <1>0, <2>1 DEF Types
  <2>4. QED
    BY <2>1, <2>2, <2>3, MoveKeeps
<1>2. CASE queue # <<>>
  <2>1. /\ pc' = [pc EXCEPT ![w] = "working"]
        /\ job' = [job EXCEPT ![w] = Head(queue)]
        /\ queue' = Tail(queue)
    BY <1>2 DEF Pop
  <2>2. /\ Head(queue) \in Jobs /\ Queued(Head(queue))
        /\ queue' \in Seq(Jobs) /\ Once(queue') /\ Rng(queue') = Rng(queue) \ {Head(queue)}
    BY <1>0, <1>2, <2>1, TailOnce DEF Types, Places, Queued
  <2>3. ~Dropped(Head(queue)) /\ ~AtWork(Head(queue))
    BY <1>0, <2>2 DEF Places, Placed
  <2>4. /\ Working' = Working \cup {w} /\ w \notin Working /\ job'[w] = Head(queue)
        /\ \A v \in Working : job'[v] = job[v]
    BY <1>0, <2>1 DEF Types, Working, At
  <2>5. Types'
    BY <1>0, <2>1, <2>2 DEF Types, ticketVars
  <2>6. Places'
    <3>1. ASSUME NEW j \in Jobs PROVE Placed(j)'
      <4>1. AtWork(j)' <=> AtWork(j) \/ j = Head(queue)
        BY <2>4 DEF AtWork
      <4>2. (Queued(j)' <=> Queued(j) /\ j # Head(queue)) /\ (Dropped(j)' <=> Dropped(j))
        BY <2>2 DEF Queued, Dropped
      <4>3. done'[j] = done[j] /\ result'[j] = result[j]
        BY DEF ticketVars
      <4>4. QED
        BY <1>0, <2>2, <2>3, <4>1, <4>2, <4>3 DEF Places, Placed
    <3>2. \A u, v \in Working' : job'[u] = job'[v] => u = v
      BY <1>0, <2>3, <2>4 DEF Places, AtWork
    <3>3. \A v \in Working' : job'[v] \in Jobs
      BY <1>0, <2>2, <2>4 DEF Places
    <3>4. QED
      BY <1>0, <2>2, <3>1, <3>2, <3>3 DEF Places
  <2>7. Phases'
    BY <1>0, <1>2 DEF Phases
  <2>8. Unstarted'
    BY <1>0, <2>1 DEF Unstarted, Types
  <2>9. Results' /\ Asking'
    BY <1>0 DEF Results, Asking, Submitted, ticketVars
  <2>10. QED
    BY <2>5, <2>6, <2>7, <2>8, <2>9 DEF Core
<1>3. QED
  BY <1>1, <1>2

\* The other steps of threads and of those who notify them.
LEMMA MoveTypes ==
    ASSUME Core, NEW w \in Threads,
           NEW at \in {"start", "asleep", "woken", "ended", "counted"},
           pc' = [pc EXCEPT ![w] = at], pc[w] \notin {"working", "unstarted", "exited"},
           job' = job \/ job' = [job EXCEPT ![w] = None],
           UNCHANGED <<queue, threads, ticketVars, dropped, taker, dtor>>
    PROVE  Core'
<1>0. Types
  BY DEF Core
<1>1. Types'
  BY <1>0 DEF Types, ticketVars
<1>2. \A v \in Threads : pc[v] = "working" <=> pc'[v] = "working"
  BY <1>0 DEF Types
<1>3. \A v \in Working : job'[v] = job[v]
  BY <1>0 DEF Types, Working, At
<1>4. \A v \in Threads : pc[v] \in {"unstarted", "exited"} => pc'[v] = pc[v]
  BY <1>0 DEF Types
<1>5. QED
  BY <1>1, <1>2, <1>3, <1>4, MoveKeeps

\* Who wakes takers changes only where they are.
LEMMA WakingKeeps ==
    ASSUME Core, NEW j, taker' = Woken(j)
    PROVE  /\ taker' \in [Takers -> [at : {"idle", "asleep", "woken", "got", "empty"},
                                     ticket : Jobs \cup {None}]]
           /\ \A t \in Takers :
                /\ taker'[t].ticket = taker[t].ticket
                /\ taker'[t].at = taker[t].at
                   \/ (taker[t].at = "asleep" /\ taker'[t].at = "woken")
  BY DEF Core, Types, Woken

LEMMA WokenAsking ==
    ASSUME Core, NEW j, taker' = Woken(j), Submitted' = Submitted
    PROVE  Asking'
<1>1. \A t \in Takers : /\ taker'[t].ticket = taker[t].ticket
                        /\ taker'[t].at = taker[t].at
                           \/ (taker[t].at = "asleep" /\ taker'[t].at = "woken")
  BY WakingKeeps
<1>2. QED
  BY <1>1 DEF Core, Asking

LEMMA QuietKeeps ==
    ASSUME Core, NEW w \in Threads, Arrive(w) \/ LookAgain(w) \/ WakeSpuriously(w)
                                    \/ Discount(w) \/ CallWake(w)
    PROVE  Core'
<1>1. CASE (Arrive(w) \/ LookAgain(w)) /\ WorkOrEnd
  <2>1. pc[w] \in {"start", "woken"} /\ Pop(w) /\ UNCHANGED <<threads, ticketVars, dropped, dtor, taker>>
    BY <1>1 DEF Arrive, LookAgain
  <2>2. QED
    BY <2>1, PopKeeps
<1>2. CASE (Arrive(w) \/ LookAgain(w)) /\ ~WorkOrEnd
  <2>1. /\ pc[w] \in {"start", "woken"} /\ pc' = [pc EXCEPT ![w] = "asleep"]
        /\ UNCHANGED <<queue, threads, job, ticketVars, dropped, taker, dtor>>
    BY <1>2 DEF Arrive, LookAgain
  <2>2. QED
    BY <2>1, MoveTypes
<1>3. CASE WakeSpuriously(w)
  BY <1>3, MoveTypes DEF WakeSpuriously
<1>4. CASE Discount(w)
  BY <1>4, MoveTypes DEF Discount
<1>5. CASE CallWake(w)
  BY <1>5, MoveTypes DEF CallWake
<1>6. QED
  BY <1>1, <1>2, <1>3, <1>4, <1>5

LEMMA NotifyOneKeeps ==
    ASSUME Core, NEW j \in Jobs, NotifyOne(j)
    PROVE  Core'
<1>1. CASE \E w \in Asleep : pc' = [pc EXCEPT ![w] = "woken"]
  <2>1. PICK w \in Threads : pc[w] = "asleep" /\ pc' = [pc EXCEPT ![w] = "woken"]
    BY <1>1 DEF Asleep, At
  <2>2. QED
    BY <2>1, MoveTypes DEF NotifyOne
<1>2. CASE UNCHANGED pc
  <2>1. UNCHANGED <<queue, threads, pc, job, ticketVars, dropped, taker, dtor>>
    BY <1>2 DEF NotifyOne
  <2>2. Types'
    BY <2>1 DEF Core, Types, ticketVars
  <2>3. QED
    BY <2>1, <2>2, MoveKeeps
<1>3. QED
  BY <1>1, <1>2 DEF NotifyOne

\* A job is answered: it leaves its one place.
LEMMA AnswerAsking ==
    ASSUME Core, NEW j \in Jobs, ~done[j], result[j] # "unasked", NEW how \in {"answer", "error"},
           done' = [done EXCEPT ![j] = TRUE], result' = [result EXCEPT ![j] = how],
           taker' = taker \/ taker' = Woken(j)
    PROVE  Asking' /\ Results'
<1>0. Types /\ Asking /\ Results
  BY DEF Core
<1>1. \A i \in Jobs : i # j => done'[i] = done[i] /\ result'[i] = result[i]
  BY <1>0 DEF Types
<1>2. done'[j] = TRUE /\ result'[j] = how
  BY <1>0 DEF Types
<1>3. Results'
  BY <1>0, <1>1, <1>2 DEF Results
<1>4. Submitted' = Submitted
  BY <1>0, <1>1, <1>2 DEF Submitted
<1>5. Asking'
  BY <1>0, <1>4, WokenAsking DEF Asking
<1>6. QED
  BY <1>3, <1>5

LEMMA AnswerKeeps ==
    ASSUME Core, NEW w \in Threads, Answer(w)
    PROVE  Core'
<1>0. Types /\ Places /\ Results /\ Phases /\ Unstarted /\ Asking
  BY DEF Core
<1>1. /\ pc[w] = "working" /\ pc' = [pc EXCEPT ![w] = "answered"]
      /\ done' = [done EXCEPT ![job[w]] = TRUE]
      /\ result' = [result EXCEPT ![job[w]] = "answer"]
      /\ UNCHANGED <<queue, threads, job, dropped, dtor, taker>>
  BY DEF Answer
<1>2. w \in Working /\ job[w] \in Jobs
  BY <1>0, <1>1 DEF Working, At, Places
<1>3. AtWork(job[w]) /\ ~Queued(job[w]) /\ ~Dropped(job[w]) /\ ~done[job[w]] /\ result[job[w]] # "unasked"
  BY <1>0, <1>2 DEF AtWork, Places, Placed
<1>4. Asking' /\ Results'
  BY <1>1, <1>2, <1>3, AnswerAsking
<1>5. Types'
  BY <1>0, <1>1, <1>2 DEF Types
<1>6. Working' = Working \ {w}
  BY <1>0, <1>1 DEF Types, Working, At
<1>7. Places'
  <2>1. ASSUME NEW j \in Jobs PROVE Placed(j)'
    <3>1. AtWork(j)' <=> AtWork(j) /\ j # job[w]
      BY <1>0, <1>1, <1>2, <1>6 DEF AtWork, Places
    <3>2. (Queued(j)' <=> Queued(j)) /\ (Dropped(j)' <=> Dropped(j))
      BY <1>1 DEF Queued, Dropped
    <3>3. /\ j # job[w] => done'[j] = done[j] /\ result'[j] = result[j]
          /\ j = job[w] => done'[j] = TRUE
      BY <1>0, <1>1 DEF Types
    <3>4. CASE j = job[w]
      BY <1>3, <3>1, <3>2, <3>3, <3>4 DEF Placed
    <3>5. CASE j # job[w]
      BY <1>0, <3>1, <3>2, <3>3, <3>5 DEF Places, Placed
    <3>6. QED
      BY <3>4, <3>5
  <2>2. QED
    BY <1>0, <1>1, <1>6, <2>1 DEF Places
<1>8. Phases' /\ Unstarted'
  BY <1>0, <1>1 DEF Types, Phases, Unstarted
<1>9. QED
  BY <1>4, <1>5, <1>7, <1>8 DEF Core

\* ticket->m_ended.notify_all()
LEMMA NotifyTicketKeeps ==
    ASSUME Core, NEW w \in Threads, NotifyTicket(w)
    PROVE  Core'
<1>0. Types /\ Places /\ Results /\ Phases /\ Unstarted
  BY DEF Core
<1>1. /\ pc[w] = "answered" /\ pc' = [pc EXCEPT ![w] = "ended"] /\ taker' = Woken(job[w])
      /\ UNCHANGED <<queue, threads, job, ticketVars, dropped, dtor>>
  BY DEF NotifyTicket
<1>2. taker' \in [Takers -> [at : {"idle", "asleep", "woken", "got", "empty"},
                              ticket : Jobs \cup {None}]]
  BY <1>1, WakingKeeps
<1>3. Asking'
  BY <1>1, WokenAsking DEF Submitted, ticketVars
<1>4. Types'
  BY <1>0, <1>1, <1>2 DEF Types, ticketVars
<1>5. Working' = Working
  BY <1>0, <1>1 DEF Types, Working, At
<1>6. Places'
  BY <1>1, <1>5, StayPlaced DEF ticketVars
<1>7. Results' /\ Phases' /\ Unstarted'
  BY <1>0, <1>1 DEF Types, Results, Phases, Unstarted, ticketVars
<1>8. QED
  BY <1>3, <1>4, <1>6, <1>7 DEF Core

-----------------------------------------------------------------------------
\* ~FetchPool.  The queue becomes the list of those to be refused.
LEMMA StopKeeps ==
    ASSUME Core, Stop
    PROVE  Core'
<1>0. Types /\ Places /\ Results /\ Phases /\ Unstarted /\ Asking
  BY DEF Core
<1>1. /\ dtor = "up" /\ dtor' = "notifying" /\ dropped = <<>>
      /\ dropped' = queue /\ queue' = <<>>
      /\ UNCHANGED <<threads, pc, job, ticketVars, taker>>
  BY <1>0 DEF Stop, LeftQueued, Phases
<1>2. Types'
  BY <1>0, <1>1, EmptyIs DEF Types, ticketVars
<1>3. Working' = Working
  BY <1>1 DEF Working, At
<1>4. Rng(dropped) = {} /\ Rng(queue') = {} /\ Once(queue')
  BY <1>1, EmptyIs
<1>5. Places'
  <2>1. ASSUME NEW j \in Jobs PROVE Placed(j)'
    <3>1. (AtWork(j)' <=> AtWork(j)) /\ (Dropped(j)' <=> Queued(j)) /\ ~Queued(j)' /\ ~Dropped(j)
      BY <1>1, <1>3, <1>4 DEF AtWork, Queued, Dropped
    <3>2. done'[j] = done[j] /\ result'[j] = result[j]
      BY <1>1 DEF ticketVars
    <3>3. QED
      BY <1>0, <3>1, <3>2 DEF Places, Placed
  <2>2. QED
    BY <1>0, <1>1, <1>3, <1>4, <2>1 DEF Places
<1>6. Phases'
  BY <1>1 DEF Phases
<1>7. Results' /\ Unstarted' /\ Asking'
  BY <1>0, <1>1 DEF Results, Unstarted, Asking, Submitted, ticketVars
<1>8. QED
  BY <1>2, <1>5, <1>6, <1>7 DEF Core

LEMMA NotifyAllKeeps ==
    ASSUME Core, NotifyAll
    PROVE  Core'
<1>0. Types /\ Places /\ Results /\ Phases /\ Unstarted /\ Asking
  BY DEF Core
<1>1. /\ dtor = "notifying" /\ dtor' = "answering" /\ pc' = Roused
      /\ UNCHANGED <<queue, threads, job, ticketVars, dropped, taker>>
  BY DEF NotifyAll
<1>2. \A w \in Threads : pc'[w] = IF pc[w] = "asleep" THEN "woken" ELSE pc[w]
  BY <1>0, <1>1 DEF Types, Roused
<1>3. Types'
  <2>1. pc' \in [Threads -> {"unstarted", "start", "asleep", "woken", "working",
                             "answered", "ended", "counted", "exited"}]
    BY <1>0, <1>1 DEF Types, Roused
  <2>2. QED
    BY <1>0, <1>1, <2>1 DEF Types, ticketVars
<1>4. Working' = Working
  BY <1>2 DEF Working, At
<1>5. Places'
  BY <1>1, <1>4, StayPlaced DEF ticketVars
<1>6. Results' /\ Asking' /\ Phases'
  BY <1>0, <1>1 DEF Results, Asking, Submitted, Phases, ticketVars
<1>7. Unstarted'
  BY <1>0, <1>1, <1>2 DEF Unstarted
<1>8. QED
  BY <1>3, <1>5, <1>6, <1>7 DEF Core

LEMMA AnswerDroppedKeeps ==
    ASSUME Core, AnswerDropped
    PROVE  Core'
<1>0. Types /\ Places /\ Results /\ Phases /\ Unstarted /\ Asking
  BY DEF Core
<1> DEFINE j == Head(dropped)
<1>1. /\ dtor = "answering" /\ dropped # <<>> /\ dropped' = Tail(dropped)
      /\ done' = [done EXCEPT ![j] = TRUE] /\ result' = [result EXCEPT ![j] = "error"]
      /\ taker' = Woken(j)
      /\ UNCHANGED <<queue, threads, pc, job, dtor>>
  BY DEF AnswerDropped, poolVars
<1>2. /\ j \in Jobs /\ Dropped(j)
      /\ dropped' \in Seq(Jobs) /\ Once(dropped') /\ Rng(dropped') = Rng(dropped) \ {j}
  BY <1>0, <1>1, TailOnce DEF Types, Places, Dropped
<1> HIDE DEF j
<1>3. ~Queued(j) /\ ~AtWork(j) /\ ~done[j] /\ result[j] # "unasked"
  BY <1>0, <1>2 DEF Places, Placed
<1>4. Asking' /\ Results'
  BY <1>1, <1>2, <1>3, AnswerAsking
<1>5. taker' \in [Takers -> [at : {"idle", "asleep", "woken", "got", "empty"},
                              ticket : Jobs \cup {None}]]
  BY <1>1, WakingKeeps
<1>6. Types'
  BY <1>0, <1>1, <1>2, <1>5 DEF Types
<1>7. Working' = Working
  BY <1>1 DEF Working, At
<1>8. Places'
  <2>1. ASSUME NEW i \in Jobs PROVE Placed(i)'
    <3>1. /\ AtWork(i)' <=> AtWork(i)
          /\ Queued(i)' <=> Queued(i)
          /\ Dropped(i)' <=> Dropped(i) /\ i # j
      BY <1>1, <1>2, <1>7 DEF AtWork, Queued, Dropped
    <3>2. /\ i # j => done'[i] = done[i] /\ result'[i] = result[i]
          /\ i = j => done'[i] = TRUE
      BY <1>0, <1>1 DEF Types
    <3>3. CASE i = j
      BY <1>3, <3>1, <3>2, <3>3 DEF Placed
    <3>4. CASE i # j
      BY <1>0, <3>1, <3>2, <3>4 DEF Places, Placed
    <3>5. QED
      BY <3>3, <3>4
  <2>2. QED
    BY <1>0, <1>1, <1>2, <1>7, <2>1 DEF Places
<1>9. Phases' /\ Unstarted'
  BY <1>0, <1>1 DEF Phases, Unstarted
<1>10. QED
  BY <1>4, <1>6, <1>8, <1>9 DEF Core

\* The pool is gone only once its threads have left, with nobody's job.
LEMMA JoinKeeps ==
    ASSUME Core, Join
    PROVE  Core'
<1>0. Types /\ Places /\ Results /\ Phases /\ Unstarted /\ Asking
  BY DEF Core
<1>1. /\ dtor' = "gone" /\ dtor = "answering" /\ dropped = <<>> /\ Joined
      /\ UNCHANGED <<queue, threads, pc, job, done, result, dropped, taker>>
  BY DEF Join, poolVars, ticketVars
<1>2. Phases'
  BY <1>0, <1>1 DEF Phases, Joined
<1>3. QED
  BY <1>0, <1>1, <1>2 DEF Core, Types, Places, Placed, Queued, Dropped, AtWork, Working, At, Results,
                          Unstarted, Asking, Submitted

-----------------------------------------------------------------------------
\* FetchTicket::take(): the first taker of an answered ticket gets the result,
\* those after it nothing.
LEMMA TakeKeeps ==
    ASSUME Core, NEW t \in Takers, NEW j \in Submitted, taker[t].at \in {"idle", "woken"},
           TakeNow(t, j), UNCHANGED <<poolVars, done, dropped, dtor>>
    PROVE  Core'
<1>0. Types /\ Places /\ Results /\ Phases /\ Unstarted /\ Asking /\ j \in Jobs
  BY DEF Core, Submitted
<1>1. UNCHANGED <<queue, threads, pc, job, done, dropped, dtor>>
  BY DEF poolVars
<1>2. \A i \in Jobs : result'[i] = IF i = j /\ done[j] THEN "none" ELSE result[i]
  BY <1>0 DEF TakeNow, Handed, Types
<1>3. result' \in [Jobs -> {"unasked", "none", "answer", "error"}]
  BY <1>0 DEF TakeNow, Handed, Types
<1>4. PICK at \in {"got", "empty", "asleep"} :
        /\ taker' = [taker EXCEPT ![t] = [at |-> at, ticket |-> j]]
        /\ done[j] <=> at # "asleep"
        /\ done[j] => (at = "empty" <=> result[j] = "none")
  BY <1>0 DEF TakeNow, Types
<1>5. Types'
  BY <1>0, <1>1, <1>3, <1>4 DEF Types
<1>6. \A i \in Jobs : result'[i] = "unasked" <=> result[i] = "unasked"
  BY <1>0, <1>2 DEF Results
<1>7. Places'
  BY <1>1, <1>6, StayPlaced DEF Working, At
<1>8. Results'
  BY <1>0, <1>1, <1>2 DEF Results
<1>9. Phases' /\ Unstarted'
  BY <1>0, <1>1 DEF Phases, Unstarted
<1>10. Asking'
  <2>1. \A u \in Takers : u # t => taker'[u] = taker[u]
    BY <1>0, <1>4 DEF Types
  <2>2. taker'[t].ticket = j
    BY <1>0, <1>4 DEF Types
  <2>3. Submitted' = Submitted
    BY <1>6 DEF Submitted
  <2>4. QED
    BY <1>0, <2>1, <2>2, <2>3 DEF Asking
<1>11. QED
  BY <1>5, <1>7, <1>8, <1>9, <1>10 DEF Core

-----------------------------------------------------------------------------
LEMMA InitCore == Init => Core
<1> SUFFICES ASSUME Init PROVE Core
  OBVIOUS
<1>1. Types
  BY EmptyIs, LimitAssumption DEF Init, Types
<1>2. Working = {}
  BY DEF Init, Working, At
<1>3. Places
  BY <1>2, EmptyIs DEF Init, Places, Placed, Queued, Dropped, AtWork
<1>4. Results /\ Phases /\ Unstarted
  BY DEF Init, Results, Phases, Unstarted
<1>5. Asking
  BY DEF Init, Asking
<1>6. QED
  BY <1>1, <1>3, <1>4, <1>5 DEF Core

LEMMA StepCore == Core /\ [Next]_vars => Core'
<1> SUFFICES ASSUME Core, [Next]_vars PROVE Core'
  OBVIOUS
<1>1. CASE \E j \in Jobs : Submit(j) \/ NotifyOne(j)
  BY <1>1, SubmitKeeps, NotifyOneKeeps
<1>2. CASE \E w \in Threads : WorkerStep(w) \/ WakeSpuriously(w)
  BY <1>2, QuietKeeps, AnswerKeeps, NotifyTicketKeeps DEF WorkerStep
<1>3. CASE Stop \/ NotifyAll \/ AnswerDropped \/ Join
  BY <1>3, StopKeeps, NotifyAllKeeps, AnswerDroppedKeeps, JoinKeeps
<1>4. CASE \E t \in Takers : (\E j \in Jobs : Take(t, j)) \/ TakeAgain(t)
  <2>1. PICK t \in Takers : (\E j \in Jobs : Take(t, j)) \/ TakeAgain(t)
    BY <1>4
  <2>2. CASE \E j \in Jobs : Take(t, j)
    BY <2>2, TakeKeeps DEF Take
  <2>3. CASE TakeAgain(t)
    <3>1. taker[t].ticket \in Submitted
      BY <2>3 DEF TakeAgain, Core, Asking
    <3>2. QED
      BY <2>3, <3>1, TakeKeeps DEF TakeAgain
  <2>4. QED
    BY <2>1, <2>2, <2>3
<1>5. CASE LoopTurn \/ Over \/ UNCHANGED vars
  <2>1. UNCHANGED <<queue, threads, pc, job, done, result, dropped, dtor, taker>>
    BY <1>5 DEF LoopTurn, Over, vars, poolVars, ticketVars
  <2>2. QED
    BY <2>1 DEF Core, Types, Places, Placed, Queued, Dropped, AtWork, Working, At, Results, Phases,
                Unstarted, Asking, Submitted
<1>6. QED
  BY <1>1, <1>2, <1>3, <1>4, <1>5 DEF Next

-----------------------------------------------------------------------------
\* Who has which result.
LEMMA WokenTakings ==
    ASSUME IInv, taker' = taker \/ \E j : taker' = Woken(j),
           \A i \in Jobs : /\ done[i] /\ result[i] = "none" <=> done'[i] /\ result'[i] = "none"
    PROVE  Takings'
<1>0. Takings /\ Core
  BY DEF IInv
<1>1. \A t \in Takers : /\ taker'[t].ticket = taker[t].ticket
                        /\ taker'[t].at = taker[t].at
                           \/ (taker[t].at = "asleep" /\ taker'[t].at = "woken")
  BY <1>0, WakingKeeps
<1>2. \A t \in Takers, i \in Jobs : Got(t, i)' <=> Got(t, i)
  BY <1>1 DEF Got
<1>3. ASSUME NEW t \in Takers, taker'[t].at \in {"got", "empty"}
      PROVE  /\ taker'[t].ticket \in Jobs
             /\ done'[taker'[t].ticket] /\ result'[taker'[t].ticket] = "none"
  BY <1>0, <1>1, <1>3 DEF Takings
<1>4. ASSUME NEW i \in Jobs, done'[i], result'[i] = "none"
      PROVE  \E t \in Takers : Got(t, i)'
  BY <1>0, <1>2, <1>4 DEF Takings
<1>5. \A t, u \in Takers, i \in Jobs : Got(t, i)' /\ Got(u, i)' => t = u
  BY <1>0, <1>2 DEF Takings
<1>6. QED
  BY <1>3, <1>4, <1>5 DEF Takings

\* The first taker of an answered ticket gets the result, those after it nothing.
LEMMA TakeTakings ==
    ASSUME IInv, NEW t \in Takers, NEW j \in Submitted, taker[t].at \in {"idle", "woken"},
           TakeNow(t, j), done' = done
    PROVE  Takings'
<1>0. Types /\ Takings /\ j \in Jobs
  BY DEF IInv, Core, Submitted
<1>1. \A i \in Jobs : result'[i] = IF i = j /\ done[j] THEN "none" ELSE result[i]
  BY <1>0 DEF TakeNow, Handed, Types
<1>2. PICK at \in {"got", "empty", "asleep"} :
        /\ taker' = [taker EXCEPT ![t] = [at |-> at, ticket |-> j]]
        /\ done[j] <=> at # "asleep"
        /\ done[j] => (at = "empty" <=> result[j] = "none")
  BY <1>0 DEF TakeNow, Types
<1>3. /\ taker'[t].at = at /\ taker'[t].ticket = j
      /\ \A u \in Takers : u # t => taker'[u] = taker[u]
  BY <1>0, <1>2 DEF Types
<1>4. \A i \in Jobs : result[i] = "none" => result'[i] = "none"
  BY <1>1
<1>5. done[j] => result'[j] = "none"
  BY <1>0, <1>1
<1>6. ASSUME NEW u \in Takers, taker'[u].at \in {"got", "empty"}
      PROVE  /\ taker'[u].ticket \in Jobs
             /\ done'[taker'[u].ticket] /\ result'[taker'[u].ticket] = "none"
  <2>1. CASE u = t
    BY <1>0, <1>2, <1>3, <1>5, <1>6, <2>1
  <2>2. CASE u # t
    BY <1>0, <1>3, <1>4, <1>6, <2>2 DEF Takings
  <2>3. QED
    BY <2>1, <2>2
<1>7. \A u \in Takers, i \in Jobs : Got(u, i)' <=> IF u = t THEN at = "got" /\ i = j ELSE Got(u, i)
  BY <1>3 DEF Got
<1>8. \A i \in Jobs : ~Got(t, i)
  BY DEF Got
<1>9. at = "got" => \A u \in Takers : ~Got(u, j)
  <2>1. at = "got" => done[j] /\ result[j] # "none"
    BY <1>2
  <2>2. QED
    BY <1>0, <2>1 DEF Takings, Got
<1>10. \A u, v \in Takers, i \in Jobs : Got(u, i)' /\ Got(v, i)' => u = v
  BY <1>0, <1>7, <1>9 DEF Takings
<1>11. ASSUME NEW i \in Jobs, done'[i], result'[i] = "none"
       PROVE  \E u \in Takers : Got(u, i)'
  <2>1. CASE result[i] = "none"
    <3>1. PICK u \in Takers : Got(u, i)
      BY <1>0, <1>11, <2>1 DEF Takings
    <3>2. QED
      BY <1>7, <1>8, <3>1
  <2>2. CASE result[i] # "none"
    <3>1. i = j /\ done[j] /\ result[j] # "none"
      BY <1>1, <1>11, <2>2
    <3>2. at = "got"
      BY <1>2, <3>1
    <3>3. QED
      BY <1>7, <3>1, <3>2
  <2>3. QED
    BY <2>1, <2>2
<1>12. QED
  BY <1>6, <1>10, <1>11 DEF Takings

LEMMA AnswerTakings ==
    ASSUME IInv, NEW j \in Jobs, ~done[j], NEW how \in {"answer", "error"},
           done' = [done EXCEPT ![j] = TRUE], result' = [result EXCEPT ![j] = how],
           taker' = taker \/ taker' = Woken(j)
    PROVE  Takings'
<1>1. \A i \in Jobs : /\ done'[i] = IF i = j THEN TRUE ELSE done[i]
                      /\ result'[i] = IF i = j THEN how ELSE result[i]
  BY DEF IInv, Core, Types
<1>2. \A i \in Jobs : done[i] /\ result[i] = "none" <=> done'[i] /\ result'[i] = "none"
  BY <1>1
<1>3. QED
  BY <1>2, WokenTakings

LEMMA StepTakings == IInv /\ [Next]_vars => Takings'
<1> SUFFICES ASSUME IInv, [Next]_vars PROVE Takings'
  OBVIOUS
<1>0. Core /\ Types /\ Places /\ Results
  BY DEF IInv, Core
<1>1. CASE \E j \in Jobs : Submit(j)
  <2>1. PICK j \in Jobs : result[j] = "unasked" /\ done' = done /\ taker' = taker
                         /\ result' = [result EXCEPT ![j] = "none"]
    BY <1>1 DEF Submit
  <2>2. ~done[j] /\ \A i \in Jobs : i # j => result'[i] = result[i]
    BY <1>0, <2>1 DEF Results, Types
  <2>3. QED
    BY <2>1, <2>2, WokenTakings
<1>2. CASE \E w \in Threads : Answer(w)
  <2>1. PICK w \in Threads : Answer(w)
    BY <1>2
  <2>2. w \in Working /\ job[w] \in Jobs
    BY <1>0, <2>1 DEF Places, Answer, Working, At
  <2>3. ~done[job[w]]
    BY <1>0, <2>2 DEF Places, Placed, AtWork
  <2>4. QED
    BY <2>1, <2>2, <2>3, AnswerTakings DEF Answer
<1>3. CASE AnswerDropped
  <2>1. dropped # <<>>
    BY <1>3 DEF AnswerDropped
  <2>2. Head(dropped) \in Jobs /\ Dropped(Head(dropped))
    BY <1>0, <2>1, TailOnce DEF Types, Places, Dropped
  <2>3. ~done[Head(dropped)]
    BY <1>0, <2>2 DEF Places, Placed
  <2>4. QED
    BY <1>3, <2>2, <2>3, AnswerTakings DEF AnswerDropped
<1>4. CASE \E t \in Takers : (\E j \in Jobs : Take(t, j)) \/ TakeAgain(t)
  <2>1. PICK t \in Takers, j \in Submitted : taker[t].at \in {"idle", "woken"} /\ TakeNow(t, j) /\ done' = done
    BY <1>0, <1>4 DEF Take, TakeAgain, Core, Asking
  <2>2. QED
    BY <2>1, TakeTakings
<1>5. CASE \E w \in Threads : NotifyTicket(w)
  <2>1. PICK w \in Threads : taker' = Woken(job[w]) /\ done' = done /\ result' = result
    BY <1>5 DEF NotifyTicket, ticketVars
  <2>2. QED
    BY <2>1, WokenTakings
<1>6. CASE \/ \E j \in Jobs : NotifyOne(j)
           \/ \E w \in Threads : Arrive(w) \/ LookAgain(w) \/ WakeSpuriously(w) \/ Discount(w) \/ CallWake(w)
           \/ Stop \/ NotifyAll \/ Join \/ LoopTurn \/ Over \/ UNCHANGED vars
  <2>1. taker' = taker /\ done' = done /\ result' = result
    BY <1>6 DEF NotifyOne, Arrive, LookAgain, WakeSpuriously, Discount, CallWake,
                Stop, NotifyAll, Join, LoopTurn, Over, vars, ticketVars
  <2>2. QED
    BY <2>1, WokenTakings
<1>7. QED
  BY <1>1, <1>2, <1>3, <1>4, <1>5, <1>6 DEF Next, WorkerStep

-----------------------------------------------------------------------------
\* The invariant of the pool, its destructor and its tickets, for any number of
\* jobs, threads and takers.
THEOREM Invariant == Spec => []IInv
<1>1. Init => IInv
  BY InitCore DEF IInv, Init, Takings, Got
<1>2. IInv /\ [Next]_vars => IInv'
  BY StepCore, StepTakings DEF IInv
<1>3. QED
  BY <1>1, <1>2, PTL DEF Spec

LEMMA CoreAnswers == Core => GoneMeansAnswered
<1> SUFFICES ASSUME Core, dtor = "gone", NEW j \in Submitted PROVE done[j]
  BY DEF GoneMeansAnswered
<1>1. /\ queue = <<>> /\ dropped = <<>> /\ Placed(j) /\ result[j] # "unasked"
      /\ \A w \in Threads : pc[w] \in {"unstarted", "exited"}
  BY DEF Core, Phases, Places, Submitted
<1>2. ~Queued(j) /\ ~Dropped(j) /\ ~AtWork(j)
  BY <1>1, EmptyIs DEF Queued, Dropped, AtWork, Working, At
<1>3. QED
  BY <1>1, <1>2 DEF Placed

\* Once ~FetchPool has returned every ticket is answered.
THEOREM GoneAnswered == Spec => []GoneMeansAnswered
  BY CoreAnswers, Invariant, PTL DEF IInv

\* take() gives a result to one taker, to none before the ticket has ended, and
\* nothing only after somebody has had it.
THEOREM GivenOnce == Spec => []TakenOnce
<1>1. IInv => TakenOnce
  <2> SUFFICES ASSUME IInv, NEW j \in Jobs
               PROVE  LET got == {t \in Takers : taker[t] = [at |-> "got", ticket |-> j]} IN
                        /\ Cardinality(got) <= 1
                        /\ got # {} => done[j] /\ result[j] = "none"
                        /\ (\E t \in Takers : taker[t] = [at |-> "empty", ticket |-> j]) => got # {}
    BY DEF TakenOnce
  <2> DEFINE got == {t \in Takers : taker[t] = [at |-> "got", ticket |-> j]}
  <2>1. Types /\ Takings
    BY DEF IInv, Core
  <2>2. \A t \in Takers : t \in got <=> Got(t, j)
    BY <2>1 DEF Types, Got
  <2>3. \A t, u \in got : t = u
    BY <2>1, <2>2 DEF Takings
  <2>4. Cardinality(got) <= 1
    <3>1. CASE got = {}
      BY <3>1, FS_EmptySet
    <3>2. CASE got # {}
      <4>1. PICK t \in got : TRUE
        BY <3>2
      <4>2. got = {t}
        BY <2>3, <4>1
      <4>3. QED
        BY <4>2, FS_Singleton
    <3>3. QED
      BY <3>1, <3>2
  <2>5. got # {} => done[j] /\ result[j] = "none"
    BY <2>1, <2>2 DEF Takings, Got
  <2>6. ASSUME NEW t \in Takers, taker[t] = [at |-> "empty", ticket |-> j] PROVE got # {}
    <3>1. done[j] /\ result[j] = "none"
      BY <2>1, <2>6 DEF Takings
    <3>2. \E u \in Takers : Got(u, j)
      BY <2>1, <3>1 DEF Takings
    <3>3. QED
      BY <2>2, <3>2
  <2>7. QED
    BY <2>4, <2>5, <2>6
<1>2. QED
  BY <1>1, Invariant, PTL

LEMMA CorePlaces == Core => NoJobLost
<1> SUFFICES ASSUME Core, NEW j \in Submitted
             PROVE  LET places == {<<"queue", i>> : i \in {k \in 1..Len(queue) : queue[k] = j}}
                             \cup {<<"thread", w>> : w \in {v \in At("working") : job[v] = j}}
                             \cup {<<"dropped", i>> : i \in {k \in 1..Len(dropped) : dropped[k] = j}}
                    IN  Cardinality(places) = (IF done[j] THEN 0 ELSE 1)
  BY DEF NoJobLost
<1> DEFINE OnQueue == {k \in 1..Len(queue) : queue[k] = j}
           WithThread == {v \in At("working") : job[v] = j}
           OnList == {k \in 1..Len(dropped) : dropped[k] = j}
           places == {<<"queue", i>> : i \in OnQueue} \cup {<<"thread", w>> : w \in WithThread}
                     \cup {<<"dropped", i>> : i \in OnList}
<1>1. Places /\ Placed(j) /\ result[j] # "unasked"
  BY DEF Core, Places, Submitted
<1>2. /\ Queued(j) <=> OnQueue # {}
      /\ AtWork(j) <=> WithThread # {}
      /\ Dropped(j) <=> OnList # {}
  BY DEF Queued, AtWork, Dropped, Rng, Working
<1>3. /\ \A i, k \in OnQueue : i = k
      /\ \A v, w \in WithThread : v = w
      /\ \A i, k \in OnList : i = k
  BY <1>1 DEF Places, Once, Working
<1> HIDE DEF OnQueue, WithThread, OnList
<1>4. CASE done[j]
  <2>1. OnQueue = {} /\ WithThread = {} /\ OnList = {}
    BY <1>1, <1>2, <1>4 DEF Placed
  <2>2. places = {}
    BY <2>1
  <2>3. QED
    BY <1>4, <2>2, FS_EmptySet DEF OnQueue, WithThread, OnList
<1>5. CASE ~done[j]
  <2>1. CASE Queued(j)
    <3>1. PICK i \in OnQueue : OnQueue = {i}
      BY <1>2, <1>3, <2>1
    <3>2. WithThread = {} /\ OnList = {}
      BY <1>1, <1>2, <2>1 DEF Placed
    <3>3. places = {<<"queue", i>>}
      BY <3>1, <3>2
    <3>4. QED
      BY <1>5, <3>3, FS_Singleton DEF OnQueue, WithThread, OnList
  <2>2. CASE AtWork(j)
    <3>1. PICK w \in WithThread : WithThread = {w}
      BY <1>2, <1>3, <2>2
    <3>2. OnQueue = {} /\ OnList = {}
      BY <1>1, <1>2, <2>2 DEF Placed
    <3>3. places = {<<"thread", w>>}
      BY <3>1, <3>2
    <3>4. QED
      BY <1>5, <3>3, FS_Singleton DEF OnQueue, WithThread, OnList
  <2>3. CASE Dropped(j)
    <3>1. PICK i \in OnList : OnList = {i}
      BY <1>2, <1>3, <2>3
    <3>2. OnQueue = {} /\ WithThread = {}
      BY <1>1, <1>2, <2>3 DEF Placed
    <3>3. places = {<<"dropped", i>>}
      BY <3>1, <3>2
    <3>4. QED
      BY <1>5, <3>3, FS_Singleton DEF OnQueue, WithThread, OnList
  <2>4. QED
    BY <1>1, <1>5, <2>1, <2>2, <2>3 DEF Placed
<1>6. QED
  BY <1>4, <1>5

\* A job that was submitted and not yet answered is in one place, once: on the
\* queue, with one thread, or on the destructor's list.
THEOREM NothingLost == Spec => []NoJobLost
  BY CorePlaces, Invariant, PTL DEF IInv

-----------------------------------------------------------------------------
\* Every step of the pool is a step of Tickets, or none.
LEMMA TicketsStay ==
    ASSUME done' = done, \A j \in Jobs : result'[j] = result[j]
    PROVE  TicketState' = TicketState
  BY DEF TicketState

LEMMA TicketsChange ==
    ASSUME NEW j \in Jobs, NEW to,
           \A i \in Jobs : TicketState'[i] = IF i = j THEN to ELSE TicketState[i]
    PROVE  TicketState' = [TicketState EXCEPT ![j] = to]
  BY DEF TicketState

LEMMA TicketIs ==
    ASSUME NEW j \in Jobs
    PROVE  TicketState[j] = IF result[j] = "unasked" THEN "unasked"
                            ELSE IF ~done[j] THEN "asked"
                            ELSE IF result[j] = "none" THEN "taken"
                            ELSE result[j]
  BY DEF TicketState

LEMMA EndIsEnd ==
    ASSUME Core, NEW j \in Jobs, ~done[j], result[j] # "unasked", NEW how \in {"answer", "error"},
           done' = [done EXCEPT ![j] = TRUE], result' = [result EXCEPT ![j] = how]
    PROVE  Promise!End(j)
<1>1. \A i \in Jobs : /\ done'[i] = IF i = j THEN TRUE ELSE done[i]
                      /\ result'[i] = IF i = j THEN how ELSE result[i]
  BY DEF Core, Types
<1>2. TicketState[j] = "asked"
  BY TicketIs
<1>3. \A i \in Jobs : TicketState'[i] = IF i = j THEN how ELSE TicketState[i]
  BY <1>1 DEF TicketState
<1>4. QED
  BY <1>2, <1>3, TicketsChange DEF Promise!End

LEMMA TakeIsGive ==
    ASSUME Core, NEW t \in Takers, NEW j \in Submitted, TakeNow(t, j), done' = done
    PROVE  Promise!Give(j) \/ TicketState' = TicketState
<1>0. Types /\ j \in Jobs /\ result[j] # "unasked"
  BY DEF Core, Submitted
<1>1. CASE done[j] /\ result[j] # "none"
  <2>1. \A i \in Jobs : result'[i] = IF i = j THEN "none" ELSE result[i]
    BY <1>0, <1>1 DEF TakeNow, Handed, Types
  <2>2. TicketState[j] \in {"answer", "error"}
    BY <1>0, <1>1, TicketIs DEF Types
  <2>3. \A i \in Jobs : TicketState'[i] = IF i = j THEN "taken" ELSE TicketState[i]
    BY <1>0, <1>1, <2>1 DEF TicketState
  <2>4. QED
    BY <1>0, <2>2, <2>3, TicketsChange DEF Promise!Give
<1>2. CASE ~(done[j] /\ result[j] # "none")
  <2>1. \A i \in Jobs : result'[i] = result[i]
    BY <1>0, <1>2 DEF TakeNow, Handed, Types
  <2>2. QED
    BY <2>1, TicketsStay
<1>3. QED
  BY <1>1, <1>2

LEMMA StepIsTickets ==
    ASSUME Core, [Next]_vars
    PROVE  [Promise!Next]_TicketState
<1>1. CASE \E j \in Jobs : Submit(j)
  <2>1. PICK j \in Jobs : Submit(j)
    BY <1>1
  <2>2. Types /\ Results
    BY DEF Core
  <2>3. result[j] = "unasked" /\ ~done[j] /\ done' = done /\ result' = [result EXCEPT ![j] = "none"]
    BY <2>1, <2>2 DEF Submit, Results
  <2>4. \A i \in Jobs : result'[i] = IF i = j THEN "none" ELSE result[i]
    BY <2>2, <2>3 DEF Types
  <2>5. TicketState[j] = "unasked"
    BY <2>3, TicketIs
  <2>6. \A i \in Jobs : TicketState'[i] = IF i = j THEN "asked" ELSE TicketState[i]
    BY <2>3, <2>4 DEF TicketState
  <2>7. Promise!Ask(j)
    BY <2>5, <2>6, TicketsChange DEF Promise!Ask
  <2>8. QED
    BY <2>7 DEF Promise!Next
<1>2. CASE \E w \in Threads : Answer(w)
  <2>1. PICK w \in Threads : Answer(w)
    BY <1>2
  <2>2. Places /\ w \in Working /\ job[w] \in Jobs
    BY <2>1 DEF Core, Places, Answer, Working, At
  <2>3. ~done[job[w]] /\ result[job[w]] # "unasked"
    BY <2>2 DEF Places, Placed, AtWork
  <2>4. Promise!End(job[w])
    BY <2>1, <2>2, <2>3, EndIsEnd DEF Answer
  <2>5. QED
    BY <2>2, <2>4 DEF Promise!Next
<1>3. CASE AnswerDropped
  <2>1. Types /\ Places /\ dropped # <<>>
    BY <1>3 DEF Core, AnswerDropped
  <2>2. Head(dropped) \in Jobs /\ Dropped(Head(dropped))
    BY <2>1, TailOnce DEF Types, Places, Dropped
  <2>3. ~done[Head(dropped)] /\ result[Head(dropped)] # "unasked"
    BY <2>1, <2>2 DEF Places, Placed
  <2>4. Promise!End(Head(dropped))
    BY <1>3, <2>2, <2>3, EndIsEnd DEF AnswerDropped
  <2>5. QED
    BY <2>2, <2>4 DEF Promise!Next
<1>4. CASE \E t \in Takers : (\E j \in Jobs : Take(t, j)) \/ TakeAgain(t)
  <2>1. PICK t \in Takers, j \in Submitted : TakeNow(t, j) /\ done' = done
    BY <1>4 DEF Take, TakeAgain, Core, Asking
  <2>2. j \in Jobs /\ (Promise!Give(j) \/ TicketState' = TicketState)
    BY <2>1, TakeIsGive DEF Submitted
  <2>3. QED
    BY <2>2 DEF Promise!Next
<1>5. CASE \/ \E j \in Jobs : NotifyOne(j)
           \/ \E w \in Threads : Arrive(w) \/ LookAgain(w) \/ WakeSpuriously(w) \/ NotifyTicket(w)
                                 \/ Discount(w) \/ CallWake(w)
           \/ Stop \/ NotifyAll \/ Join \/ LoopTurn \/ Over \/ UNCHANGED vars
  <2>1. done' = done /\ result' = result
    BY <1>5 DEF NotifyOne, Arrive, LookAgain, WakeSpuriously, NotifyTicket, Discount, CallWake,
                Stop, NotifyAll, Join, LoopTurn, Over, vars, ticketVars
  <2>2. QED
    BY <2>1, TicketsStay
<1>6. QED
  BY <1>1, <1>2, <1>3, <1>4, <1>5 DEF Next, WorkerStep

\* The safety of Tickets: whatever the pool's threads do, a ticket goes from
\* asked to ended to given, and nowhere else.
THEOREM TicketsSafe == Spec => Promise!Init /\ [][Promise!Next]_TicketState
<1>1. Init => Promise!Init
  BY DEF Init, Promise!Init, TicketState
<1>2. QED
  BY <1>1, Invariant, StepIsTickets, PTL DEF Spec, IInv

-----------------------------------------------------------------------------
\* On top of the invariant: a thread without work has no job, one that is
\* through with a job has answered it.
Carrying ==
    \A w \in Threads :
        /\ pc[w] \in {"unstarted", "start", "asleep", "woken", "exited"} => job[w] = None
        /\ pc[w] \in {"answered", "ended", "counted"} => job[w] \in Jobs /\ done[job[w]]

\* Threads other than one stay as they are, and what is done stays done.
LEMMA CarryingStays ==
    ASSUME IInv, Carrying, NEW w \in Threads,
           \A v \in Threads \ {w} : pc'[v] = pc[v] /\ job'[v] = job[v],
           \A j \in Jobs : done[j] => done'[j],
           pc'[w] \in {"unstarted", "start", "asleep", "woken", "exited"} => job'[w] = None,
           pc'[w] \in {"answered", "ended", "counted"} => job'[w] \in Jobs /\ done'[job'[w]]
    PROVE  Carrying'
<1> SUFFICES ASSUME NEW v \in Threads
             PROVE  /\ pc'[v] \in {"unstarted", "start", "asleep", "woken", "exited"} => job'[v] = None
                    /\ pc'[v] \in {"answered", "ended", "counted"} => job'[v] \in Jobs /\ done'[job'[v]]
  BY DEF Carrying
<1>1. CASE v = w
  BY <1>1
<1>2. CASE v # w
  <2>1. pc'[v] = pc[v] /\ job'[v] = job[v]
    BY <1>2
  <2>2. /\ pc[v] \in {"unstarted", "start", "asleep", "woken", "exited"} => job[v] = None
        /\ pc[v] \in {"answered", "ended", "counted"} => job[v] \in Jobs /\ done[job[v]]
    BY DEF Carrying
  <2>3. QED
    BY <2>1, <2>2
<1>3. QED
  BY <1>1, <1>2

LEMMA WorkerCarries ==
    ASSUME IInv, Carrying, NEW w \in Threads, WorkerStep(w) \/ WakeSpuriously(w)
    PROVE  Carrying'
<1>0. Types /\ Places
  BY DEF IInv, Core
<1>1. CASE (Arrive(w) \/ LookAgain(w)) /\ WorkOrEnd
  <2>1. pc[w] \in {"start", "woken"} /\ Pop(w) /\ done' = done
    BY <1>1 DEF Arrive, LookAgain, ticketVars
  <2>2. job[w] = None
    BY <2>1 DEF Carrying
  <2>3. \/ pc' = [pc EXCEPT ![w] = "exited"] /\ job' = job
        \/ pc' = [pc EXCEPT ![w] = "working"] /\ job' = [job EXCEPT ![w] = Head(queue)]
    BY <2>1 DEF Pop
  <2>4. /\ pc'[w] \in {"exited", "working"} /\ (pc'[w] = "exited" => job'[w] = None)
        /\ \A v \in Threads \ {w} : pc'[v] = pc[v] /\ job'[v] = job[v]
    BY <1>0, <2>2, <2>3 DEF Types
  <2>5. QED
    BY <2>1, <2>4, CarryingStays
<1>2. CASE ((Arrive(w) \/ LookAgain(w)) /\ ~WorkOrEnd) \/ WakeSpuriously(w)
  <2>1. /\ pc[w] \in {"start", "woken", "asleep"} /\ job' = job /\ done' = done
        /\ \E at \in {"asleep", "woken"} : pc' = [pc EXCEPT ![w] = at]
    BY <1>2 DEF Arrive, LookAgain, WakeSpuriously, ticketVars
  <2>2. pc'[w] \in {"asleep", "woken"} /\ \A v \in Threads \ {w} : pc'[v] = pc[v]
    BY <1>0, <2>1 DEF Types
  <2>3. job[w] = None
    BY <2>1 DEF Carrying
  <2>4. QED
    BY <2>1, <2>2, <2>3, CarryingStays
<1>3. CASE Answer(w)
  <2>1. w \in Working /\ pc' = [pc EXCEPT ![w] = "answered"] /\ job' = job
        /\ done' = [done EXCEPT ![job[w]] = TRUE]
    BY <1>3 DEF Answer, Working, At
  <2>2. job[w] \in Jobs
    BY <1>0, <2>1 DEF Places
  <2>3. done'[job[w]] = TRUE /\ \A j \in Jobs : done[j] => done'[j]
    BY <1>0, <2>1, <2>2 DEF Types
  <2>4. pc'[w] = "answered" /\ \A v \in Threads \ {w} : pc'[v] = pc[v]
    BY <1>0, <2>1 DEF Types
  <2>5. QED
    BY <2>1, <2>2, <2>3, <2>4, CarryingStays
<1>4. CASE NotifyTicket(w) \/ Discount(w)
  <2>1. /\ pc[w] \in {"answered", "ended"} /\ job' = job /\ done' = done
        /\ \E at \in {"ended", "counted"} : pc' = [pc EXCEPT ![w] = at]
    BY <1>4 DEF NotifyTicket, Discount, ticketVars
  <2>2. pc'[w] \in {"ended", "counted"} /\ \A v \in Threads \ {w} : pc'[v] = pc[v]
    BY <1>0, <2>1 DEF Types
  <2>3. job[w] \in Jobs /\ done[job[w]]
    BY <2>1 DEF Carrying
  <2>4. QED
    BY <2>1, <2>2, <2>3, CarryingStays
<1>5. CASE CallWake(w)
  <2>1. pc' = [pc EXCEPT ![w] = "start"] /\ job' = [job EXCEPT ![w] = None] /\ done' = done
    BY <1>5 DEF CallWake, ticketVars
  <2>2. /\ pc'[w] = "start" /\ job'[w] = None
        /\ \A v \in Threads \ {w} : pc'[v] = pc[v] /\ job'[v] = job[v]
    BY <1>0, <2>1 DEF Types
  <2>3. QED
    BY <2>1, <2>2, CarryingStays
<1>6. QED
  BY <1>1, <1>2, <1>3, <1>4, <1>5 DEF WorkerStep

LEMMA OthersCarry ==
    ASSUME IInv, Carrying, [Next]_vars, ~\E w \in Threads : WorkerStep(w) \/ WakeSpuriously(w)
    PROVE  Carrying' /\ job' = job
<1>0. Types /\ Unstarted /\ Places
  BY DEF IInv, Core
<1>1. CASE \E j \in Jobs : Submit(j)
  <2>1. PICK j \in Jobs : Submit(j)
    BY <1>1
  <2>2. /\ job' = job /\ done' = done
        /\ \/ pc' = pc
           \/ threads < Limit /\ pc' = [pc EXCEPT ![threads + 1] = "start"]
    BY <2>1 DEF Submit, NeedsThread
  <2>3. threads \in 0..Limit /\ Limit \in Nat
    BY <1>0, LimitAssumption DEF Types
  <2>4. CASE pc' = pc
    BY <2>2, <2>4 DEF Carrying
  <2>5. CASE threads < Limit /\ pc' = [pc EXCEPT ![threads + 1] = "start"]
    <3>1. threads + 1 \in Threads /\ threads + 1 > threads
      BY <2>3, <2>5 DEF Threads
    <3>2. job[threads + 1] = None
      BY <1>0, <3>1 DEF Unstarted, Carrying
    <3>3. pc'[threads + 1] = "start" /\ \A v \in Threads \ {threads + 1} : pc'[v] = pc[v]
      BY <1>0, <2>5, <3>1 DEF Types
    <3>4. QED
      BY <2>2, <3>1, <3>2, <3>3, CarryingStays
  <2>6. QED
    BY <2>2, <2>4, <2>5
<1>2. CASE \E j \in Jobs : NotifyOne(j)
  <2>1. job' = job /\ done' = done /\ (pc' = pc \/ \E w \in Asleep : pc' = [pc EXCEPT ![w] = "woken"])
    BY <1>2 DEF NotifyOne, ticketVars
  <2>2. CASE pc' = pc
    BY <2>1, <2>2 DEF Carrying
  <2>3. CASE \E w \in Asleep : pc' = [pc EXCEPT ![w] = "woken"]
    <3>1. PICK w \in Threads : pc[w] = "asleep" /\ pc' = [pc EXCEPT ![w] = "woken"]
      BY <2>3 DEF Asleep, At
    <3>2. pc'[w] = "woken" /\ job[w] = None /\ \A v \in Threads \ {w} : pc'[v] = pc[v]
      BY <1>0, <3>1 DEF Types, Carrying
    <3>3. QED
      BY <2>1, <3>2, CarryingStays
  <2>4. QED
    BY <2>1, <2>2, <2>3
<1>3. CASE NotifyAll
  <2>1. job' = job /\ done' = done /\ pc' = Roused
    BY <1>3 DEF NotifyAll, ticketVars
  <2>2. \A w \in Threads : pc'[w] = IF pc[w] = "asleep" THEN "woken" ELSE pc[w]
    BY <1>0, <2>1 DEF Types, Roused
  <2>3. QED
    BY <2>1, <2>2 DEF Carrying
<1>4. CASE AnswerDropped
  <2>1. job' = job /\ pc' = pc /\ done' = [done EXCEPT ![Head(dropped)] = TRUE] /\ dropped # <<>>
    BY <1>4 DEF AnswerDropped, poolVars
  <2>2. \A j \in Jobs : done[j] => done'[j]
    BY <1>0, <2>1 DEF Types
  <2>3. QED
    BY <2>1, <2>2 DEF Carrying
<1>5. CASE \/ Stop \/ Join \/ LoopTurn \/ Over \/ UNCHANGED vars
           \/ \E t \in Takers : (\E j \in Jobs : Take(t, j)) \/ TakeAgain(t)
  <2>1. UNCHANGED <<pc, job, done>>
    BY <1>5 DEF Stop, Join, LoopTurn, Over, vars, ticketVars, poolVars, Take, TakeAgain
  <2>2. QED
    BY <2>1 DEF Carrying
<1>6. QED
  BY <1>1, <1>2, <1>3, <1>4, <1>5 DEF Next

\* A thread lets go of its job only with the loop woken since it was answered.
LEMMA LetsGoWoken ==
    ASSUME IInv, Carrying, [Next]_vars, NEW w \in Threads, NEW j \in Jobs, job[w] = j, job'[w] # j
    PROVE  done[j] /\ wake'
<1>1. job' # job
  OBVIOUS
<1>2. PICK v \in Threads : WorkerStep(v) \/ WakeSpuriously(v)
  BY <1>1, OthersCarry
<1>3. Types /\ j # None
  BY NoneAssumption DEF IInv, Core
<1>4. CASE CallWake(v)
  <2>1. pc[v] = "counted" /\ job' = [job EXCEPT ![v] = None] /\ wake' = TRUE
    BY <1>4 DEF CallWake, WokenAnew
  <2>2. v = w
    BY <1>3, <2>1 DEF Types
  <2>3. QED
    BY <2>1, <2>2 DEF Carrying
<1>5. CASE Arrive(v) \/ LookAgain(v)
  <2>1. pc[v] \in {"start", "woken"} /\ (job' = job \/ job' = [job EXCEPT ![v] = Head(queue)])
    BY <1>5 DEF Arrive, LookAgain, Pop
  <2>2. job[v] = None
    BY <2>1 DEF Carrying
  <2>3. v = w
    BY <1>3, <1>1, <2>1 DEF Types
  <2>4. QED
    BY <1>3, <2>2, <2>3
<1>6. CASE Answer(v) \/ NotifyTicket(v) \/ Discount(v) \/ WakeSpuriously(v)
  BY <1>1, <1>6 DEF Answer, NotifyTicket, Discount, WakeSpuriously
<1>7. QED
  BY <1>2, <1>4, <1>5, <1>6 DEF WorkerStep

\* m_wake comes after m_done: the loop is never left asleep with an answer there
\* for it and the thread that brought it gone on.
THEOREM WokenSinceAnswer == Spec => WokenAfterAnswer
<1>1. Init => Carrying
  BY DEF Init, Carrying
<1>2. IInv /\ Carrying /\ [Next]_vars => Carrying'
  BY WorkerCarries, OthersCarry
<1>3. IInv /\ Carrying /\ [Next]_vars =>
        [\A j \in Jobs : \A w \in Threads : job[w] = j /\ job'[w] # j => done[j] /\ wake']_vars
  BY LetsGoWoken
<1>4. QED
  BY <1>1, <1>2, <1>3, Invariant, PTL DEF Spec, WokenAfterAnswer
=============================================================================
