------------------------- MODULE FetchPoolCountProofs -------------------------
(***************************************************************************)
(* Proofs about FetchPool's counters, for any number of jobs, threads and  *)
(* takers: m_waiting and m_outstanding count what they say they count, so  *)
(* the comparison submit() makes starts a thread whenever one is missing,  *)
(* and no thread sleeps while a job waits for nobody.                      *)
(***************************************************************************)
EXTENDS FetchPoolProofs

In(S) == {w \in Threads : pc[w] \in S}
Waiters == Asleep \cup At("woken")
Idle == Arriving \cup Asleep

\* One thread moves.
Goes(w, from, to) ==
    pc[w] = from /\ pc'[w] = to /\ \A v \in Threads \ {w} : pc'[v] = pc[v]

\* What Core leaves out of TypeOK, and the counters.  A notify_one still to come
\* is for a job that was submitted, and for one submit of it.
Counts ==
    /\ stopping \in BOOLEAN /\ wake \in BOOLEAN
    /\ dtor \in {"up", "notifying", "answering", "gone"}
    /\ toNotify \subseteq Submitted
    /\ CountsAreExact

\* The inductive invariant: what submit() compares is exact, so each queued job
\* has a thread without work, and one that is awake or about to be woken.
Tally == Counts /\ WorkIsSpread /\ NobodySleepsOverWork

-----------------------------------------------------------------------------
LEMMA FiniteSides ==
    /\ IsFiniteSet(Threads)
    /\ \A S : IsFiniteSet(In(S)) /\ Cardinality(In(S)) \in Nat
    /\ IsFiniteSet(Jobs)
<1>1. IsFiniteSet(Threads)
  BY LimitAssumption, FS_Interval DEF Threads
<1>2. ASSUME NEW S PROVE IsFiniteSet(In(S)) /\ Cardinality(In(S)) \in Nat
  <2>1. In(S) \subseteq Threads
    BY DEF In
  <2>2. QED
    BY <1>1, <2>1, FS_Subset, FS_CardinalityType
<1>3. QED
  BY <1>1, <1>2, JobsAssumption

\* A thread that moves is counted where it goes and no longer where it was.
LEMMA ItGoes ==
    ASSUME Types, NEW w \in Threads, NEW to, pc' = [pc EXCEPT ![w] = to]
    PROVE  Goes(w, pc[w], to)
  BY DEF Types, Goes

LEMMA Moved ==
    ASSUME NEW S, NEW w \in Threads, NEW from, NEW to, Goes(w, from, to)
    PROVE  /\ to \in S /\ from \notin S => Cardinality(In(S)') = Cardinality(In(S)) + 1
           /\ to \notin S /\ from \in S => Cardinality(In(S)') = Cardinality(In(S)) - 1
           /\ (to \in S <=> from \in S) => Cardinality(In(S)') = Cardinality(In(S))
<1>1. pc[w] = from /\ pc'[w] = to /\ \A v \in Threads \ {w} : pc'[v] = pc[v]
  BY DEF Goes
<1>2. IsFiniteSet(In(S)) /\ Cardinality(In(S)) \in Nat
  BY FiniteSides
<1>3. ASSUME to \in S, from \notin S PROVE Cardinality(In(S)') = Cardinality(In(S)) + 1
  <2>1. In(S)' = In(S) \cup {w} /\ w \notin In(S)
    BY <1>1, <1>3 DEF In
  <2>2. QED
    BY <1>2, <2>1, FS_AddElement
<1>4. ASSUME to \notin S, from \in S PROVE Cardinality(In(S)') = Cardinality(In(S)) - 1
  <2>1. In(S)' = In(S) \ {w} /\ w \in In(S)
    BY <1>1, <1>4 DEF In
  <2>2. QED
    BY <1>2, <2>1, FS_RemoveElement
<1>5. ASSUME to \in S <=> from \in S PROVE Cardinality(In(S)') = Cardinality(In(S))
  <2>1. In(S)' = In(S)
    BY <1>1, <1>5 DEF In
  <2>2. QED
    BY <2>1
<1>6. QED
  BY <1>3, <1>4, <1>5

LEMMA Sides ==
    /\ Waiters = In({"asleep", "woken"}) /\ Waiters' = In({"asleep", "woken"})'
    /\ Arriving = In({"start", "woken"}) /\ Arriving' = In({"start", "woken"})'
    /\ Idle = In({"start", "woken", "asleep"}) /\ Idle' = In({"start", "woken", "asleep"})'
    /\ Busy = In({"working", "answered", "ended"}) /\ Busy' = In({"working", "answered", "ended"})'
  BY DEF Waiters, Arriving, Idle, Busy, Asleep, At, In

LEMMA SidesCount ==
    /\ Cardinality(Waiters) \in Nat /\ Cardinality(Arriving) \in Nat
    /\ Cardinality(Idle) \in Nat /\ Cardinality(Busy) \in Nat
    /\ Cardinality(Waiters) <= Cardinality(Idle)
<1>1. Waiters \subseteq Idle
  BY DEF Waiters, Idle, Arriving
<1>2. IsFiniteSet(Idle)
  BY FiniteSides, Sides
<1>3. Cardinality(Waiters) <= Cardinality(Idle)
  BY <1>1, <1>2, FS_Subset
<1>4. QED
  BY <1>3, FiniteSides, Sides

LEMMA PrimedCount == Cardinality(Arriving') \in Nat /\ Cardinality(Idle') \in Nat
<1>1. \A S : Cardinality(In(S)') \in Nat
  <2> TAKE S
  <2>1. In(S)' \subseteq Threads
    BY DEF In
  <2>2. QED
    BY <2>1, FiniteSides, FS_Subset, FS_CardinalityType
<1>2. QED
  BY <1>1, Sides

LEMMA MovedSides ==
    ASSUME NEW w \in Threads, NEW from, NEW to, Goes(w, from, to)
    PROVE  /\ to \in {"asleep", "woken"} /\ from \notin {"asleep", "woken"} => Cardinality(Waiters') = Cardinality(Waiters) + 1
           /\ to \notin {"asleep", "woken"} /\ from \in {"asleep", "woken"} => Cardinality(Waiters') = Cardinality(Waiters) - 1
           /\ (to \in {"asleep", "woken"} <=> from \in {"asleep", "woken"}) => Cardinality(Waiters') = Cardinality(Waiters)
           /\ to \in {"start", "woken"} /\ from \notin {"start", "woken"} => Cardinality(Arriving') = Cardinality(Arriving) + 1
           /\ to \notin {"start", "woken"} /\ from \in {"start", "woken"} => Cardinality(Arriving') = Cardinality(Arriving) - 1
           /\ (to \in {"start", "woken"} <=> from \in {"start", "woken"}) => Cardinality(Arriving') = Cardinality(Arriving)
           /\ to \in {"start", "woken", "asleep"} /\ from \notin {"start", "woken", "asleep"} => Cardinality(Idle') = Cardinality(Idle) + 1
           /\ to \notin {"start", "woken", "asleep"} /\ from \in {"start", "woken", "asleep"} => Cardinality(Idle') = Cardinality(Idle) - 1
           /\ (to \in {"start", "woken", "asleep"} <=> from \in {"start", "woken", "asleep"}) => Cardinality(Idle') = Cardinality(Idle)
           /\ to \in {"working", "answered", "ended"} /\ from \notin {"working", "answered", "ended"} => Cardinality(Busy') = Cardinality(Busy) + 1
           /\ to \notin {"working", "answered", "ended"} /\ from \in {"working", "answered", "ended"} => Cardinality(Busy') = Cardinality(Busy) - 1
           /\ (to \in {"working", "answered", "ended"} <=> from \in {"working", "answered", "ended"}) => Cardinality(Busy') = Cardinality(Busy)
<1>2. /\ to \in {"asleep", "woken"} /\ from \notin {"asleep", "woken"} => Cardinality(Waiters') = Cardinality(Waiters) + 1
      /\ to \notin {"asleep", "woken"} /\ from \in {"asleep", "woken"} => Cardinality(Waiters') = Cardinality(Waiters) - 1
      /\ (to \in {"asleep", "woken"} <=> from \in {"asleep", "woken"}) => Cardinality(Waiters') = Cardinality(Waiters)
  BY Sides, Moved
<1>3. /\ to \in {"start", "woken"} /\ from \notin {"start", "woken"} => Cardinality(Arriving') = Cardinality(Arriving) + 1
      /\ to \notin {"start", "woken"} /\ from \in {"start", "woken"} => Cardinality(Arriving') = Cardinality(Arriving) - 1
      /\ (to \in {"start", "woken"} <=> from \in {"start", "woken"}) => Cardinality(Arriving') = Cardinality(Arriving)
  BY Sides, Moved
<1>4. /\ to \in {"start", "woken", "asleep"} /\ from \notin {"start", "woken", "asleep"} => Cardinality(Idle') = Cardinality(Idle) + 1
      /\ to \notin {"start", "woken", "asleep"} /\ from \in {"start", "woken", "asleep"} => Cardinality(Idle') = Cardinality(Idle) - 1
      /\ (to \in {"start", "woken", "asleep"} <=> from \in {"start", "woken", "asleep"}) => Cardinality(Idle') = Cardinality(Idle)
  BY Sides, Moved
<1>5. /\ to \in {"working", "answered", "ended"} /\ from \notin {"working", "answered", "ended"} => Cardinality(Busy') = Cardinality(Busy) + 1
      /\ to \notin {"working", "answered", "ended"} /\ from \in {"working", "answered", "ended"} => Cardinality(Busy') = Cardinality(Busy) - 1
      /\ (to \in {"working", "answered", "ended"} <=> from \in {"working", "answered", "ended"}) => Cardinality(Busy') = Cardinality(Busy)
  BY Sides, Moved
<1>6. QED
  BY <1>2, <1>3, <1>4, <1>5

LEMMA NobodySleepsOff ==
    ASSUME NEW w \in Threads, NEW from, NEW to, Goes(w, from, to), to # "asleep"
    PROVE  Asleep' \subseteq Asleep
  BY DEF Goes, Asleep, At

\* A notify_one owed more, or one fewer.
LEMMA Owed ==
    ASSUME toNotify \subseteq Submitted
    PROVE  /\ IsFiniteSet(toNotify) /\ Cardinality(toNotify) \in Nat
           /\ \A j : j \notin toNotify => Cardinality(toNotify \cup {j}) = Cardinality(toNotify) + 1
           /\ \A j \in toNotify : Cardinality(toNotify \ {j}) = Cardinality(toNotify) - 1
<1>1. toNotify \subseteq Jobs
  BY DEF Submitted
<1>2. IsFiniteSet(toNotify)
  BY <1>1, JobsAssumption, FS_Subset
<1>3. QED
  BY <1>2, FS_CardinalityType, FS_AddElement, FS_RemoveElement

LEMMA TallySays ==
    ASSUME Core, Tally
    PROVE  /\ outstanding = Len(queue) + Cardinality(Busy)
           /\ waiting = Cardinality(Waiters)
           /\ threads < Limit => Len(queue) <= Cardinality(Idle)
           /\ Asleep # {} => Len(queue) <= Cardinality(Arriving) + Cardinality(toNotify)
           /\ Len(queue) \in Nat /\ outstanding \in Nat /\ waiting \in Nat /\ Types /\ Unstarted
           /\ stopping \in BOOLEAN /\ wake \in BOOLEAN
           /\ dtor \in {"up", "notifying", "answering", "gone"}
           /\ toNotify \subseteq Submitted
<1>1. Len(queue) \in Nat
  BY DEF Core, Types
<1>2. outstanding = Len(queue) + Cardinality(Busy) /\ waiting = Cardinality(Waiters)
  BY DEF Tally, Counts, CountsAreExact, Waiters
<1>3. outstanding \in Nat /\ waiting \in Nat
  BY <1>1, <1>2, SidesCount
<1>4. QED
  BY <1>1, <1>2, <1>3 DEF Core, Tally, Counts, WorkIsSpread, NobodySleepsOverWork, Idle

LEMMA TallyIs ==
    ASSUME stopping' \in BOOLEAN, wake' \in BOOLEAN,
           dtor' \in {"up", "notifying", "answering", "gone"}, toNotify' \subseteq Submitted',
           outstanding' = Len(queue') + Cardinality(Busy'),
           waiting' = Cardinality(Waiters'),
           threads' < Limit => Len(queue') <= Cardinality(Idle'),
           Asleep' # {} => Len(queue') <= Cardinality(Arriving') + Cardinality(toNotify')
    PROVE  Tally'
  BY DEF Tally, Counts, CountsAreExact, WorkIsSpread, NobodySleepsOverWork, Waiters, Idle

-----------------------------------------------------------------------------
\* submit(): a thread more unless there is one waiting for this job too.
LEMMA SubmitTallies ==
    ASSUME Core, Tally, NEW j \in Jobs, Submit(j)
    PROVE  Tally'
<1>0. Types /\ Unstarted /\ toNotify \subseteq Submitted /\ Len(queue) \in Nat
  BY TallySays
<1>1. /\ result[j] = "unasked" /\ result' = [result EXCEPT ![j] = "none"]
      /\ queue' = Append(queue, j) /\ outstanding' = outstanding + 1 /\ waiting' = waiting
      /\ toNotify' = toNotify \cup {j}
      /\ stopping' = stopping /\ wake' = wake /\ dtor' = dtor
  BY DEF Submit, Announced
<1>2. toNotify' \subseteq Submitted' /\ j \notin toNotify
  BY <1>0, <1>1 DEF Types, Submitted
<1>3. Cardinality(toNotify') = Cardinality(toNotify) + 1 /\ Cardinality(toNotify) \in Nat
  BY <1>0, <1>1, <1>2, Owed
<1>4. Len(queue') = Len(queue) + 1
  BY <1>0, <1>1 DEF Types
<1>5. CASE NeedsThread
  <2>1. threads \in 0..Limit /\ Limit \in Nat /\ threads < Limit
    BY <1>0, <1>5, LimitAssumption DEF Types, NeedsThread
  <2>2. threads + 1 \in Threads /\ threads + 1 > threads
    BY <2>1 DEF Threads
  <2>3. pc[threads + 1] = "unstarted" /\ threads' = threads + 1 /\ pc' = [pc EXCEPT ![threads + 1] = "start"]
    BY <1>0, <1>5, <2>2 DEF Unstarted, Submit
  <2>7. PICK w \in Threads : Goes(w, "unstarted", "start")
    BY <1>0, <2>2, <2>3, ItGoes
  <2>4. /\ Cardinality(Waiters') = Cardinality(Waiters)
        /\ Cardinality(Arriving') = Cardinality(Arriving) + 1
        /\ Cardinality(Idle') = Cardinality(Idle) + 1
        /\ Cardinality(Busy') = Cardinality(Busy)
    BY <1>0, <2>7, MovedSides
  <2>9. Asleep' \subseteq Asleep
    BY <1>0, <2>7, NobodySleepsOff
  <2>5. /\ outstanding' = Len(queue') + Cardinality(Busy')
        /\ waiting' = Cardinality(Waiters')
        /\ Len(queue') <= Cardinality(Idle')
    BY <1>1, <1>4, <2>1, <2>4, TallySays, SidesCount
  <2>8. Asleep' # {} => Len(queue') <= Cardinality(Arriving') + Cardinality(toNotify')
    <3> SUFFICES ASSUME Asleep # {} PROVE Len(queue') <= Cardinality(Arriving') + Cardinality(toNotify')
      BY <2>9
    <3>1. Len(queue) <= Cardinality(Arriving) + Cardinality(toNotify) /\ Len(queue) \in Nat
      BY TallySays
    <3>2. QED
      BY <1>3, <1>4, <2>4, <3>1, SidesCount
  <2>6. QED
    BY <1>1, <1>2, <2>5, <2>8, TallySays, TallyIs
<1>6. CASE ~NeedsThread
  <2>1. threads' = threads /\ pc' = pc
    BY <1>6 DEF Submit
  <2>2. Waiters' = Waiters /\ Arriving' = Arriving /\ Idle' = Idle /\ Busy' = Busy /\ Asleep' = Asleep
    BY <2>1 DEF Waiters, Arriving, Idle, Busy, Asleep, At
  <2>3. threads < Limit => Len(queue) + 1 <= waiting
    BY <1>0, <1>6, TallySays, SidesCount DEF NeedsThread
  <2>4. /\ outstanding' = Len(queue') + Cardinality(Busy')
        /\ waiting' = Cardinality(Waiters')
        /\ threads' < Limit => Len(queue') <= Cardinality(Idle')
        /\ Asleep' # {} => Len(queue') <= Cardinality(Arriving') + Cardinality(toNotify')
    BY <1>1, <1>3, <1>4, <2>1, <2>2, <2>3, TallySays, SidesCount
  <2>5. QED
    BY <1>1, <1>2, <2>4, TallySays, TallyIs
<1>7. QED
  BY <1>5, <1>6

LEMMA NotifyOneTallies ==
    ASSUME Core, Tally, NEW j \in Jobs, NotifyOne(j)
    PROVE  Tally'
<1>0. Types /\ toNotify \subseteq Submitted /\ Len(queue) \in Nat
  BY TallySays
<1>1. /\ j \in toNotify /\ toNotify' = toNotify \ {j} /\ Submitted' = Submitted
      /\ UNCHANGED <<queue, threads, waiting, outstanding, stopping, dtor, wake>>
  BY DEF NotifyOne, ticketVars, Submitted
<1>2. Cardinality(toNotify') = Cardinality(toNotify) - 1 /\ Cardinality(toNotify) \in Nat
  BY <1>0, <1>1, Owed
<1>3. CASE \E w \in Asleep : pc' = [pc EXCEPT ![w] = "woken"]
  <2>1. PICK w \in Threads : Goes(w, "asleep", "woken") /\ Asleep # {}
    BY <1>0, <1>3, ItGoes DEF Asleep, At
  <2>2. /\ Cardinality(Waiters') = Cardinality(Waiters)
        /\ Cardinality(Arriving') = Cardinality(Arriving) + 1
        /\ Cardinality(Idle') = Cardinality(Idle)
        /\ Cardinality(Busy') = Cardinality(Busy)
    BY <1>0, <2>1, MovedSides, SidesCount
  <2>3. /\ outstanding' = Len(queue') + Cardinality(Busy')
        /\ waiting' = Cardinality(Waiters')
        /\ threads' < Limit => Len(queue') <= Cardinality(Idle')
        /\ Len(queue') <= Cardinality(Arriving') + Cardinality(toNotify')
    BY <1>0, <1>1, <1>2, <2>1, <2>2, TallySays, SidesCount
  <2>4. QED
    BY <1>0, <1>1, <2>3, TallySays, TallyIs
<1>4. CASE Asleep = {} /\ UNCHANGED pc
  <2>1. Waiters' = Waiters /\ Arriving' = Arriving /\ Idle' = Idle /\ Busy' = Busy /\ Asleep' = {}
    BY <1>4 DEF Waiters, Arriving, Idle, Busy, Asleep, At
  <2>2. QED
    BY <1>0, <1>1, <2>1, TallySays, TallyIs
<1>5. QED
  BY <1>3, <1>4 DEF NotifyOne

-----------------------------------------------------------------------------
\* run(): whoever takes a job was idle, and no longer is.
LEMMA PopTallies ==
    ASSUME Core, Tally, NEW w \in Threads, pc[w] \in {"start", "woken"}, Pop(w),
           waiting' = IF pc[w] = "woken" THEN waiting - 1 ELSE waiting,
           UNCHANGED <<threads, outstanding, stopping, toNotify, ticketVars, dtor, wake>>
    PROVE  Tally'
<1>0. Types /\ toNotify \subseteq Submitted /\ Len(queue) \in Nat
  BY TallySays
<1>1. Submitted' = Submitted
  BY DEF ticketVars, Submitted
<1>2. Cardinality(toNotify) \in Nat
  BY <1>0, Owed
<1>3. CASE queue = <<>>
  <2>1. Goes(w, pc[w], "exited") /\ queue' = queue /\ Len(queue) = 0
    BY <1>0, <1>3, ItGoes DEF Pop
  <2>2. /\ pc[w] = "woken" => Cardinality(Waiters') = Cardinality(Waiters) - 1
        /\ pc[w] = "start" => Cardinality(Waiters') = Cardinality(Waiters)
        /\ Cardinality(Busy') = Cardinality(Busy)
    BY <1>0, <2>1, MovedSides
  <2>3. /\ outstanding' = Len(queue') + Cardinality(Busy')
        /\ waiting' = Cardinality(Waiters')
    BY <2>1, <2>2, TallySays, SidesCount
  <2>4. Cardinality(Idle') \in Nat /\ Cardinality(Arriving') \in Nat
    BY PrimedCount
  <2>5. QED
    BY <1>0, <1>1, <1>2, <2>1, <2>3, <2>4, TallySays, TallyIs
<1>4. CASE queue # <<>>
  <2>1. Goes(w, pc[w], "working") /\ queue' = Tail(queue)
    BY <1>0, <1>4, ItGoes DEF Pop
  <2>2. Len(queue') = Len(queue) - 1
    BY <1>0, <1>4, <2>1 DEF Types
  <2>3. /\ pc[w] = "woken" => Cardinality(Waiters') = Cardinality(Waiters) - 1
        /\ pc[w] = "start" => Cardinality(Waiters') = Cardinality(Waiters)
        /\ Cardinality(Arriving') = Cardinality(Arriving) - 1
        /\ Cardinality(Idle') = Cardinality(Idle) - 1
        /\ Cardinality(Busy') = Cardinality(Busy) + 1
    BY <1>0, <2>1, MovedSides
  <2>9. Asleep' \subseteq Asleep
    BY <1>0, <2>1, NobodySleepsOff
  <2>4. /\ outstanding' = Len(queue') + Cardinality(Busy')
        /\ waiting' = Cardinality(Waiters')
    BY <2>2, <2>3, TallySays, SidesCount
  <2>5. threads' < Limit => Len(queue') <= Cardinality(Idle')
    BY <2>2, <2>3, TallySays, SidesCount
  <2>6. Asleep' # {} => Len(queue') <= Cardinality(Arriving') + Cardinality(toNotify')
    BY <1>2, <2>2, <2>3, <2>9, TallySays, SidesCount
  <2>7. QED
    BY <1>0, <1>1, <2>4, <2>5, <2>6, TallySays, TallyIs
<1>5. QED
  BY <1>3, <1>4

\* A thread moves and the queue stays.
LEMMA MoveTallies ==
    ASSUME Core, Tally, NEW w \in Threads,
           UNCHANGED <<queue, threads, stopping, toNotify, dtor>>, wake' \in BOOLEAN,
           Submitted' = Submitted,
           \/ /\ Goes(w, "start", "asleep") /\ queue = <<>>
              /\ waiting' = waiting + 1 /\ outstanding' = outstanding
           \/ /\ Goes(w, "woken", "asleep") /\ queue = <<>>
              /\ waiting' = waiting /\ outstanding' = outstanding
           \/ /\ Goes(w, "asleep", "woken")
              /\ waiting' = waiting /\ outstanding' = outstanding
           \/ /\ Goes(w, "working", "answered")
              /\ waiting' = waiting /\ outstanding' = outstanding
           \/ /\ Goes(w, "answered", "ended")
              /\ waiting' = waiting /\ outstanding' = outstanding
           \/ /\ Goes(w, "ended", "counted")
              /\ waiting' = waiting /\ outstanding' = outstanding - 1
           \/ /\ Goes(w, "counted", "start")
              /\ waiting' = waiting /\ outstanding' = outstanding
    PROVE  Tally'
<1>0. Types /\ toNotify \subseteq Submitted /\ Len(queue) \in Nat /\ (queue = <<>> => Len(queue) = 0)
  BY TallySays
<1>1. Cardinality(toNotify) \in Nat
  BY <1>0, Owed
<1>2. Cardinality(Arriving') \in Nat /\ Cardinality(Idle') \in Nat
  BY PrimedCount
<1> DEFINE Right == /\ outstanding' = Len(queue') + Cardinality(Busy')
                    /\ waiting' = Cardinality(Waiters')
                    /\ threads' < Limit => Len(queue') <= Cardinality(Idle')
                    /\ Asleep' # {} => Len(queue') <= Cardinality(Arriving') + Cardinality(toNotify')
<1>3. ASSUME Goes(w, "start", "asleep"), queue = <<>>,
             waiting' = waiting + 1, outstanding' = outstanding
      PROVE  Right
  <2>1. /\ Cardinality(Waiters') = Cardinality(Waiters) + 1
        /\ Cardinality(Arriving') = Cardinality(Arriving) - 1
        /\ Cardinality(Idle') = Cardinality(Idle)
        /\ Cardinality(Busy') = Cardinality(Busy)
    BY <1>0, <1>3, MovedSides
  <2>2. Right
    BY <1>0, <1>1, <1>2, <1>3, <2>1, TallySays, SidesCount
  <2>3. QED
    BY <2>2
<1>4. ASSUME Goes(w, "woken", "asleep"), queue = <<>>,
             waiting' = waiting, outstanding' = outstanding
      PROVE  Right
  <2>1. /\ Cardinality(Waiters') = Cardinality(Waiters)
        /\ Cardinality(Arriving') = Cardinality(Arriving) - 1
        /\ Cardinality(Idle') = Cardinality(Idle)
        /\ Cardinality(Busy') = Cardinality(Busy)
    BY <1>0, <1>4, MovedSides
  <2>2. Right
    BY <1>0, <1>1, <1>2, <1>4, <2>1, TallySays, SidesCount
  <2>3. QED
    BY <2>2
<1>5. ASSUME Goes(w, "asleep", "woken"),
             waiting' = waiting, outstanding' = outstanding
      PROVE  Right
  <2>1. /\ Cardinality(Waiters') = Cardinality(Waiters)
        /\ Cardinality(Arriving') = Cardinality(Arriving) + 1
        /\ Cardinality(Idle') = Cardinality(Idle)
        /\ Cardinality(Busy') = Cardinality(Busy)
    BY <1>0, <1>5, MovedSides
  <2>9. Asleep' \subseteq Asleep
    BY <1>0, <1>5, NobodySleepsOff
  <2>2. Right
    BY <1>0, <1>1, <1>2, <1>5, <2>1, <2>9, TallySays, SidesCount
  <2>3. QED
    BY <2>2
<1>6. ASSUME Goes(w, "working", "answered"),
             waiting' = waiting, outstanding' = outstanding
      PROVE  Right
  <2>1. /\ Cardinality(Waiters') = Cardinality(Waiters)
        /\ Cardinality(Arriving') = Cardinality(Arriving)
        /\ Cardinality(Idle') = Cardinality(Idle)
        /\ Cardinality(Busy') = Cardinality(Busy)
    BY <1>0, <1>6, MovedSides
  <2>9. Asleep' \subseteq Asleep
    BY <1>0, <1>6, NobodySleepsOff
  <2>2. Right
    BY <1>0, <1>1, <1>2, <1>6, <2>1, <2>9, TallySays, SidesCount
  <2>3. QED
    BY <2>2
<1>7. ASSUME Goes(w, "answered", "ended"),
             waiting' = waiting, outstanding' = outstanding
      PROVE  Right
  <2>1. /\ Cardinality(Waiters') = Cardinality(Waiters)
        /\ Cardinality(Arriving') = Cardinality(Arriving)
        /\ Cardinality(Idle') = Cardinality(Idle)
        /\ Cardinality(Busy') = Cardinality(Busy)
    BY <1>0, <1>7, MovedSides
  <2>9. Asleep' \subseteq Asleep
    BY <1>0, <1>7, NobodySleepsOff
  <2>2. Right
    BY <1>0, <1>1, <1>2, <1>7, <2>1, <2>9, TallySays, SidesCount
  <2>3. QED
    BY <2>2
<1>8. ASSUME Goes(w, "ended", "counted"),
             waiting' = waiting, outstanding' = outstanding - 1
      PROVE  Right
  <2>1. /\ Cardinality(Waiters') = Cardinality(Waiters)
        /\ Cardinality(Arriving') = Cardinality(Arriving)
        /\ Cardinality(Idle') = Cardinality(Idle)
        /\ Cardinality(Busy') = Cardinality(Busy) - 1
    BY <1>0, <1>8, MovedSides
  <2>9. Asleep' \subseteq Asleep
    BY <1>0, <1>8, NobodySleepsOff
  <2>2. Right
    BY <1>0, <1>1, <1>2, <1>8, <2>1, <2>9, TallySays, SidesCount
  <2>3. QED
    BY <2>2
<1>9. ASSUME Goes(w, "counted", "start"),
             waiting' = waiting, outstanding' = outstanding
      PROVE  Right
  <2>1. /\ Cardinality(Waiters') = Cardinality(Waiters)
        /\ Cardinality(Arriving') = Cardinality(Arriving) + 1
        /\ Cardinality(Idle') = Cardinality(Idle) + 1
        /\ Cardinality(Busy') = Cardinality(Busy)
    BY <1>0, <1>9, MovedSides
  <2>9. Asleep' \subseteq Asleep
    BY <1>0, <1>9, NobodySleepsOff
  <2>2. Right
    BY <1>0, <1>1, <1>2, <1>9, <2>1, <2>9, TallySays, SidesCount
  <2>3. QED
    BY <2>2
<1>10. Right
  BY <1>3, <1>4, <1>5, <1>6, <1>7, <1>8, <1>9
<1>11. QED
  BY <1>0, <1>10, TallySays, TallyIs
-----------------------------------------------------------------------------
\* ~FetchPool takes the queue away and wakes everybody.
LEMMA StopTallies ==
    ASSUME Core, Tally, Stop
    PROVE  Tally'
<1>0. Types /\ toNotify \subseteq Submitted
  BY TallySays
<1>1. /\ queue' = <<>> /\ Len(queue') = 0 /\ outstanding' = outstanding - Len(queue)
      /\ stopping' = TRUE /\ dtor' = "notifying"
      /\ UNCHANGED <<threads, waiting, pc, toNotify, wake>> /\ Submitted' = Submitted
  BY DEF Stop, LeftQueued, LeftOutstanding, ticketVars, Submitted
<1>2. Waiters' = Waiters /\ Busy' = Busy
  BY <1>1 DEF Waiters, Busy, Asleep, At
<1>3. outstanding' = Len(queue') + Cardinality(Busy') /\ waiting' = Cardinality(Waiters')
  BY <1>1, <1>2, TallySays, SidesCount
<1>4. Cardinality(Arriving') \in Nat /\ Cardinality(Idle') \in Nat /\ Cardinality(toNotify) \in Nat
  BY <1>0, PrimedCount, Owed
<1>5. Len(queue') <= Cardinality(Idle') /\ Len(queue') <= Cardinality(Arriving') + Cardinality(toNotify')
  BY <1>1, <1>4
<1>6. QED
  BY <1>0, <1>1, <1>3, <1>5, TallySays, TallyIs

LEMMA NotifyAllTallies ==
    ASSUME Core, Tally, NotifyAll
    PROVE  Tally'
<1>0. Types /\ toNotify \subseteq Submitted
  BY TallySays
<1>1. /\ dtor' = "answering" /\ pc' = Roused
      /\ UNCHANGED <<queue, threads, waiting, outstanding, stopping, toNotify, wake>>
      /\ Submitted' = Submitted
  BY DEF NotifyAll, ticketVars, Submitted
<1>2. \A w \in Threads : pc'[w] = IF pc[w] = "asleep" THEN "woken" ELSE pc[w]
  BY <1>0, <1>1 DEF Types, Roused
<1>3. Waiters' = Waiters /\ Busy' = Busy /\ Idle' = Idle /\ Asleep' = {}
  BY <1>2 DEF Waiters, Idle, Arriving, Busy, Asleep, At
<1>4. QED
  BY <1>0, <1>1, <1>3, TallySays, TallyIs

\* Steps that concern the tickets alone.
LEMMA StillTallies ==
    ASSUME Core, Tally, UNCHANGED poolVars, wake' \in BOOLEAN,
           dtor' \in {"up", "notifying", "answering", "gone"}, Submitted' = Submitted
    PROVE  Tally'
<1>1. UNCHANGED <<queue, threads, waiting, outstanding, stopping, pc, toNotify>>
  BY DEF poolVars
<1>2. Waiters' = Waiters /\ Busy' = Busy /\ Idle' = Idle /\ Arriving' = Arriving /\ Asleep' = Asleep
  BY <1>1 DEF Waiters, Idle, Arriving, Busy, Asleep, At
<1>3. QED
  BY <1>1, <1>2, TallySays, TallyIs

LEMMA InitTally == Init => Tally
<1> SUFFICES ASSUME Init PROVE Tally
  OBVIOUS
<1>1. \A w \in Threads : pc[w] = "unstarted"
  BY DEF Init
<1>2. Waiters = {} /\ Busy = {} /\ Asleep = {} /\ Submitted = {}
  BY <1>1 DEF Init, Waiters, Busy, Asleep, At, Submitted
<1>3. Len(queue) = 0 /\ Cardinality(Waiters) = 0 /\ Cardinality(Busy) = 0
  BY <1>2, FS_EmptySet DEF Init
<1>4. CountsAreExact
  BY <1>3 DEF Init, CountsAreExact, Waiters
<1>5. Counts
  BY <1>4 DEF Init, Counts
<1>6. WorkIsSpread
  BY <1>3, SidesCount DEF WorkIsSpread, Idle
<1>7. QED
  BY <1>2, <1>5, <1>6 DEF Tally, NobodySleepsOverWork

LEMMA WorkerTallies ==
    ASSUME Core, Tally, NEW w \in Threads, WorkerStep(w) \/ WakeSpuriously(w)
    PROVE  Tally'
<1>0. Types /\ Places /\ Results /\ wake \in BOOLEAN
  BY TallySays DEF Core
<1>1. CASE (Arrive(w) \/ LookAgain(w)) /\ WorkOrEnd
  BY <1>1, PopTallies DEF Arrive, LookAgain, WaitOver
<1>2. CASE Arrive(w) /\ ~WorkOrEnd
  <2>1. /\ Goes(w, "start", "asleep") /\ queue = <<>> /\ waiting' = waiting + 1 /\ outstanding' = outstanding
        /\ UNCHANGED <<queue, threads, stopping, toNotify, dtor, wake>> /\ Submitted' = Submitted
    BY <1>0, <1>2, ItGoes DEF Arrive, WorkOrEnd, Submitted, ticketVars
  <2>2. QED
    BY <1>0, <2>1, MoveTallies
<1>3. CASE LookAgain(w) /\ ~WorkOrEnd
  <2>1. /\ Goes(w, "woken", "asleep") /\ queue = <<>> /\ waiting' = waiting /\ outstanding' = outstanding
        /\ UNCHANGED <<queue, threads, stopping, toNotify, dtor, wake>> /\ Submitted' = Submitted
    BY <1>0, <1>3, ItGoes DEF LookAgain, WorkOrEnd, Submitted, ticketVars
  <2>2. QED
    BY <1>0, <2>1, MoveTallies
<1>4. CASE WakeSpuriously(w) \/ NotifyTicket(w)
  <2>1. /\ Goes(w, "asleep", "woken") \/ Goes(w, "answered", "ended")
        /\ UNCHANGED <<queue, threads, waiting, outstanding, stopping, toNotify, dtor, wake>>
        /\ Submitted' = Submitted
    BY <1>0, <1>4, ItGoes DEF WakeSpuriously, NotifyTicket, Submitted, ticketVars
  <2>2. QED
    BY <1>0, <2>1, MoveTallies
<1>5. CASE Answer(w)
  <2>1. /\ Goes(w, "working", "answered") /\ result' = [result EXCEPT ![job[w]] = "answer"]
        /\ UNCHANGED <<queue, threads, waiting, outstanding, stopping, toNotify, dtor, wake>>
    BY <1>0, <1>5, ItGoes DEF Answer
  <2>2. w \in Working
    BY <1>5 DEF Answer, Working, At
  <2>3. job[w] \in Jobs /\ result[job[w]] # "unasked"
    BY <1>0, <2>2 DEF Places, Placed, AtWork
  <2>4. Submitted' = Submitted
    BY <1>0, <2>1, <2>3 DEF Submitted, Types
  <2>5. QED
    BY <1>0, <2>1, <2>4, MoveTallies
<1>6. CASE Discount(w)
  <2>1. /\ Goes(w, "ended", "counted") /\ waiting' = waiting /\ outstanding' = outstanding - 1
        /\ UNCHANGED <<queue, threads, stopping, toNotify, dtor, wake>> /\ Submitted' = Submitted
    BY <1>0, <1>6, ItGoes DEF Discount, Submitted, ticketVars
  <2>2. QED
    BY <1>0, <2>1, MoveTallies
<1>7. CASE CallWake(w)
  <2>1. /\ Goes(w, "counted", "start") /\ waiting' = waiting /\ outstanding' = outstanding
        /\ UNCHANGED <<queue, threads, stopping, toNotify, dtor>> /\ wake' = TRUE /\ Submitted' = Submitted
    BY <1>0, <1>7, ItGoes DEF CallWake, Submitted, ticketVars, WokenAnew
  <2>2. QED
    BY <2>1, MoveTallies
<1>8. QED
  BY <1>1, <1>2, <1>3, <1>4, <1>5, <1>6, <1>7 DEF WorkerStep

LEMMA StepTallies == Core /\ Tally /\ [Next]_vars => Tally'
<1> SUFFICES ASSUME Core, Tally, [Next]_vars PROVE Tally'
  OBVIOUS
<1>0. Types /\ Places /\ Results /\ wake \in BOOLEAN /\ dtor \in {"up", "notifying", "answering", "gone"}
  BY TallySays DEF Core
<1>1. CASE \E j \in Jobs : Submit(j) \/ NotifyOne(j)
  BY <1>1, SubmitTallies, NotifyOneTallies
<1>2. CASE \E w \in Threads : WorkerStep(w) \/ WakeSpuriously(w)
  BY <1>2, WorkerTallies
<1>3. CASE AnswerDropped
  <2>1. dropped # <<>> /\ result' = [result EXCEPT ![Head(dropped)] = "error"] /\ UNCHANGED <<poolVars, dtor, wake>>
    BY <1>3 DEF AnswerDropped
  <2>2. Head(dropped) \in Jobs /\ Dropped(Head(dropped))
    BY <1>0, <2>1, TailOnce DEF Types, Places, Dropped
  <2>3. result[Head(dropped)] # "unasked"
    BY <1>0, <2>2 DEF Places, Placed
  <2>4. Submitted' = Submitted
    BY <1>0, <2>1, <2>3 DEF Submitted, Types
  <2>5. QED
    BY <1>0, <2>1, <2>4, StillTallies
<1>4. CASE \E t \in Takers : (\E j \in Jobs : Take(t, j)) \/ TakeAgain(t)
  <2>1. PICK t \in Takers, j \in Submitted : TakeNow(t, j) /\ UNCHANGED <<poolVars, dtor, wake>>
    BY <1>4 DEF Take, TakeAgain, Core, Asking
  <2>2. result' = result \/ result' = [result EXCEPT ![j] = "none"]
    BY <2>1 DEF TakeNow, Handed
  <2>3. Submitted' = Submitted
    BY <1>0, <2>1, <2>2 DEF Submitted, Types
  <2>4. QED
    BY <1>0, <2>1, <2>3, StillTallies
<1>5. CASE Join \/ LoopTurn \/ Over \/ UNCHANGED vars
  <2>1. /\ UNCHANGED poolVars /\ wake' \in BOOLEAN /\ dtor' \in {"up", "notifying", "answering", "gone"}
        /\ result' = result
    BY <1>0, <1>5 DEF Join, LoopTurn, Over, vars, ticketVars
  <2>2. Submitted' = Submitted
    BY <2>1 DEF Submitted
  <2>3. QED
    BY <2>1, <2>2, StillTallies
<1>6. QED
  BY <1>1, <1>2, <1>3, <1>4, <1>5, StopTallies, NotifyAllTallies DEF Next

-----------------------------------------------------------------------------
\* The pool's counters and what they are for, for any number of threads and jobs.
THEOREM Tallied == Spec => [](Core /\ Tally)
  BY InitCore, StepCore, InitTally, StepTallies, PTL DEF Spec

LEMMA FullTypes == Core /\ Tally => TypeOK
<1> SUFFICES ASSUME Core, Tally PROVE TypeOK
  OBVIOUS
<1>1. outstanding \in Nat /\ waiting \in Nat /\ toNotify \in SUBSET Jobs
  BY TallySays DEF Submitted
<1>2. QED
  BY <1>1 DEF TypeOK, Core, Types, Tally, Counts

\* m_outstanding and m_waiting count what they say, whatever the order of
\* submits, endings and the destructor's dropping of the queue.
THEOREM CountersExact == Spec => []CountsAreExact
  BY Tallied, PTL DEF Tally, Counts

\* No job waits behind another's work while another thread may be started.
THEOREM WorkSpread == Spec => []WorkIsSpread
  BY Tallied, PTL DEF Tally

\* No thread sleeps on while a job has nobody on the way to it.
THEOREM NobodySleeps == Spec => []NobodySleepsOverWork
  BY Tallied, PTL DEF Tally
=============================================================================
