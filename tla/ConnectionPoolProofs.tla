------------------------ MODULE ConnectionPoolProofs ------------------------
(***************************************************************************)
(* Proofs about ConnectionPool, for every set of fetches, hints and        *)
(* sessions: the entry of m_connecting counts its claimants and waiters    *)
(* exactly, nobody sleeps on m_settled with nobody to wake them, one fetch *)
(* opens first, an error is shared only with who waited for it, and who    *)
(* was told of HTTP/1.1 claims nothing.                                    *)
(***************************************************************************)
EXTENDS ConnectionPool, FiniteSetTheorems, TLAPS

Entries == [claimants : Nat, waiters : Nat, failures : Nat, failure : Nat]

\* A claim is held while its connection is opened and settled, and what comes
\* to settle() holds one.
ClaimIsOpening ==
    \A t \in Threads :
        /\ held[t] => pc[t] \in {"open", "note", "noted", "settle"}
        /\ pc[t] = "settle" => held[t]

\* OneOpensFirst, without cardinalities.
FirstIsAlone == \A s, t \in Holders : vain[s] \/ vain[t] \/ s = t

\* The inductive invariant: the counts need to know who can hold a claim, the
\* sleepers' need the counts (a fetch goes to sleep because claimants # 0), and
\* so does the first claim (it is taken because claimants = 0).
IInv ==
    /\ TypeOK
    /\ ClaimsAreCounted
    /\ ClaimIsOpening
    /\ SleeperIsAwaited
    /\ FirstIsAlone

-----------------------------------------------------------------------------
\* Threads are finitely many, so the counts are numbers.
LEMMA CountsAreNumbers ==
    /\ IsFiniteSet(Threads)
    /\ IsFiniteSet(Holders) /\ Cardinality(Holders) \in Nat
    /\ IsFiniteSet(Waiting) /\ Cardinality(Waiting) \in Nat
<1>1. IsFiniteSet(Threads)
  BY ThreadsAssumption DEF Threads
<1>2. Holders \subseteq Threads /\ Waiting \subseteq Threads
  BY DEF Holders, Waiting
<1>3. QED
  BY <1>1, <1>2, FS_Subset, FS_CardinalityType

\* An entry dropped because nobody holds it counted nobody.
LEMMA KeptCounts ==
    ASSUME NEW c \in Entries
    PROVE  /\ Kept(c) \in Entries
           /\ Kept(c).claimants = c.claimants
           /\ Kept(c).waiters = c.waiters
  BY DEF Kept, Absent, Entries

\* The entry settle() leaves, and the one with a claim or a waiter more, are entries.
LEMMA ChangedIsEntry ==
    ASSUME NEW c \in Entries
    PROVE  /\ [c EXCEPT !.claimants = @ + 1] \in Entries
           /\ [c EXCEPT !.waiters = @ + 1] \in Entries
           /\ \A why \in Nat : Failed(c, why) \in Entries
<1>1. [c EXCEPT !.claimants = @ + 1] \in Entries
  BY DEF Entries
<1>2. [c EXCEPT !.waiters = @ + 1] \in Entries
  BY DEF Entries
<1>3. ASSUME NEW why \in Nat PROVE Failed(c, why) \in Entries
  BY DEF Entries, Failed
<1>4. QED
  BY <1>1, <1>2, <1>3

\* The entry as a thread that looks sees it leaves that thread out of the
\* waiters, and only that thread.
LEMMA SeenCounts ==
    ASSUME IInv, NEW t \in Threads, Looks(t)
    PROVE  /\ Seen(t) \in Entries
           /\ Seen(t).claimants = Cardinality(Holders)
           /\ Seen(t).waiters = Cardinality(Waiting \ {t})
           /\ Seen(t).failures = connecting.failures
           /\ IsFiniteSet(Waiting \ {t})
           /\ ~held[t]
<1>0. connecting \in Entries
  BY DEF IInv, TypeOK, Entries
<1>1. connecting.claimants = Cardinality(Holders) /\ connecting.waiters = Cardinality(Waiting)
  BY DEF IInv, ClaimsAreCounted
<1>2. ~held[t]
  BY DEF IInv, ClaimIsOpening, Looks
<1>3. CASE pc[t] = "woken"
  <2>1. t \in Waiting
    BY <1>3 DEF Waiting
  <2>2. /\ IsFiniteSet(Waiting \ {t})
        /\ Cardinality(Waiting \ {t}) = Cardinality(Waiting) - 1
    BY <2>1, CountsAreNumbers, FS_RemoveElement
  <2>3. Cardinality(Waiting \ {t}) \in Nat
    BY <2>2, FS_CardinalityType
  <2>4. Seen(t) = [connecting EXCEPT !.waiters = @ - 1]
    BY <1>3 DEF Seen
  <2>5. QED
    BY <1>0, <1>1, <1>2, <2>2, <2>3, <2>4 DEF Entries
<1>4. CASE pc[t] = "find"
  <2>1. Waiting \ {t} = Waiting
    BY <1>4 DEF Waiting
  <2>2. Seen(t) = connecting
    BY <1>4 DEF Seen
  <2>3. QED
    BY <1>0, <1>1, <1>2, <2>1, <2>2, CountsAreNumbers
<1>5. QED
  BY <1>3, <1>4 DEF Looks

-----------------------------------------------------------------------------
\* Each step keeps the invariant.

\* A new pool: no entry, no claim, nobody asleep.
LEMMA InitHolds == Init => IInv
<1> SUFFICES ASSUME Init PROVE IInv
  OBVIOUS
<1> USE DEF Init
<1>1. TypeOK
  BY NoneAssumption DEF TypeOK, Absent
<1>2. Holders = {} /\ Waiting = {} /\ Asleep = {}
  BY DEF Holders, Waiting, Asleep
<1>3. ClaimsAreCounted
  BY <1>2, FS_EmptySet DEF ClaimsAreCounted, Absent
<1>4. ClaimIsOpening
  BY DEF ClaimIsOpening
<1>5. SleeperIsAwaited /\ FirstIsAlone
  BY <1>2 DEF SleeperIsAwaited, FirstIsAlone
<1>6. QED
  BY <1>1, <1>3, <1>4, <1>5 DEF IInv

\* A step that leaves the entry and the claims alone keeps the invariant, if it
\* puts nobody to sleep and takes no notify_all away from a sleeper.
LEMMA QuietKeeps ==
    ASSUME IInv, TypeOK', ClaimIsOpening',
           UNCHANGED <<connecting, held, vain>>,
           Waiting' = Waiting, Asleep' \subseteq Asleep,
           Asleep' = {} \/ Notifying \subseteq Notifying'
    PROVE  IInv'
<1>1. Holders' = Holders
  BY DEF Holders
<1>2. ClaimsAreCounted'
  BY <1>1 DEF IInv, ClaimsAreCounted
<1>3. SleeperIsAwaited'
  BY <1>1 DEF IInv, SleeperIsAwaited
<1>4. FirstIsAlone'
  BY <1>1 DEF IInv, FirstIsAlone
<1>5. QED
  BY <1>2, <1>3, <1>4 DEF IInv

\* The head of an attempt, a spurious wake-up and the exchanges.
LEMMA AttemptKeeps ==
    ASSUME IInv, NEW t \in Threads,
           \/ Begin(t) \/ Attempt(t) \/ WakeSpuriously(t) \/ TakeIdle(t) \/ StartExchange(t)
           \/ \E outcome \in {"Done", "Retry", "ProtocolFailure", "Failed"} : EndExchange(t, outcome)
           \/ \E outcome \in {"done", "failed"} : Http1(t, outcome)
    PROVE  IInv'
<1> USE DEF IInv
<1>1. CASE Begin(t)
  <2>1. TypeOK'
    BY <1>1 DEF Begin, TypeOK, poolVars, attemptVars, history
  <2>2. QED
    BY <1>1, <2>1, QuietKeeps
    DEF Begin, poolVars, attemptVars, history, TypeOK, ClaimIsOpening, Waiting, Asleep, Notifying
<1>2. CASE Attempt(t)
  <2>1. TypeOK'
    BY <1>2 DEF Attempt, TypeOK, poolVars, attemptVars, history
  <2>2. QED
    BY <1>2, <2>1, QuietKeeps
    DEF Attempt, poolVars, TypeOK, ClaimIsOpening, Waiting, Asleep, Notifying
<1>3. CASE WakeSpuriously(t)
  <2>1. TypeOK'
    BY <1>3 DEF WakeSpuriously, TypeOK, poolVars, attemptVars, history
  <2>2. QED
    BY <1>3, <2>1, QuietKeeps
    DEF WakeSpuriously, poolVars, attemptVars, history, TypeOK, ClaimIsOpening, Waiting, Asleep, Notifying
<1>4. CASE TakeIdle(t)
  <2>1. TypeOK'
    BY <1>4 DEF TakeIdle, TypeOK, poolVars, attemptVars, history
  <2>2. QED
    BY <1>4, <2>1, QuietKeeps
    DEF TakeIdle, poolVars, attemptVars, history, TypeOK, ClaimIsOpening, Waiting, Asleep, Notifying
<1>5. CASE StartExchange(t)
  <2>1. TypeOK'
    BY <1>5 DEF StartExchange, TypeOK, poolVars, attemptVars, history
  <2>2. QED
    BY <1>5, <2>1, QuietKeeps
    DEF StartExchange, poolVars, attemptVars, history, TypeOK, ClaimIsOpening, Waiting, Asleep, Notifying
<1>6. ASSUME NEW outcome \in {"Done", "Retry", "ProtocolFailure", "Failed"}, EndExchange(t, outcome)
      PROVE  IInv'
  <2>1. pc[t] \in {"exchange", "exchanging"}
    BY <1>6 DEF EndExchange, Outcomes
  <2>2. TypeOK'
    BY <1>6 DEF EndExchange, TypeOK, poolVars, history
  <2>3. QED
    BY <1>6, <2>1, <2>2, QuietKeeps
    DEF EndExchange, poolVars, history, TypeOK, ClaimIsOpening, Waiting, Asleep, Notifying
<1>7. ASSUME NEW outcome \in {"done", "failed"}, Http1(t, outcome)
      PROVE  IInv'
  <2>1. TypeOK'
    BY <1>7 DEF Http1, TypeOK, poolVars, attemptVars, history
  <2>2. QED
    BY <1>7, <2>1, QuietKeeps
    DEF Http1, poolVars, attemptVars, history, TypeOK, ClaimIsOpening, Waiting, Asleep, Notifying
<1>8. QED
  BY <1>1, <1>2, <1>3, <1>4, <1>5, <1>6, <1>7

\* Opening a connection: the claim stays held, whatever came of it.
LEMMA OpenKeeps ==
    ASSUME IInv, NEW t \in Threads, NEW outcome \in {"fails", "http1", "h2", "preface"},
           Open(t, outcome)
    PROVE  IInv'
<1> USE DEF IInv
<1>1. next' \in [Threads -> {"exchange", "http1", "top", "done", "failed"}]
  <2> DEFINE goes == CASE outcome = "http1" -> "http1"
                       [] t \in Hints /\ outcome # "http1" -> "done"
                       [] OTHER -> [fails |-> "failed", h2 |-> "exchange", preface |-> "top"][outcome]
  <2>1. goes \in {"exchange", "http1", "top", "done", "failed"}
    OBVIOUS
  <2>2. next' = [next EXCEPT ![t] = goes]
    BY DEF Open
  <2>3. QED
    BY <2>1, <2>2 DEF TypeOK
<1>2. pc' = [pc EXCEPT ![t] = AfterOpen(t, outcome)]
  BY DEF Open
<1>3. AfterOpen(t, outcome) \in {"note", "settle", "exchange", "http1", "top", "done", "failed"}
  BY <1>1 DEF AfterOpen
<1>4. /\ held[t] => AfterOpen(t, outcome) \in {"note", "settle"}
      /\ AfterOpen(t, outcome) = "settle" => held[t]
  BY <1>1 DEF AfterOpen
<1>5. using' \in [Threads -> Sessions \cup {None}] /\ up' \subseteq Sessions
  BY DEF Open, TypeOK
<1>6. /\ pc[t] = "open"
      /\ forced' \in [Threads -> BOOLEAN]
      /\ UNCHANGED <<connecting, pooled, http1Only, held, seen, wants, retried, history>>
  BY DEF Open, TypeOK
<1>7. TypeOK'
  BY <1>1, <1>2, <1>3, <1>5, <1>6 DEF TypeOK, history
<1>8. ClaimIsOpening'
  BY <1>2, <1>4, <1>6 DEF ClaimIsOpening, TypeOK
<1>9. Waiting' = Waiting /\ Asleep' \subseteq Asleep /\ Notifying \subseteq Notifying'
  BY <1>2, <1>3, <1>6 DEF TypeOK, Waiting, Asleep, Notifying
<1>10. QED
  BY <1>6, <1>7, <1>8, <1>9, QuietKeeps DEF history

\* A notify_all rouses every sleeper: they still wait until they look.
LEMMA RousedKeeps ==
    ASSUME IInv, NEW t \in Threads, pc[t] \in {"notify", "noted"},
           NEW to, to \in {"settle", "exchange", "http1", "top", "done", "failed"},
           held[t] => to = "settle", to = "settle" => held[t],
           pc' = [Roused EXCEPT ![t] = to],
           UNCHANGED <<poolVars, attemptVars, history>>
    PROVE  IInv'
<1> USE DEF IInv
<1>1. /\ Roused \in [Threads -> {"idle", "top", "find", "woken", "open", "note", "noted",
                           "settle", "notify", "exchange", "exchanging", "http1", "done", "failed"}]
      /\ \A x \in Threads : Roused[x] = pc[x] \/ (pc[x] = "asleep" /\ Roused[x] = "woken")
  BY DEF Roused, TypeOK
<1>2. TypeOK'
  BY <1>1 DEF TypeOK, poolVars, attemptVars, history
<1>3. ClaimIsOpening'
  BY <1>1 DEF ClaimIsOpening, TypeOK, attemptVars
<1>4. Waiting' = Waiting /\ Asleep' = {}
  BY <1>1 DEF Waiting, Asleep
<1>5. QED
  BY <1>2, <1>3, <1>4, QuietKeeps DEF poolVars, attemptVars, history

\* The notify_all of settle() and of note_http1_only(), after the lock.
LEMMA NotifyKeeps ==
    ASSUME IInv, NEW t \in Threads, Note(t) \/ NoteNotify(t) \/ SettleNotify(t)
    PROVE  IInv'
<1> USE DEF IInv
<1>1. CASE Note(t)
  <2>1. TypeOK'
    BY <1>1 DEF Note, TypeOK, attemptVars, history
  <2>2. QED
    BY <1>1, <2>1, QuietKeeps
    DEF Note, attemptVars, history, TypeOK, ClaimIsOpening, Waiting, Asleep, Notifying
<1>2. CASE NoteNotify(t)
  BY <1>2, RousedKeeps DEF NoteNotify, TypeOK
<1>3. CASE SettleNotify(t)
  <2>1. ~held[t]
    BY <1>3 DEF SettleNotify, ClaimIsOpening
  <2>2. QED
    BY <1>3, <2>1, RousedKeeps DEF SettleNotify, TypeOK
<1>4. QED
  BY <1>1, <1>2, <1>3

\* The peers and the other origins touch neither the entry nor the claims.
LEMMA OthersKeep ==
    ASSUME IInv, (\E s \in Sessions : SessionGoes(s)) \/ Forget \/ Clear \/ AllOver
    PROVE  IInv'
<1> USE DEF IInv
<1>1. UNCHANGED <<connecting, pc, attemptVars, stamp, since, error, vain>>
  BY DEF SessionGoes, Forget, Clear, AllOver, vars, poolVars, history
<1>2. /\ pooled' \in Sessions \cup {None} /\ http1Only' \in BOOLEAN
      /\ up' \in SUBSET Sessions /\ told' \in SUBSET Threads
  BY DEF SessionGoes, Forget, Clear, AllOver, vars, poolVars, history, TypeOK
<1>3. TypeOK'
  BY <1>1, <1>2 DEF TypeOK, attemptVars
<1>4. QED
  BY <1>1, <1>3, QuietKeeps
  DEF attemptVars, ClaimIsOpening, Waiting, Asleep, Notifying

-----------------------------------------------------------------------------
\* find_session() and settle(), which change the entry.

\* A look that neither claims nor waits takes the thread out of the waiters.
LEMMA LeaveKeeps ==
    ASSUME IInv, NEW t \in Threads, Looks(t), TypeOK',
           connecting' = Kept(Seen(t)), held' = held, vain' = [vain EXCEPT ![t] = held'[t] /\ WaitedInVain(t)],
           NEW to \in {"done", "open", "exchange", "failed"}, pc' = [pc EXCEPT ![t] = to]
    PROVE  IInv'
<1> USE DEF IInv
<1>1. Waiting' = Waiting \ {t} /\ Asleep' = Asleep /\ Holders' = Holders /\ Notifying' = Notifying
  BY DEF TypeOK, Looks, Waiting, Asleep, Holders, Notifying
<1>2. ClaimsAreCounted'
  BY <1>1, SeenCounts, KeptCounts DEF ClaimsAreCounted
<1>3. ~held[t]
  BY SeenCounts
<1>4. ClaimIsOpening'
  BY <1>3 DEF TypeOK, ClaimIsOpening
<1>5. SleeperIsAwaited'
  BY <1>1 DEF SleeperIsAwaited
<1>6. FirstIsAlone'
  BY <1>1, <1>3 DEF FirstIsAlone, Holders, TypeOK
<1>7. QED
  BY <1>2, <1>4, <1>5, <1>6

\* A claim: the first of the origin is taken with nobody holding one, and any
\* other after waiting in vain.
LEMMA ClaimKeeps ==
    ASSUME IInv, NEW t \in Threads, NEW session, FindClaim(t, session), TypeOK',
           vain' = [vain EXCEPT ![t] = held'[t] /\ WaitedInVain(t)]
    PROVE  IInv'
<1> USE DEF IInv
<1>0. Looks(t) /\ held' = [held EXCEPT ![t] = TRUE] /\ pc' = [pc EXCEPT ![t] = "open"]
  BY DEF FindClaim
<1>1. /\ Waiting' = Waiting \ {t} /\ Asleep' = Asleep
      /\ Holders' = Holders \cup {t} /\ Notifying' = Notifying
  BY <1>0 DEF TypeOK, Looks, Waiting, Asleep, Holders, Notifying
<1>2. t \notin Holders
  BY <1>0, SeenCounts DEF Holders
<1>3. Cardinality(Holders') = Cardinality(Holders) + 1
  BY <1>1, <1>2, CountsAreNumbers, FS_AddElement
<1>4. connecting' = [Seen(t) EXCEPT !.claimants = @ + 1]
  BY DEF FindClaim
<1>5. ClaimsAreCounted'
  BY <1>0, <1>1, <1>3, <1>4, SeenCounts DEF ClaimsAreCounted, Entries
<1>6. ClaimIsOpening'
  BY <1>0 DEF TypeOK, ClaimIsOpening
<1>7. SleeperIsAwaited'
  BY <1>1 DEF SleeperIsAwaited
<1>8. FirstIsAlone'
  <2>1. CASE WaitedInVain(t)
    <3>1. vain'[t]
      BY <1>0, <2>1 DEF TypeOK
    <3>2. \A x \in Holders : x # t /\ vain'[x] = vain[x]
      BY <1>2 DEF TypeOK, Holders
    <3>3. QED
      BY <1>1, <3>1, <3>2 DEF FirstIsAlone
  <2>2. CASE connecting.claimants = 0
    <3>1. Cardinality(Holders) = 0
      BY <2>2 DEF ClaimsAreCounted
    <3>2. Holders = {}
      BY <3>1, CountsAreNumbers, FS_EmptySet
    <3>3. QED
      BY <1>1, <3>2 DEF FirstIsAlone
  <2>3. QED
    BY <2>1, <2>2 DEF FindClaim, MayClaim
<1>9. QED
  BY <1>5, <1>6, <1>7, <1>8

\* A pass of find_session()'s loop that leaves it, by any of its four ways out.
LEMMA LookKeeps ==
    ASSUME IInv, NEW t \in Threads, Look(t)
    PROVE  IInv'
<1> USE DEF IInv
<1>1. PICK session \in Expired :
        /\ \/ FindHttp1Only(t)
           \/ FindSession(t, session)
           \/ FindFailure(t, session)
           \/ FindClaim(t, session)
        /\ pooled' = session
        /\ up' = IF session = None THEN up \ {pooled} ELSE up
        /\ seen' = [seen EXCEPT ![t] = None]
        /\ error' = [error EXCEPT ![t] = IF pc'[t] = "failed" THEN connecting.failure ELSE 0]
        /\ vain' = [vain EXCEPT ![t] = held'[t] /\ WaitedInVain(t)]
        /\ told' = IF held'[t] THEN told ELSE told \ {t}
        /\ UNCHANGED <<http1Only, next, wants, forced, retried, stamp, since>>
  BY DEF Look
<1>2. Looks(t)
  BY <1>1 DEF FindHttp1Only, FindSession, FindFailure, FindClaim
<1>3. /\ Kept(Seen(t)) \in Entries
      /\ [Seen(t) EXCEPT !.claimants = @ + 1] \in Entries
  BY <1>2, SeenCounts, KeptCounts, ChangedIsEntry
<1>4. connecting' \in Entries
  BY <1>1, <1>3 DEF FindHttp1Only, FindSession, FindFailure, FindClaim
<1>5. /\ pc' \in [Threads -> {"idle", "top", "find", "asleep", "woken", "open", "note", "noted",
                           "settle", "notify", "exchange", "exchanging", "http1", "done", "failed"}]
      /\ held' \in [Threads -> BOOLEAN]
  BY <1>1 DEF FindHttp1Only, FindSession, FindFailure, FindClaim, TypeOK
<1>6. /\ session \in Sessions \cup {None}
      /\ up' \in SUBSET Sessions
  BY <1>1 DEF Expired, TypeOK
<1>7. using' \in [Threads -> Sessions \cup {None}]
  BY <1>1, <1>6 DEF FindHttp1Only, FindSession, FindFailure, FindClaim, TypeOK
<1>8. error' \in [Threads -> Nat] /\ seen' \in [Threads -> Nat \cup {None}]
  BY <1>1 DEF TypeOK
<1>9. vain' \in [Threads -> BOOLEAN] /\ told' \in SUBSET Threads
  BY <1>1, <1>5 DEF TypeOK, WaitedInVain
<1>10. TypeOK'
  BY <1>1, <1>4, <1>5, <1>6, <1>7, <1>8, <1>9 DEF TypeOK, Entries
<1>11. CASE FindHttp1Only(t)
  BY <1>1, <1>2, <1>10, <1>11, LeaveKeeps DEF FindHttp1Only
<1>12. CASE FindSession(t, session)
  BY <1>1, <1>2, <1>10, <1>12, LeaveKeeps DEF FindSession
<1>13. CASE FindFailure(t, session)
  BY <1>1, <1>2, <1>10, <1>13, LeaveKeeps DEF FindFailure
<1>14. CASE FindClaim(t, session)
  BY <1>1, <1>10, <1>14, ClaimKeeps
<1>15. QED
  BY <1>1, <1>11, <1>12, <1>13, <1>14

\* A fetch sleeps only while another holds a claim.
LEMMA WaitKeeps ==
    ASSUME IInv, NEW t \in Threads, Wait(t)
    PROVE  IInv'
<1> USE DEF IInv
<1>1. /\ Looks(t) /\ ~MayClaim(t)
      /\ pooled' = None /\ up' = up \ {pooled}
      /\ connecting' = [Seen(t) EXCEPT !.waiters = @ + 1]
      /\ pc' = [pc EXCEPT ![t] = "asleep"]
      /\ UNCHANGED <<http1Only, held, next, using, wants, forced, retried, stamp, error, vain, told>>
  BY DEF Wait
<1>2. connecting' \in Entries
  BY <1>1, SeenCounts, ChangedIsEntry
<1>3. seen' \in [Threads -> Nat \cup {None}] /\ since' \in [Threads -> Nat]
  BY DEF Wait, TypeOK
<1>4. TypeOK'
  BY <1>1, <1>2, <1>3 DEF TypeOK, Entries
<1>5. /\ Waiting' = (Waiting \ {t}) \cup {t} /\ t \notin Waiting \ {t}
      /\ Holders' = Holders
  BY <1>1 DEF TypeOK, Waiting, Holders
<1>6. Cardinality(Waiting') = Cardinality(Waiting \ {t}) + 1
  BY <1>1, <1>5, SeenCounts, FS_AddElement
<1>7. ClaimsAreCounted'
  BY <1>1, <1>5, <1>6, SeenCounts DEF ClaimsAreCounted, Entries
<1>8. ClaimIsOpening'
  BY <1>1, SeenCounts DEF TypeOK, ClaimIsOpening
<1>9. SleeperIsAwaited'
  <2>1. Cardinality(Holders) # 0
    BY <1>1 DEF MayClaim, ClaimsAreCounted
  <2>2. Holders # {}
    BY <2>1, FS_EmptySet
  <2>3. QED
    BY <1>5, <2>2 DEF SleeperIsAwaited
<1>10. FirstIsAlone'
  BY <1>1, <1>5 DEF FirstIsAlone
<1>11. QED
  BY <1>4, <1>7, <1>8, <1>9, <1>10

\* A claim is given back once, by the fetch that held it.
LEMMA SettleKeeps ==
    ASSUME IInv, NEW t \in Threads, Settle(t)
    PROVE  IInv'
<1> USE DEF IInv
<1> DEFINE c == Settled(connecting)
           changed == IF using[t] = None THEN Failed(c, Failure(t)) ELSE c
<1>1. /\ pc[t] = "settle" /\ connecting' = Kept(changed)
      /\ held' = [held EXCEPT ![t] = FALSE] /\ vain' = [vain EXCEPT ![t] = FALSE]
      /\ pc' = [pc EXCEPT ![t] = "notify"]
      /\ UNCHANGED <<http1Only, up, next, using, seen, wants, forced, retried, since, error>>
  BY DEF Settle
<1>2. t \in Holders
  BY <1>1 DEF ClaimIsOpening, Holders
<1>3. /\ Holders' = Holders \ {t} /\ Waiting' = Waiting /\ Asleep' = Asleep
      /\ t \in Notifying'
  BY <1>1 DEF TypeOK, Holders, Waiting, Asleep, Notifying
<1>4. /\ Cardinality(Holders') = Cardinality(Holders) - 1
      /\ Cardinality(Holders') \in Nat
  BY <1>2, <1>3, CountsAreNumbers, FS_RemoveElement, FS_CardinalityType
<1>5. /\ connecting \in Entries /\ connecting.claimants = Cardinality(Holders)
      /\ connecting.waiters = Cardinality(Waiting)
  BY DEF TypeOK, Entries, ClaimsAreCounted
<1>6. connecting.claimants > 0
  BY <1>4, <1>5, CountsAreNumbers
<1>7. /\ c \in Entries /\ c.claimants = Cardinality(Holders')
      /\ c.waiters = Cardinality(Waiting)
  BY <1>4, <1>5, <1>6 DEF Settled, Entries
<1>8. Failure(t) \in Nat
  BY DEF Failure, TypeOK
<1>9. /\ changed \in Entries /\ changed.claimants = c.claimants
      /\ changed.waiters = c.waiters
  BY <1>7, <1>8, ChangedIsEntry DEF Entries, Failed
<1>10. /\ connecting' \in Entries /\ connecting'.claimants = Cardinality(Holders')
       /\ connecting'.waiters = Cardinality(Waiting')
  BY <1>1, <1>3, <1>7, <1>9, KeptCounts
<1>11. /\ pooled' \in Sessions \cup {None} /\ stamp' \in Nat /\ told' \in SUBSET Threads
  BY DEF Settle, TypeOK, Waiting
<1>12. TypeOK'
  BY <1>1, <1>10, <1>11 DEF TypeOK, Entries
<1>13. ClaimsAreCounted'
  BY <1>10 DEF ClaimsAreCounted
<1>14. ClaimIsOpening'
  BY <1>1 DEF TypeOK, ClaimIsOpening
<1>15. SleeperIsAwaited'
  BY <1>3 DEF SleeperIsAwaited
<1>16. FirstIsAlone'
  BY <1>1, <1>3 DEF TypeOK, FirstIsAlone, Holders
<1>17. QED
  BY <1>12, <1>13, <1>14, <1>15, <1>16

-----------------------------------------------------------------------------
\* The theorems.

\* A step that changes nothing.
LEMMA StutterKeeps ==
    ASSUME IInv, UNCHANGED vars
    PROVE  IInv'
  BY DEF IInv, TypeOK, ClaimsAreCounted, ClaimIsOpening, SleeperIsAwaited, FirstIsAlone, Waiting,
         Asleep, Holders, Notifying, vars, poolVars, attemptVars, history

\* Every step of the pool and of the attempts that call it.
LEMMA StepKeeps == IInv /\ [Next]_vars => IInv'
<1> SUFFICES ASSUME IInv, [Next]_vars PROVE IInv'
  OBVIOUS
<1>1. ASSUME NEW t \in Threads, Begin(t) \/ Step(t) \/ WakeSpuriously(t) PROVE IInv'
  <2>1. CASE Look(t) \/ Wait(t)
    BY <2>1, LookKeeps, WaitKeeps
  <2>2. CASE \E outcome \in {"fails", "http1", "h2", "preface"} : Open(t, outcome)
    BY <2>2, OpenKeeps
  <2>3. CASE Note(t) \/ NoteNotify(t) \/ SettleNotify(t)
    BY <2>3, NotifyKeeps
  <2>4. CASE Settle(t)
    BY <2>4, SettleKeeps
  <2>5. CASE \/ Begin(t) \/ Attempt(t) \/ WakeSpuriously(t) \/ TakeIdle(t) \/ StartExchange(t)
             \/ \E outcome \in {"Done", "Retry", "ProtocolFailure", "Failed"} : EndExchange(t, outcome)
             \/ \E outcome \in {"done", "failed"} : Http1(t, outcome)
    BY <2>5, AttemptKeeps
  <2>6. QED
    BY <1>1, <2>1, <2>2, <2>3, <2>4, <2>5 DEF Step
<1>2. CASE (\E s \in Sessions : SessionGoes(s)) \/ Forget \/ Clear \/ AllOver
  BY <1>2, OthersKeep
<1>3. CASE UNCHANGED vars
  BY <1>3, StutterKeeps
<1>4. QED
  BY <1>1, <1>2, <1>3 DEF Next

\* The pool's inductive invariant: each entry counts exactly the claims held and
\* the waiters inside find_session(), a claim is held only while a connection is
\* opened and settled, and no waiter sleeps with nobody to wake it.
THEOREM Invariant == Spec => []IInv
  BY InitHolds, StepKeeps, PTL DEF Spec

\* Every variable keeps to its type: in particular no count of waiters or
\* claimants goes below zero, however settles and wake-ups interleave.
THEOREM TypesHold == Spec => []TypeOK
<1>1. IInv => TypeOK
  BY DEF IInv
<1>2. QED
  BY <1>1, Invariant, PTL

\* m_connecting's claimants and waiters are the threads that hold a claim and
\* the threads inside find_session's wait.
THEOREM ClaimsCounted == Spec => []ClaimsAreCounted
<1>1. IInv => ClaimsAreCounted
  BY DEF IInv
<1>2. QED
  BY <1>1, Invariant, PTL

\* No fetch sleeps on m_settled without a claim that is still to be settled or a
\* notify_all that is still to be made.
THEOREM SleepersAwaited == Spec => []SleeperIsAwaited
<1>1. IInv => SleeperIsAwaited
  BY DEF IInv
<1>2. QED
  BY <1>1, Invariant, PTL

\* At most one connection to the origin is opened by a fetch that did not first
\* wait on another that came to nothing.
THEOREM OneFirst == Spec => []OneOpensFirst
<1>1. ASSUME IInv PROVE OneOpensFirst
  <2> DEFINE first == {t \in Holders : ~vain[t]}
  <2>1. CASE first = {}
    BY <2>1, FS_EmptySet DEF OneOpensFirst
  <2>2. ASSUME NEW t \in first PROVE OneOpensFirst
    <3>1. first = {t}
      BY <1>1, <2>2 DEF IInv, FirstIsAlone
    <3>2. QED
      BY <3>1, FS_Singleton DEF OneOpensFirst
  <2>3. QED
    BY <2>1, <2>2
<1>2. QED
  BY <1>1, Invariant, PTL

-----------------------------------------------------------------------------
\* FailureIsFresh.  A waiter keeps the count of failures it saw when it began to
\* wait, and its being there keeps the entry: when the count has moved, the
\* error beside it is of a connection that failed since.

WaiterSeesFresh(t) ==
    /\ seen[t] \in Nat
    /\ seen[t] # connecting.failures /\ connecting.failure # 0 => connecting.failure > since[t]

FInv ==
    /\ connecting.failure <= stamp
    /\ \A t \in Threads : since[t] <= stamp
    /\ \A t \in Waiting : WaiterSeesFresh(t)
    /\ \A t \in Threads \ Waiting : seen[t] = None
    /\ \A t \in Threads : error[t] # 0 => pc[t] = "failed"
    /\ FailureIsFresh

\* An entry somebody waits on stays.
LEMMA WaitedOnStays ==
    ASSUME IInv', NEW c \in Entries, connecting' = Kept(c), NEW t \in Waiting'
    PROVE  connecting' = c
<1>1. IsFiniteSet(Waiting')
  <2>1. IsFiniteSet(Threads) /\ Waiting' \subseteq Threads
    BY CountsAreNumbers DEF Waiting
  <2>2. QED
    BY <2>1, FS_Subset
<1>2. Cardinality(Waiting') # 0
  BY <1>1, FS_EmptySet
<1>3. connecting'.waiters # 0
  BY <1>2 DEF IInv, ClaimsAreCounted
<1>4. QED
  BY <1>3, KeptCounts DEF Kept

\* A new pool has no failure, and no fetch waits.
LEMMA FreshInit == Init => FInv
  BY NoneAssumption DEF Init, FInv, FailureIsFresh, Waiting, Absent

\* A step that leaves the entry, the waiters and what they saw alone.
LEMMA FreshQuiet ==
    ASSUME IInv, FInv, TypeOK', UNCHANGED <<connecting, seen, stamp, since, error>>,
           Waiting' = Waiting, \A t \in Threads : pc[t] = "failed" => pc'[t] = "failed"
    PROVE  FInv'
  BY DEF IInv, TypeOK, FInv, FailureIsFresh, WaiterSeesFresh

\* A waiter that looks again takes only a failure settled after it went to sleep.
LEMMA FreshLook ==
    ASSUME IInv, FInv, IInv', NEW t \in Threads, Look(t)
    PROVE  FInv'
<1>1. /\ Looks(t)
      /\ seen' = [seen EXCEPT ![t] = None] /\ UNCHANGED <<stamp, since>>
      /\ error' = [error EXCEPT ![t] = IF pc'[t] = "failed" THEN connecting.failure ELSE 0]
      /\ connecting' = Kept(Seen(t)) \/ connecting' = [Seen(t) EXCEPT !.claimants = @ + 1]
      /\ \E to \in {"done", "open", "exchange", "failed"} : pc' = [pc EXCEPT ![t] = to]
      /\ pc'[t] = "failed" => TakesFailure(t)
  <2>1. IInv => pc \in [Threads -> {"idle", "top", "find", "asleep", "woken", "open", "note", "noted",
                           "settle", "notify", "exchange", "exchanging", "http1", "done", "failed"}]
    BY DEF IInv, TypeOK
  <2>2. QED
    BY <2>1 DEF Look, FindHttp1Only, FindSession, FindFailure, FindClaim
<1>2. Seen(t) \in Entries /\ Seen(t).failures = connecting.failures /\ Seen(t).failure = connecting.failure
  <2>1. connecting \in Entries
    BY DEF IInv, TypeOK, Entries
  <2>2. QED
    BY <1>1, <2>1, SeenCounts DEF Seen, Entries
<1>3. Waiting' = Waiting \ {t}
  BY <1>1 DEF IInv, TypeOK, Looks, Waiting
<1>4. connecting'.failure <= stamp
  BY <1>1, <1>2 DEF FInv, IInv, TypeOK, Kept, Absent, Entries
<1>5. ASSUME NEW x \in Waiting'
      PROVE  WaiterSeesFresh(x)'
  <2>1. connecting'.failures = connecting.failures /\ connecting'.failure = connecting.failure
    <3>1. CASE connecting' = Kept(Seen(t))
      BY <1>2, <1>5, <3>1, WaitedOnStays
    <3>2. CASE connecting' = [Seen(t) EXCEPT !.claimants = @ + 1]
      BY <1>2, <3>2 DEF Entries
    <3>3. QED
      BY <1>1, <3>1, <3>2
  <2>2. x \in Waiting /\ x # t
    BY <1>3, <1>5
  <2>3. seen'[x] = seen[x] /\ since'[x] = since[x]
    BY <1>1, <2>2 DEF IInv, TypeOK, Waiting
  <2>4. WaiterSeesFresh(x)
    BY <2>2 DEF FInv
  <2>5. QED
    BY <2>1, <2>3, <2>4 DEF WaiterSeesFresh
<1>6. FailureIsFresh' /\ \A x \in Threads : error'[x] # 0 => pc'[x] = "failed"
  <2>1. ASSUME pc'[t] = "failed" PROVE connecting.failure > since[t]
    <3>1. TakesFailure(t)
      BY <1>1, <2>1
    <3>2. seen[t] # None /\ connecting.failures # seen[t] /\ connecting.failure # 0
      BY <3>1 DEF TakesFailure, WaitedInVain
    <3>3. t \in Waiting
      BY <3>2 DEF FInv
    <3>4. QED
      BY <3>2, <3>3 DEF FInv, WaiterSeesFresh
  <2>2. QED
    BY <1>1, <2>1 DEF FInv, FailureIsFresh, IInv, TypeOK
<1>7. \A x \in Threads \ Waiting' : seen'[x] = None
  BY <1>1, <1>3 DEF FInv, IInv, TypeOK
<1>8. QED
  BY <1>1, <1>4, <1>5, <1>6, <1>7 DEF FInv

\* A fetch that goes to sleep notes how many connections had failed by then.
LEMMA FreshWait ==
    ASSUME IInv, FInv, IInv', NEW t \in Threads, Wait(t)
    PROVE  FInv'
<1>1. /\ Looks(t)
      /\ connecting' = [Seen(t) EXCEPT !.waiters = @ + 1]
      /\ seen' = [seen EXCEPT ![t] = IF @ = None THEN connecting.failures ELSE @]
      /\ since' = [since EXCEPT ![t] = IF pc[t] = "find" THEN stamp ELSE @]
      /\ pc' = [pc EXCEPT ![t] = "asleep"]
      /\ UNCHANGED <<stamp, error>>
  BY DEF Wait
<1>2. connecting \in Entries /\ Seen(t) \in Entries
  BY <1>1, SeenCounts DEF IInv, TypeOK, Entries
<1>3. connecting'.failures = connecting.failures /\ connecting'.failure = connecting.failure
  BY <1>1, <1>2 DEF Seen, Entries
<1>4. Waiting' = Waiting \cup {t}
  BY <1>1 DEF IInv, TypeOK, Waiting
<1>5. pc[t] = "find" => t \notin Waiting /\ seen[t] = None
  BY DEF FInv, Waiting
<1>6. pc[t] # "find" => t \in Waiting /\ seen[t] \in Nat /\ seen[t] # None
  BY <1>1, NoneAssumption DEF Looks, FInv, WaiterSeesFresh, Waiting
<1>7. WaiterSeesFresh(t)'
  <2>1. CASE pc[t] = "find"
    <3>1. seen'[t] = connecting.failures
      BY <1>1, <1>5, <2>1 DEF IInv, TypeOK
    <3>2. QED
      BY <1>2, <1>3, <3>1 DEF WaiterSeesFresh, Entries
  <2>2. CASE pc[t] # "find"
    <3>1. seen'[t] = seen[t] /\ since'[t] = since[t]
      BY <1>1, <1>6, <2>2 DEF IInv, TypeOK
    <3>2. QED
      BY <1>3, <1>6, <2>2, <3>1 DEF FInv, WaiterSeesFresh
  <2>3. QED
    BY <2>1, <2>2
<1>8. ASSUME NEW x \in Waiting, x # t PROVE WaiterSeesFresh(x)'
  <2>1. seen'[x] = seen[x] /\ since'[x] = since[x]
    BY <1>1, <1>8 DEF IInv, TypeOK, Waiting
  <2>2. QED
    BY <1>3, <1>8, <2>1 DEF FInv, WaiterSeesFresh
<1>9. \A x \in Threads \ Waiting' : seen'[x] = None
  BY <1>1, <1>4 DEF FInv, IInv, TypeOK
<1>10. error[t] = 0
  BY <1>1 DEF FInv, Looks
<1>11. \A x \in Threads : since'[x] <= stamp' /\ (error'[x] # 0 => pc'[x] = "failed" /\ error'[x] > since'[x])
  BY <1>1, <1>10 DEF FInv, FailureIsFresh, IInv, TypeOK
<1>12. QED
  BY <1>1, <1>3, <1>4, <1>7, <1>8, <1>9, <1>11 DEF FInv, FailureIsFresh

\* settle() counts a failure and keeps its error.
LEMMA FreshSettle ==
    ASSUME IInv, FInv, IInv', NEW t \in Threads, Settle(t)
    PROVE  FInv'
<1> DEFINE c == Settled(connecting)
           changed == IF using[t] = None THEN Failed(c, Failure(t)) ELSE c
<1>1. /\ pc[t] = "settle" /\ connecting' = Kept(changed)
      /\ stamp' = IF using[t] = None THEN stamp + 1 ELSE stamp
      /\ pc' = [pc EXCEPT ![t] = "notify"]
      /\ UNCHANGED <<seen, since, error>>
  BY DEF Settle
<1>2. connecting \in Entries /\ stamp \in Nat /\ Failure(t) \in {0, stamp + 1}
  BY DEF IInv, TypeOK, Entries, Failure
<1>3. /\ c \in Entries /\ c.failures = connecting.failures /\ c.failure = connecting.failure
  BY <1>2 DEF Settled, Entries
<1>4. /\ changed \in Entries
      /\ \/ stamp' = stamp /\ changed.failures = connecting.failures /\ changed.failure = connecting.failure
         \/ stamp' = stamp + 1 /\ changed.failure \in {0, stamp + 1}
  BY <1>1, <1>2, <1>3 DEF Failed, Entries
<1>5. Waiting' = Waiting
  BY <1>1 DEF IInv, TypeOK, Waiting
<1>6. connecting'.failure <= stamp'
  <2>1. changed.failure <= stamp'
    BY <1>2, <1>4 DEF FInv
  <2>2. connecting' = changed \/ connecting'.failure = 0
    BY <1>1 DEF Kept, Absent
  <2>3. QED
    BY <1>2, <1>4, <2>1, <2>2
<1>7. ASSUME NEW x \in Waiting' PROVE WaiterSeesFresh(x)'
  <2>1. connecting' = changed
    BY <1>1, <1>4, <1>7, WaitedOnStays
  <2>2. WaiterSeesFresh(x) /\ since[x] <= stamp /\ since[x] \in Nat
    BY <1>5, <1>7 DEF FInv, IInv, TypeOK, Waiting
  <2>3. QED
    BY <1>1, <1>2, <1>4, <2>1, <2>2 DEF WaiterSeesFresh
<1>8. \A x \in Threads : since'[x] <= stamp'
  BY <1>1, <1>2 DEF FInv, IInv, TypeOK
<1>9. \A x \in Threads : error'[x] # 0 => pc'[x] = "failed"
  BY <1>1 DEF FInv, IInv, TypeOK
<1>10. QED
  BY <1>1, <1>5, <1>6, <1>7, <1>8, <1>9 DEF FInv, FailureIsFresh

\* Attempt(t) dates the thread anew: it has no error yet.
LEMMA FreshAttempt ==
    ASSUME IInv, FInv, IInv', NEW t \in Threads, Attempt(t)
    PROVE  FInv'
<1>1. /\ pc[t] = "top" /\ since' = [since EXCEPT ![t] = stamp]
      /\ pc' = [pc EXCEPT ![t] = pc'[t]] /\ pc'[t] \in {"find", "open"}
      /\ UNCHANGED <<connecting, seen, stamp, error>>
  BY DEF Attempt, poolVars, IInv, TypeOK
<1>2. Waiting' = Waiting /\ t \notin Waiting
  BY <1>1 DEF IInv, TypeOK, Waiting
<1>3. error[t] = 0
  BY <1>1 DEF FInv
<1>4. \A x \in Waiting' : WaiterSeesFresh(x)'
  BY <1>1, <1>2 DEF FInv, WaiterSeesFresh, IInv, TypeOK, Waiting
<1>5. \A x \in Threads : since'[x] <= stamp' /\ (error'[x] # 0 => pc'[x] = "failed" /\ error'[x] > since'[x])
  BY <1>1, <1>3 DEF FInv, FailureIsFresh, IInv, TypeOK
<1>6. QED
  BY <1>1, <1>2, <1>4, <1>5 DEF FInv, FailureIsFresh

\* Every step, given the invariant of the counts before and after it.
LEMMA FreshStep == IInv /\ FInv /\ [Next]_vars /\ IInv' => FInv'
<1> SUFFICES ASSUME IInv, FInv, [Next]_vars, IInv' PROVE FInv'
  OBVIOUS
<1>0. TypeOK /\ TypeOK'
  BY DEF IInv
<1>1. ASSUME NEW t \in Threads, Begin(t) \/ Step(t) \/ WakeSpuriously(t) PROVE FInv'
  <2>1. CASE Look(t) \/ Wait(t) \/ Settle(t) \/ Attempt(t)
    BY <2>1, FreshLook, FreshWait, FreshSettle, FreshAttempt
  <2>2. ASSUME NEW outcome \in {"fails", "http1", "h2", "preface"}, Open(t, outcome) PROVE FInv'
    <3>1. /\ pc[t] = "open" /\ pc' = [pc EXCEPT ![t] = AfterOpen(t, outcome)]
          /\ UNCHANGED <<connecting, seen, history>> /\ next'[t] \notin {"asleep", "woken"}
      BY <1>0, <2>2 DEF Open, TypeOK
    <3>2. Waiting' = Waiting
      BY <1>0, <3>1 DEF AfterOpen, TypeOK, Waiting
    <3>3. QED
      BY <1>0, <3>1, <3>2, FreshQuiet DEF history, TypeOK
  <2>3. CASE NoteNotify(t) \/ SettleNotify(t)
    <3>1. /\ pc[t] \in {"noted", "notify"}
          /\ UNCHANGED <<poolVars, attemptVars, history>>
          /\ pc' = [Roused EXCEPT ![t] = pc'[t]] /\ pc'[t] \notin {"asleep", "woken"}
      BY <1>0, <2>3 DEF NoteNotify, SettleNotify, TypeOK, Roused
    <3>2. Waiting' = Waiting /\ \A x \in Threads : pc[x] = "failed" => pc'[x] = "failed"
      BY <1>0, <3>1 DEF Roused, TypeOK, Waiting
    <3>3. QED
      BY <1>0, <3>1, <3>2, FreshQuiet DEF poolVars, attemptVars, history
  <2>4. CASE Note(t) \/ Begin(t) \/ WakeSpuriously(t) \/ TakeIdle(t) \/ StartExchange(t)
    <3>1. /\ UNCHANGED <<connecting, attemptVars, history>>
          /\ pc' = [pc EXCEPT ![t] = pc'[t]]
          /\ pc[t] # "failed" /\ (pc[t] \in {"asleep", "woken"} <=> pc'[t] \in {"asleep", "woken"})
      BY <1>0, <2>4 DEF Note, Begin, WakeSpuriously, TakeIdle, StartExchange, poolVars, TypeOK
    <3>2. Waiting' = Waiting
      BY <1>0, <3>1 DEF TypeOK, Waiting
    <3>3. QED
      BY <1>0, <3>1, <3>2, FreshQuiet DEF attemptVars, history, TypeOK
  <2>5. CASE \/ \E outcome \in {"Done", "Retry", "ProtocolFailure", "Failed"} : EndExchange(t, outcome)
             \/ \E outcome \in {"done", "failed"} : Http1(t, outcome)
    <3>1. /\ UNCHANGED <<connecting, seen, history>>
          /\ pc' = [pc EXCEPT ![t] = pc'[t]]
          /\ pc[t] \in {"exchange", "exchanging", "http1"} /\ pc'[t] \notin {"asleep", "woken"}
      BY <1>0, <2>5 DEF EndExchange, Http1, Outcomes, poolVars, attemptVars, TypeOK
    <3>2. Waiting' = Waiting
      BY <1>0, <3>1 DEF TypeOK, Waiting
    <3>3. QED
      BY <1>0, <3>1, <3>2, FreshQuiet DEF history, TypeOK
  <2>6. QED
    BY <1>1, <2>1, <2>2, <2>3, <2>4, <2>5 DEF Step
<1>2. CASE (\E s \in Sessions : SessionGoes(s)) \/ Forget \/ Clear \/ AllOver \/ UNCHANGED vars
  <2>1. UNCHANGED <<connecting, pc, seen, stamp, since, error>>
    BY <1>2 DEF SessionGoes, Forget, Clear, AllOver, vars, poolVars, attemptVars, history
  <2>2. Waiting' = Waiting
    BY <2>1 DEF Waiting
  <2>3. QED
    BY <1>0, <2>1, <2>2, FreshQuiet
<1>3. QED
  BY <1>1, <1>2 DEF Next

\* An error find_session hands to a fetch is of a connection that failed after
\* that fetch came, never one left in the entry from before.
THEOREM FailuresFresh == Spec => []FailureIsFresh
<1>1. FInv => FailureIsFresh
  BY DEF FInv
<1>2. Spec => []FInv
  BY FreshInit, FreshStep, Invariant, PTL DEF Spec
<1>3. QED
  BY <1>1, <1>2, PTL

-----------------------------------------------------------------------------
\* ToldOfHttp1, where the memory of HTTP/1.1 origins is not started over.  Who
\* holds a claim asked for HTTP/2, so that word of HTTP/1.1 has gone to the pool
\* by the time it settles, and who looks after that claims nothing.

Searching == {"find", "asleep", "woken"}
Asks(t) == held[t] \/ pc[t] \in Searching => wants[t]
Heard(t) == pc[t] \in {"noted", "settle"} /\ next[t] = "http1" => http1Only

TInv ==
    /\ \A t \in Threads : Asks(t) /\ Heard(t)
    /\ told # {} => http1Only
    /\ ToldOfHttp1

LEMMA ToldInit == Init => TInv
  BY DEF Init, TInv, Asks, Heard, Searching, ToldOfHttp1

\* A step that leaves the claims and the word of HTTP/1.1 alone, and brings nobody
\* to the search or to settle.
LEMMA ToldQuiet ==
    ASSUME TInv, UNCHANGED <<http1Only, held, wants, told>>,
           \A x \in Threads :
              \/ pc'[x] \notin Searching \cup {"noted", "settle"}
              \/ pc'[x] \in Searching /\ pc[x] \in Searching
              \/ pc'[x] \in {"noted", "settle"} /\ pc[x] \in {"noted", "settle"} /\ next'[x] = next[x]
    PROVE  TInv'
<1>1. Holders' = Holders
  BY DEF Holders
<1>2. \A x \in Threads : Asks(x)' /\ Heard(x)'
  BY DEF TInv, Asks, Heard, Searching
<1>3. QED
  BY <1>1, <1>2 DEF TInv, ToldOfHttp1

LEMMA ToldMove ==
    ASSUME IInv, TInv, NEW t \in Threads,
           \/ Begin(t) \/ WakeSpuriously(t) \/ TakeIdle(t) \/ StartExchange(t)
           \/ NoteNotify(t) \/ SettleNotify(t)
           \/ \E outcome \in {"Done", "Retry", "ProtocolFailure", "Failed"} : EndExchange(t, outcome)
           \/ \E outcome \in {"done", "failed"} : Http1(t, outcome)
    PROVE  TInv'
<1>0. TypeOK /\ ClaimIsOpening
  BY DEF IInv
<1>1. CASE Begin(t) \/ WakeSpuriously(t) \/ TakeIdle(t) \/ StartExchange(t)
  <2>1. /\ UNCHANGED <<http1Only, held, wants, told, next>>
        /\ \/ pc[t] \in Searching /\ pc' = [pc EXCEPT ![t] = "woken"]
           \/ pc' = [pc EXCEPT ![t] = "top"]
           \/ pc' = [pc EXCEPT ![t] = "http1"]
           \/ pc' = [pc EXCEPT ![t] = "exchanging"]
    BY <1>1 DEF Begin, WakeSpuriously, TakeIdle, StartExchange, poolVars, attemptVars, history, Searching
  <2>2. /\ pc'[t] \in {"top", "http1", "exchanging"} \/ (pc'[t] = "woken" /\ pc[t] \in Searching)
        /\ \A x \in Threads : x # t => pc'[x] = pc[x]
    BY <1>0, <2>1 DEF TypeOK
  <2>3. QED
    BY <2>1, <2>2, ToldQuiet DEF Searching
<1>2. CASE NoteNotify(t)
  <2>1. /\ UNCHANGED <<http1Only, held, wants, told, next>> /\ pc[t] = "noted"
        /\ pc' = [Roused EXCEPT ![t] = IF held[t] THEN "settle" ELSE next[t]]
    BY <1>2 DEF NoteNotify, poolVars, attemptVars, history
  <2>2. /\ pc'[t] \notin Searching \cup {"noted"}
        /\ \A x \in Threads : x # t => pc'[x] = IF pc[x] = "asleep" THEN "woken" ELSE pc[x]
    BY <1>0, <2>1 DEF TypeOK, Roused, Searching
  <2>3. QED
    BY <2>1, <2>2, ToldQuiet DEF Searching
<1>3. CASE SettleNotify(t)
  <2>1. /\ UNCHANGED <<http1Only, held, wants, told, next>> /\ pc[t] = "notify"
        /\ pc' = [Roused EXCEPT ![t] = next[t]]
    BY <1>3 DEF SettleNotify, poolVars, attemptVars, history
  <2>2. /\ pc'[t] \notin Searching \cup {"noted", "settle"}
        /\ \A x \in Threads : x # t => pc'[x] = IF pc[x] = "asleep" THEN "woken" ELSE pc[x]
    BY <1>0, <2>1 DEF TypeOK, Roused, Searching
  <2>3. QED
    BY <2>1, <2>2, ToldQuiet DEF Searching
<1>4. CASE \/ \E outcome \in {"Done", "Retry", "ProtocolFailure", "Failed"} : EndExchange(t, outcome)
           \/ \E outcome \in {"done", "failed"} : Http1(t, outcome)
  <2>1. /\ UNCHANGED <<http1Only, held, wants, told>>
        /\ next' = next \/ next' = [next EXCEPT ![t] = "top"]
        /\ \E to \in {"done", "top", "note", "failed"} : pc' = [pc EXCEPT ![t] = to]
    BY <1>4 DEF EndExchange, Http1, poolVars, attemptVars, history
  <2>2. /\ pc'[t] \notin Searching \cup {"noted", "settle"}
        /\ \A x \in Threads : x # t => pc'[x] = pc[x] /\ next'[x] = next[x]
    BY <1>0, <2>1 DEF TypeOK, Searching
  <2>3. QED
    BY <2>1, <2>2, ToldQuiet DEF Searching
<1>5. QED
  BY <1>1, <1>2, <1>3, <1>4

LEMMA ToldAttempt ==
    ASSUME IInv, TInv, NEW t \in Threads, Attempt(t)
    PROVE  TInv'
<1>0. TypeOK /\ ClaimIsOpening
  BY DEF IInv
<1> DEFINE want == ~forced[t] /\ ~http1Only
<1>1. /\ pc[t] = "top" /\ wants' = [wants EXCEPT ![t] = want]
      /\ pc' = [pc EXCEPT ![t] = IF want THEN "find" ELSE "open"]
      /\ UNCHANGED <<http1Only, held, told, next>>
  BY DEF Attempt, poolVars
<1>2. ~held[t] /\ Holders' = Holders
  BY <1>0, <1>1 DEF ClaimIsOpening, Holders
<1>3. /\ (pc'[t] = "find" /\ wants'[t]) \/ pc'[t] = "open"
      /\ \A x \in Threads : x # t => pc'[x] = pc[x] /\ wants'[x] = wants[x]
  BY <1>0, <1>1 DEF TypeOK
<1>4. \A x \in Threads : Asks(x)' /\ Heard(x)'
  BY <1>1, <1>2, <1>3 DEF TInv, Asks, Heard, Searching
<1>5. QED
  BY <1>1, <1>2, <1>4 DEF TInv, ToldOfHttp1

LEMMA ToldLook ==
    ASSUME IInv, TInv, NEW t \in Threads, Look(t) \/ Wait(t)
    PROVE  TInv'
<1>0. TypeOK /\ ClaimIsOpening
  BY DEF IInv
<1>1. /\ Looks(t) /\ UNCHANGED <<http1Only, wants, next>>
      /\ \E to \in {"done", "open", "exchange", "failed", "asleep"} : pc' = [pc EXCEPT ![t] = to]
      /\ \/ held' = held /\ told' \subseteq told
         \/ ~http1Only /\ held' = [held EXCEPT ![t] = TRUE] /\ told' \subseteq told
  BY DEF Look, Wait, FindHttp1Only, FindSession, FindFailure, FindClaim
<1>2. wants[t] /\ pc[t] \in Searching
  BY <1>1 DEF TInv, Asks, Looks, Searching
<1>3. /\ pc'[t] \notin {"noted", "settle"}
      /\ \A x \in Threads : x # t => pc'[x] = pc[x] /\ held'[x] = held[x]
  BY <1>0, <1>1 DEF TypeOK
<1>4. \A x \in Threads : Asks(x)' /\ Heard(x)'
  BY <1>1, <1>2, <1>3 DEF TInv, Asks, Heard
<1>5. told' # {} => http1Only
  BY <1>1 DEF TInv
<1>6. ToldOfHttp1'
  <2>1. CASE held' = held
    BY <1>1, <2>1 DEF TInv, ToldOfHttp1, Holders
  <2>2. CASE ~http1Only
    BY <1>5, <2>2 DEF ToldOfHttp1
  <2>3. QED
    BY <1>1, <2>1, <2>2
<1>7. QED
  BY <1>1, <1>4, <1>5, <1>6 DEF TInv

LEMMA ToldOpen ==
    ASSUME IInv, TInv, NEW t \in Threads, NEW outcome \in {"fails", "http1", "h2", "preface"}, Open(t, outcome)
    PROVE  TInv'
<1>0. TypeOK
  BY DEF IInv
<1>1. /\ pc' = [pc EXCEPT ![t] = AfterOpen(t, outcome)]
      /\ UNCHANGED <<http1Only, held, wants, told>>
      /\ \E to \in {"exchange", "http1", "top", "done", "failed"} :
            next' = [next EXCEPT ![t] = to] /\ (to = "http1" => outcome = "http1")
  <2> DEFINE to == CASE outcome = "http1" -> "http1"
                     [] t \in Hints /\ outcome # "http1" -> "done"
                     [] OTHER -> [fails |-> "failed", h2 |-> "exchange", preface |-> "top"][outcome]
  <2>1. to \in {"exchange", "http1", "top", "done", "failed"} /\ (to = "http1" => outcome = "http1")
    OBVIOUS
  <2>2. next' = [next EXCEPT ![t] = to]
    BY DEF Open
  <2>3. QED
    BY <2>1, <2>2 DEF Open, history
<1>2. /\ next'[t] \in {"exchange", "http1", "top", "done", "failed"}
      /\ next'[t] = "http1" => outcome = "http1"
      /\ \A x \in Threads : x # t => next'[x] = next[x]
  BY <1>0, <1>1 DEF TypeOK
<1>3. held[t] => wants[t]
  BY DEF TInv, Asks
<1>4. AfterOpen(t, outcome) = "settle" => next'[t] # "http1"
  BY <1>2, <1>3 DEF AfterOpen
<1>5. AfterOpen(t, outcome) \notin Searching \cup {"noted"}
  BY <1>2 DEF AfterOpen, Searching
<1>6. /\ pc'[t] = AfterOpen(t, outcome)
      /\ \A x \in Threads : x # t => pc'[x] = pc[x]
  BY <1>0, <1>1 DEF TypeOK
<1>7. \A x \in Threads : Asks(x)' /\ Heard(x)'
  BY <1>1, <1>2, <1>3, <1>4, <1>5, <1>6 DEF TInv, Asks, Heard
<1>8. Holders' = Holders
  BY <1>1 DEF Holders
<1>9. QED
  BY <1>1, <1>7, <1>8 DEF TInv, ToldOfHttp1

LEMMA ToldNote ==
    ASSUME IInv, TInv, NEW t \in Threads, Note(t)
    PROVE  TInv'
<1>0. TypeOK
  BY DEF IInv
<1>1. /\ pc' = [pc EXCEPT ![t] = "noted"] /\ http1Only' = TRUE
      /\ UNCHANGED <<held, wants, told, next>>
  BY DEF Note, attemptVars, history
<1>2. pc'[t] = "noted" /\ \A x \in Threads : x # t => pc'[x] = pc[x]
  BY <1>0, <1>1 DEF TypeOK
<1>3. \A x \in Threads : Asks(x)' /\ Heard(x)'
  BY <1>1, <1>2 DEF TInv, Asks, Heard, Searching
<1>4. Holders' = Holders
  BY <1>1 DEF Holders
<1>5. QED
  BY <1>1, <1>3, <1>4 DEF TInv, ToldOfHttp1

LEMMA ToldSettle ==
    ASSUME IInv, TInv, NEW t \in Threads, Settle(t)
    PROVE  TInv'
<1>0. TypeOK /\ ClaimIsOpening
  BY DEF IInv
<1>1. /\ pc[t] = "settle" /\ pc' = [pc EXCEPT ![t] = "notify"] /\ held' = [held EXCEPT ![t] = FALSE]
      /\ UNCHANGED <<http1Only, wants, next>>
      /\ told' \subseteq told \/ (next[t] = "http1" /\ told' \subseteq told \cup Waiting)
  BY DEF Settle
<1>2. /\ pc'[t] = "notify" /\ ~held'[t]
      /\ \A x \in Threads : x # t => pc'[x] = pc[x] /\ held'[x] = held[x]
  BY <1>0, <1>1 DEF TypeOK
<1>3. \A x \in Threads : Asks(x)' /\ Heard(x)'
  BY <1>1, <1>2 DEF TInv, Asks, Heard, Searching
<1>4. next[t] = "http1" => http1Only
  BY <1>1 DEF TInv, Heard
<1>5. Holders' \subseteq Holders /\ Holders \cap Waiting = {}
  BY <1>0, <1>2 DEF Holders, Waiting, ClaimIsOpening
<1>6. QED
  BY <1>1, <1>3, <1>4, <1>5 DEF TInv, ToldOfHttp1

LEMMA ToldStep ==
    ASSUME ~Forgets, IInv, TInv, [Next]_vars
    PROVE  TInv'
<1>1. ASSUME NEW t \in Threads, Begin(t) \/ Step(t) \/ WakeSpuriously(t) PROVE TInv'
  BY <1>1, ToldMove, ToldAttempt, ToldLook, ToldOpen, ToldNote, ToldSettle DEF Step
<1>2. CASE (\E s \in Sessions : SessionGoes(s)) \/ Forget \/ Clear \/ AllOver \/ UNCHANGED vars
  <2>1. UNCHANGED <<http1Only, pc, held, wants, next, told>>
    BY <1>2 DEF SessionGoes, Forget, Clear, AllOver, vars, poolVars, attemptVars, history
  <2>2. QED
    BY <2>1, ToldQuiet
<1>3. QED
  BY <1>1, <1>2 DEF Next

\* While the memory of HTTP/1.1 origins does not start over, the waiters of a
\* connection that turned out to speak HTTP/1.1 claim nothing.
THEOREM ToldClaimNothing == ASSUME ~Forgets PROVE Spec => []ToldOfHttp1
<1>1. IInv /\ TInv /\ [Next]_vars => TInv'
  BY ToldStep
<1>2. TInv => ToldOfHttp1
  BY DEF TInv
<1>3. QED
  BY <1>1, <1>2, ToldInit, Invariant, PTL DEF Spec
=============================================================================
