--------------------------- MODULE ConnectionPool ---------------------------
(***************************************************************************)
(* net/Connections' ConnectionPool as the fetches to one https origin see  *)
(* it (find_session, settle, note_http1_only), with the attempts of        *)
(* fetch_hops and preconnect that call it.  The first fetch claims the     *)
(* origin and opens a connection; the fetches beside it sleep on           *)
(* m_settled until it is known what the connection became.  A step is what *)
(* a thread does under m_mutex, or a notify_all made after it, or the      *)
(* opening or exchange it makes with no lock held.  Other origins share    *)
(* only the condition variable (their notify_all is a spurious wake-up     *)
(* here) and the bound on m_http1_only (Forget).                           *)
(***************************************************************************)
EXTENDS Naturals, FiniteSets

CONSTANTS
    Fetches,    \* threads inside fetch_hops
    Hints,      \* threads inside preconnect
    Sessions,   \* Http2Session objects
    None,       \* no session; no count seen yet
    Forgets     \* whether m_http1_only may fill up and start over

ASSUME ThreadsAssumption == IsFiniteSet(Fetches \cup Hints) /\ Fetches \cap Hints = {}
ASSUME NoneAssumption == None \notin Sessions /\ None \notin Nat

Threads == Fetches \cup Hints

VARIABLES
    connecting,  \* the origin's entry of m_connecting; Absent when there is none
    pooled,      \* the origin's entry of m_sessions
    http1Only,   \* whether m_http1_only holds the origin
    up,          \* the sessions that are accepting()
    pc, held,    \* each thread's place, and its claim.held
    next,        \* where its attempt goes once its connection is settled
    using,       \* the session it found or opened
    seen,        \* find_session's failures_seen
    wants,       \* want_h2 of the attempt
    forced, retried, \* http1_forced and retried
    stamp,       \* how many claims have settled without a session (history)
    since,       \* the stamp when the thread came, or began to wait (history)
    error,       \* the stamp of the failure find_session returned (history)
    vain,        \* whether the claim was taken after waiting in vain (history)
    told         \* threads that were waiting when a claim settled as HTTP/1.1 (history)

poolVars == <<connecting, pooled, http1Only, up>>
attemptVars == <<held, next, using, seen, wants, forced, retried>>
history == <<stamp, since, error, vain, told>>
vars == <<poolVars, pc, attemptVars, history>>

Absent == [claimants |-> 0, waiters |-> 0, failures |-> 0, failure |-> 0]

Waiting == {t \in Threads : pc[t] \in {"asleep", "woken"}}
Asleep == {t \in Threads : pc[t] = "asleep"}
Holders == {t \in Threads : held[t]}
Notifying == {t \in Threads : pc[t] \in {"notify", "noted"}}
Riding == {using[t] : t \in {x \in Threads : pc[x] = "exchanging"}}

TypeOK ==
    /\ connecting \in [claimants : Nat, waiters : Nat, failures : Nat, failure : Nat]
    /\ pooled \in Sessions \cup {None}
    /\ http1Only \in BOOLEAN
    /\ up \in SUBSET Sessions
    /\ pc \in [Threads -> {"idle", "top", "find", "asleep", "woken", "open", "note", "noted",
                           "settle", "notify", "exchange", "exchanging", "http1", "done", "failed"}]
    /\ held \in [Threads -> BOOLEAN]
    /\ next \in [Threads -> {"exchange", "http1", "top", "done", "failed"}]
    /\ using \in [Threads -> Sessions \cup {None}]
    /\ seen \in [Threads -> Nat \cup {None}]
    /\ wants \in [Threads -> BOOLEAN]
    /\ forced \in [Threads -> BOOLEAN] /\ retried \in [Threads -> BOOLEAN]
    /\ stamp \in Nat /\ since \in [Threads -> Nat] /\ error \in [Threads -> Nat]
    /\ vain \in [Threads -> BOOLEAN] /\ told \in SUBSET Threads

Init ==
    /\ connecting = Absent /\ pooled = None /\ http1Only = FALSE /\ up = {}
    /\ pc = [t \in Threads |-> "idle"]
    /\ held = [t \in Threads |-> FALSE]
    /\ next = [t \in Threads |-> "done"]
    /\ using = [t \in Threads |-> None]
    /\ seen = [t \in Threads |-> None]
    /\ wants = [t \in Threads |-> FALSE]
    /\ forced = [t \in Threads |-> FALSE] /\ retried = [t \in Threads |-> FALSE]
    /\ stamp = 0
    /\ since = [t \in Threads |-> 0] /\ error = [t \in Threads |-> 0]
    /\ vain = [t \in Threads |-> FALSE] /\ told = {}

-----------------------------------------------------------------------------
\* The head of an attempt: HTTP/2 is asked for unless it failed before or the
\* origin is known to speak only HTTP/1.1.

Begin(t) ==
    /\ pc[t] = "idle"
    /\ pc' = [pc EXCEPT ![t] = "top"]
    /\ UNCHANGED <<poolVars, attemptVars, history>>

Attempt(t) ==
    /\ pc[t] = "top"
    /\ LET want == ~forced[t] /\ ~http1Only IN
         /\ wants' = [wants EXCEPT ![t] = want]
         /\ pc' = [pc EXCEPT ![t] = IF want THEN "find" ELSE "open"]
    /\ since' = [since EXCEPT ![t] = stamp]
    /\ UNCHANGED <<poolVars, held, next, using, seen, forced, retried, stamp, error, vain, told>>

-----------------------------------------------------------------------------
\* find_session(), one pass of its loop with m_mutex held.

\* expire_sessions: a session that went away goes; so may one no stream has
\* used for m_max_idle_seconds, which find_session then closes.
Expired ==
    {IF pooled \in up THEN pooled ELSE None}
        \cup (IF pooled \in Riding THEN {} ELSE {None})

\* The entry as this thread sees it: a woken waiter has taken its mark back.
WokenStill(t) == connecting                   \* slip: a waiter that never leaves
Seen(t) == IF pc[t] = "woken" THEN [connecting EXCEPT !.waiters = @ - 1] ELSE connecting

\* "An entry goes when nobody holds it."
KeptByClaims(c) == IF c.claimants = 0 THEN Absent ELSE c    \* slip: waiters ignored
Kept(c) == IF c.claimants = 0 /\ c.waiters = 0 THEN Absent ELSE c

\* The connection waited on settled without becoming anything.
WaitedInVainCounted(t) == connecting.failures # 0       \* slip: compared with zero
WaitedInVain(t) == seen[t] # None /\ connecting.failures # seen[t]

Looks(t) == pc[t] \in {"find", "woken"}

FindHttp1Only(t) ==
    /\ Looks(t) /\ http1Only
    /\ connecting' = Kept(Seen(t))
    /\ pc' = [pc EXCEPT ![t] = IF t \in Hints THEN "done" ELSE "open"]
    /\ UNCHANGED <<held, using>>

FindSession(t, session) ==
    /\ Looks(t) /\ ~http1Only /\ session # None
    /\ connecting' = Kept(Seen(t))
    /\ using' = [using EXCEPT ![t] = session]
    /\ pc' = [pc EXCEPT ![t] = IF t \in Hints THEN "done" ELSE "exchange"]
    /\ UNCHANGED held

TakesFailure(t) == WaitedInVain(t) /\ connecting.failure # 0

FindFailure(t, session) ==
    /\ Looks(t) /\ ~http1Only /\ session = None /\ TakesFailure(t)
    /\ connecting' = Kept(Seen(t))
    /\ pc' = [pc EXCEPT ![t] = IF t \in Hints THEN "done" ELSE "failed"]
    /\ UNCHANGED <<held, using>>

MayClaimAlways(t) == TRUE                     \* slip: nobody waits
MayClaim(t) == connecting.claimants = 0 \/ WaitedInVain(t)

FindClaim(t, session) ==
    /\ Looks(t) /\ ~http1Only /\ session = None /\ ~TakesFailure(t) /\ MayClaim(t)
    /\ connecting' = [Seen(t) EXCEPT !.claimants = @ + 1]
    /\ held' = [held EXCEPT ![t] = TRUE]
    /\ pc' = [pc EXCEPT ![t] = "open"]
    /\ UNCHANGED using

Look(t) ==
    \E session \in Expired :
        /\ \/ FindHttp1Only(t)
           \/ FindSession(t, session)
           \/ FindFailure(t, session)
           \/ FindClaim(t, session)
        /\ pooled' = session
        /\ up' = IF session = None THEN up \ {pooled} ELSE up
        /\ seen' = [seen EXCEPT ![t] = None]
        /\ error' = [error EXCEPT ![t] =
                       IF pc'[t] = "failed" THEN connecting.failure ELSE 0]
        /\ vain' = [vain EXCEPT ![t] = held'[t] /\ WaitedInVain(t)]
        /\ told' = IF held'[t] THEN told ELSE told \ {t}
        /\ UNCHANGED <<http1Only, next, wants, forced, retried, stamp, since>>

\* Somebody is opening one: ++waiters and m_settled.wait.
Wait(t) ==
    /\ Looks(t) /\ ~http1Only /\ None \in Expired /\ ~TakesFailure(t) /\ ~MayClaim(t)
    /\ pooled' = None /\ up' = up \ {pooled}
    /\ connecting' = [Seen(t) EXCEPT !.waiters = @ + 1]
    /\ seen' = [seen EXCEPT ![t] = IF @ = None THEN connecting.failures ELSE @]
    /\ since' = [since EXCEPT ![t] = IF pc[t] = "find" THEN stamp ELSE @]
    /\ pc' = [pc EXCEPT ![t] = "asleep"]
    /\ UNCHANGED <<http1Only, held, next, using, wants, forced, retried, stamp, error, vain, told>>

WakeSpuriously(t) ==
    /\ pc[t] = "asleep"
    /\ pc' = [pc EXCEPT ![t] = "woken"]
    /\ UNCHANGED <<poolVars, attemptVars, history>>

-----------------------------------------------------------------------------
\* Opening a connection.  Word of HTTP/1.1 goes to the pool before the claim is
\* settled.

AfterOpenUnnoted(t, outcome) == IF held[t] THEN "settle" ELSE next'[t]  \* slip: no word of HTTP/1.1
AfterOpen(t, outcome) ==
    IF wants[t] /\ outcome \in {"http1", "preface"} /\ ~(t \in Hints /\ outcome = "preface") THEN "note"
    ELSE IF held[t] THEN "settle" ELSE next'[t]

\* What comes of it: no connection, HTTP/1.1, HTTP/2, or HTTP/2 whose preface
\* could not be sent.
Open(t, outcome) ==
    /\ pc[t] = "open"
    /\ outcome \in {"h2", "preface"} => wants[t]
    /\ next' = [next EXCEPT ![t] =
          CASE outcome = "http1" -> "http1"
            [] t \in Hints /\ outcome # "http1" -> "done"
            [] OTHER -> [fails |-> "failed", h2 |-> "exchange", preface |-> "top"][outcome]]
    /\ IF outcome = "h2"
         THEN \E s \in Sessions \ ({using[x] : x \in Threads} \cup {pooled}) :
                 using' = [using EXCEPT ![t] = s] /\ up' = up \cup {s}
         ELSE using' = [using EXCEPT ![t] = None] /\ up' = up
    /\ forced' = [forced EXCEPT ![t] = @ \/ outcome = "preface"]
    /\ pc' = [pc EXCEPT ![t] = AfterOpen(t, outcome)]
    /\ UNCHANGED <<connecting, pooled, http1Only, held, seen, wants, retried, history>>

\* An idle HTTP/1.1 connection from the pool instead, for a fetch with no claim.
TakeIdle(t) ==
    /\ pc[t] = "open" /\ t \in Fetches /\ ~held[t]
    /\ pc' = [pc EXCEPT ![t] = "http1"]
    /\ UNCHANGED <<poolVars, attemptVars, history>>

\* note_http1_only(): under the lock, and then its notify_all.
Note(t) ==
    /\ pc[t] = "note"
    /\ http1Only' = TRUE
    /\ pc' = [pc EXCEPT ![t] = "noted"]
    /\ UNCHANGED <<connecting, pooled, up, attemptVars, history>>

RousedOne == [x \in Threads |->               \* slip: notify_one
    IF x = CHOOSE y \in Threads : Asleep # {} => y \in Asleep
      THEN (IF pc[x] = "asleep" THEN "woken" ELSE pc[x]) ELSE pc[x]]
Roused == [x \in Threads |-> IF pc[x] = "asleep" THEN "woken" ELSE pc[x]]

NoteNotify(t) ==
    /\ pc[t] = "noted"
    /\ pc' = [Roused EXCEPT ![t] = IF held[t] THEN "settle" ELSE next[t]]
    /\ UNCHANGED <<poolVars, attemptVars, history>>

\* settle(), under the lock.  A hint's failure is settled with no error.
Settled(c) == IF c.claimants > 0 THEN [c EXCEPT !.claimants = @ - 1] ELSE c

Failure(t) == IF next[t] = "failed" THEN stamp + 1 ELSE 0
Failed(c, why) == [claimants |-> c.claimants, waiters |-> c.waiters,
                   failures |-> c.failures + 1, failure |-> why]

Settle(t) ==
    /\ pc[t] = "settle"
    /\ LET c == Settled(connecting) IN
         connecting' = Kept(IF using[t] = None THEN Failed(c, Failure(t)) ELSE c)
    /\ pooled' = IF using[t] = None THEN pooled ELSE using[t]
    /\ held' = [held EXCEPT ![t] = FALSE]
    /\ vain' = [vain EXCEPT ![t] = FALSE]
    /\ stamp' = IF using[t] = None THEN stamp + 1 ELSE stamp
    /\ told' = (IF next[t] = "http1" THEN told \cup Waiting ELSE told) \ {t}
    /\ pc' = [pc EXCEPT ![t] = "notify"]
    /\ UNCHANGED <<http1Only, up, next, using, seen, wants, forced, retried, since, error>>

SettleNotify(t) ==
    /\ pc[t] = "notify"
    /\ pc' = [Roused EXCEPT ![t] = next[t]]
    /\ UNCHANGED <<poolVars, attemptVars, history>>

-----------------------------------------------------------------------------
\* The exchange over the session, and what fetch_hops makes of its outcome.

StartExchange(t) ==
    /\ pc[t] = "exchange" /\ using[t] \in up
    /\ pc' = [pc EXCEPT ![t] = "exchanging"]
    /\ UNCHANGED <<poolVars, attemptVars, history>>

\* A session that is no longer accepting refuses: Retry, or ProtocolFailure.
Outcomes(t) ==
    CASE pc[t] = "exchange" /\ using[t] \notin up -> {"Retry", "ProtocolFailure"}
      [] pc[t] = "exchanging" -> {"Done", "Retry", "ProtocolFailure", "Failed"}
      [] OTHER -> {}

RetriesAlways(t, outcome) == outcome = "Retry"            \* slip: again and again
Retries(t, outcome) == outcome = "Retry" /\ ~retried[t]

EndExchange(t, outcome) ==
    /\ outcome \in Outcomes(t)
    /\ using' = [using EXCEPT ![t] = None]
    /\ retried' = [retried EXCEPT ![t] = @ \/ Retries(t, outcome)]
    /\ forced' = [forced EXCEPT ![t] = @ \/ outcome = "ProtocolFailure"]
    /\ next' = [next EXCEPT ![t] = "top"]
    /\ pc' = [pc EXCEPT ![t] =
          IF outcome = "Done" THEN "done"
          ELSE IF Retries(t, outcome) THEN "top"
          ELSE IF outcome = "ProtocolFailure" THEN "note" ELSE "failed"]
    /\ UNCHANGED <<poolVars, held, seen, wants, history>>

\* The HTTP/1.1 exchange, its one retry on a fresh connection included; a hint
\* only leaves the connection in the pool.
Http1(t, outcome) ==
    /\ pc[t] = "http1"
    /\ t \in Hints => outcome = "done"
    /\ pc' = [pc EXCEPT ![t] = outcome]
    /\ UNCHANGED <<poolVars, attemptVars, history>>

-----------------------------------------------------------------------------
\* The peer, and the other origins.

\* The server says GOAWAY, or the connection under the session is lost.
SessionGoes(s) ==
    /\ s \in up
    /\ up' = up \ {s}
    /\ UNCHANGED <<connecting, pooled, http1Only, pc, attemptVars, history>>

\* Another origin's note found the memory full and started it over.
Forget ==
    /\ Forgets /\ http1Only
    /\ http1Only' = FALSE
    /\ told' = {}
    /\ UNCHANGED <<connecting, pooled, up, pc, attemptVars, stamp, since, error, vain>>

\* clear(): the sessions are closed, the claims under way stay.
Clear ==
    /\ pooled # None
    /\ pooled' = None
    /\ up' = up \ {pooled}
    /\ UNCHANGED <<connecting, http1Only, pc, attemptVars, history>>

Step(t) ==
    \/ Attempt(t) \/ Look(t) \/ Wait(t)
    \/ \E outcome \in {"fails", "http1", "h2", "preface"} : Open(t, outcome)
    \/ TakeIdle(t)
    \/ Note(t) \/ NoteNotify(t) \/ Settle(t) \/ SettleNotify(t)
    \/ StartExchange(t)
    \/ \E outcome \in {"Done", "Retry", "ProtocolFailure", "Failed"} : EndExchange(t, outcome)
    \/ \E outcome \in {"done", "failed"} : Http1(t, outcome)

AllOver == (\A t \in Threads : pc[t] \in {"done", "failed"}) /\ UNCHANGED vars

Next ==
    \/ \E t \in Threads : Begin(t) \/ Step(t) \/ WakeSpuriously(t)
    \/ \E s \in Sessions : SessionGoes(s)
    \/ Forget \/ Clear \/ AllOver

\* A thread that can run does, and an opening or an exchange ends with the
\* socket's timeouts.  No fetch need begin, no session need end and no wake-up
\* comes unasked.
Fairness == \A t \in Threads : WF_vars(Step(t))

Spec == Init /\ [][Next]_vars /\ Fairness

-----------------------------------------------------------------------------
\* Properties.

\* The entry's claimants and waiters are exactly the fetches that hold a claim
\* and the fetches inside find_session's wait, so that the entry stays as long
\* as one of them needs it and goes with the last.
ClaimsAreCounted ==
    /\ connecting.claimants = Cardinality(Holders)
    /\ connecting.waiters = Cardinality(Waiting)

\* A fetch asleep on m_settled waits for somebody: a fetch that holds a claim,
\* or a settle or note whose notify_all is still to come.
SleeperIsAwaited == Asleep # {} => Holders \cup Notifying # {}

\* Only one fetch opens the first connection; others open beside it only when
\* one they waited on came to nothing.
OneOpensFirst == Cardinality({t \in Holders : ~vain[t]}) <= 1

\* "The fetches that waited on it fail with its error": an error find_session
\* hands to a fetch is of a connection that failed while that fetch waited,
\* never one left over from before it came.
FailureIsFresh == \A t \in Threads : error[t] # 0 => error[t] > since[t]

\* The waiters of a connection that turned out to speak HTTP/1.1 read that and
\* claim nothing ("do not open connections asking for h2 again"), until the
\* origin is forgotten.
ToldOfHttp1 == told \cap Holders = {}

\* Every attempt a fetch or a hint begins ends: each claim is settled, each
\* waiter woken, and no fetch goes round its retry loop for ever.
EveryFetchEnds == \A t \in Threads : pc[t] = "top" ~> pc[t] \in {"done", "failed"}
=============================================================================
