---------------------------- MODULE ShellLoader ----------------------------
(***************************************************************************)
(* ui/ShellLoader over net/FetchPool: what the window's thread asks for    *)
(* ahead of the page (prefetch), the page's own request that claims it     *)
(* (load_subresource, on the window's thread), and the background fetches  *)
(* (fetch_in_background) whose work claims it on one of the pool's threads *)
(* and waits there.  The pool's steps are FetchPool's own.                 *)
(***************************************************************************)
EXTENDS FetchPool

CONSTANTS
    Ahead,       \* the jobs that prefetch() submits; the others are background fetches
    Urls,
    UrlOf        \* the address (with kind and container: ahead_key) of each job

ASSUME AheadAssumption == Ahead \subseteq Jobs
ASSUME UrlAssumption == UrlOf \in [Jobs -> Urls]
ASSUME WindowAssumption == {"free", "taking"} \cap Jobs = {}

VARIABLES
    ahead,       \* m_ahead: the ticket asked for and not yet claimed, by key
    window,      \* what the window's thread is inside: nothing, a prefetch, a take()
    stage,       \* how far a thread's work is
    claim        \* the ticket a background fetch has claimed

loaderVars == <<ahead, window, stage, claim>>
allVars == <<vars, loaderVars>>

TicketAt(u) == IF ahead[u] = None THEN {} ELSE {ahead[u]}

LoaderTypeOK ==
    /\ TypeOK /\ CountsAreExact
    /\ ahead \in [Urls -> Ahead \cup {None}]
    /\ window \in {"free", "taking"} \cup Jobs
    /\ stage \in [Threads -> {"begun", "waiting", "fetching"}]
    /\ claim \in [Threads -> Ahead \cup {None}]

LoaderInit ==
    /\ Init
    /\ ahead = [u \in Urls |-> None]
    /\ window = "free"
    /\ stage = [w \in Threads |-> "begun"]
    /\ claim = [w \in Threads |-> None]

-----------------------------------------------------------------------------
\* The window's thread.

\* prefetch(): nobody asked for this address yet, and only this thread asks.
Prefetch(j) ==
    /\ window = "free" /\ j \in Ahead /\ ahead[UrlOf[j]] = None
    /\ Submit(j)
    /\ window' = j
    /\ UNCHANGED <<ahead, stage, claim>>

\* m_ahead[key] = ticket, once submit() has returned.
NoteAhead(j) ==
    /\ window = j /\ j \in Ahead /\ j \notin toNotify
    /\ ahead' = [ahead EXCEPT ![UrlOf[j]] = j]
    /\ window' = "free"
    /\ UNCHANGED <<vars, stage, claim>>

\* prefetch() first lets go of what nobody claimed within a minute, and of the
\* oldest past 512.
LetGo(u) ==
    /\ window = "free" /\ ahead[u] # None
    /\ ahead' = [ahead EXCEPT ![u] = None]
    /\ UNCHANGED <<vars, window, stage, claim>>

FetchInBackground(j) ==
    /\ window = "free" /\ j \notin Ahead
    /\ Submit(j)
    /\ window' = j
    /\ UNCHANGED <<ahead, stage, claim>>

BackgroundAsked(j) ==
    /\ window = j /\ j \notin Ahead /\ j \notin toNotify
    /\ window' = "free"
    /\ UNCHANGED <<vars, ahead, stage, claim>>

ClaimedKept(u) == ahead                       \* slip: found, and left in the map
Claimed(u) == [ahead EXCEPT ![u] = None]

\* load_subresource(): claims the ticket and takes its result, waiting if need be.
LoadSubresource(t, u) ==
    /\ window = "free" /\ ahead[u] # None
    /\ ahead' = Claimed(u)
    /\ Take(t, ahead[u])
    /\ window' = "taking"
    /\ UNCHANGED <<stage, claim>>

Loaded ==
    /\ window = "taking"
    /\ \A t \in Takers : taker[t].at \notin {"asleep", "woken"}
    /\ window' = "free"
    /\ UNCHANGED <<vars, ahead, stage, claim>>

-----------------------------------------------------------------------------
\* The work, on a thread of the pool.

\* A background fetch claims what was asked for ahead, as the page would.
BeginWork(w) ==
    /\ pc[w] = "working" /\ stage[w] = "begun"
    /\ LET u == UrlOf[job[w]] IN
         IF job[w] \notin Ahead /\ ahead[u] # None
           THEN /\ claim' = [claim EXCEPT ![w] = ahead[u]]
                /\ ahead' = Claimed(u)
                /\ stage' = [stage EXCEPT ![w] = "waiting"]
           ELSE /\ stage' = [stage EXCEPT ![w] = "fetching"]
                /\ UNCHANGED <<ahead, claim>>
    /\ UNCHANGED <<vars, window>>

\* ahead->take() on the pool's thread; the ticket's own wait is FetchPool's.
TakeAhead(w) ==
    /\ stage[w] = "waiting" /\ done[claim[w]]
    /\ result' = [result EXCEPT ![claim[w]] = "none"]
    /\ stage' = [stage EXCEPT ![w] = "fetching"]
    /\ UNCHANGED <<poolVars, done, dropped, dtor, taker, wake, ahead, window, claim>>

EndWork(w) ==
    /\ stage[w] = "fetching"
    /\ Answer(w)
    /\ stage' = [stage EXCEPT ![w] = "begun"]
    /\ claim' = [claim EXCEPT ![w] = None]
    /\ UNCHANGED <<ahead, window>>

PoolThread(w) ==
    \/ Arrive(w) \/ LookAgain(w) \/ NotifyTicket(w) \/ Discount(w) \/ CallWake(w)

LoaderNext ==
    \/ \E j \in Jobs : \/ Prefetch(j) \/ NoteAhead(j)
                       \/ FetchInBackground(j) \/ BackgroundAsked(j)
    \/ \E u \in Urls : LetGo(u) \/ \E t \in Takers : LoadSubresource(t, u)
    \/ Loaded
    \/ \E w \in Threads : BeginWork(w) \/ TakeAhead(w) \/ EndWork(w)
    \/ /\ \/ \E j \in Jobs : NotifyOne(j)
          \/ \E w \in Threads : PoolThread(w) \/ WakeSpuriously(w)
          \/ window = "free" /\ Stop
          \/ NotifyAll \/ AnswerDropped \/ Join
          \/ \E t \in Takers : TakeAgain(t)
          \/ LoopTurn
          \/ Over
       /\ UNCHANGED loaderVars

\* As FetchPool's: threads that can run do, and a fetch of its own ends.  The
\* window's thread finishes the calls it is inside.
LoaderFairness ==
    /\ \A j \in Jobs : WF_allVars(NotifyOne(j) /\ UNCHANGED loaderVars)
                       /\ WF_allVars(NoteAhead(j)) /\ WF_allVars(BackgroundAsked(j))
    /\ WF_allVars(Loaded)
    /\ \A w \in Threads :
          WF_allVars(\/ BeginWork(w) \/ TakeAhead(w) \/ EndWork(w)
                     \/ PoolThread(w) /\ UNCHANGED loaderVars)
    /\ WF_allVars((NotifyAll \/ AnswerDropped \/ Join) /\ UNCHANGED loaderVars)
    /\ \A t \in Takers : WF_allVars(TakeAgain(t) /\ UNCHANGED loaderVars)

LoaderSpec == LoaderInit /\ [][LoaderNext]_allVars /\ LoaderFairness

-----------------------------------------------------------------------------
\* Properties.

\* What was asked for ahead is handed to one claimant: no two of the page's
\* requests and the background fetches hold the same ticket, so none of them is
\* told "the fetch's result was taken already".
OneClaimant ==
    \A j \in Ahead :
        LET takers == {t \in Takers : taker[t].ticket = j}
            workers == {w \in Threads : claim[w] = j}
        IN  /\ Cardinality(takers) + Cardinality(workers) <= 1
            /\ takers \cup workers # {} => ahead[UrlOf[j]] # j
            /\ \A t \in takers : taker[t].at # "empty"

\* Every fetch that has begun ends ("a fetch ends with its sockets' timeouts at
\* the latest", ~FetchPool's comment).
EveryFetchEnds == \A w \in Threads : pc[w] = "working" ~> pc[w] # "working"
=============================================================================
