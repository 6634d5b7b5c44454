------------------------------- MODULE Fetch -------------------------------
(***************************************************************************)
(* net/Http: fetch_hops(), the loop a fetch runs on its own thread, beside *)
(* others that share with it the session's cache (net/Cache) and its idle  *)
(* HTTP/1.1 connections (net/Connections).  A step is what a fetch does    *)
(* under one lock, or between two waits for the network.  The exchange is  *)
(* HTTP/1.1; module ConnectionPool has the attempts that may ride HTTP/2.  *)
(* The origin is a correct server: 304 answers only a validator of what it *)
(* holds, and every representation has an ETag of its own.                 *)
(***************************************************************************)
EXTENDS Integers, FiniteSets

CONSTANTS
    Fetches,        \* the threads inside fetch_hops()
    Asked,          \* what may be asked: records [method, url, variant]
    Urls,           \* that may be fetched
    Redirections,   \* the statuses the origin redirects with, of 302, 303 and 307
    Refused,        \* the redirect targets hop_refusal() turns down
    MaxRedirects,   \* options.max_redirects
    MaxIdle,        \* m_max_idle_per_origin: every URL is of one origin
    Controls,       \* what the origin says of keeping a response, of three kinds
    None

ASSUME AskedAssumption == \A a \in Asked : a.method \in {"GET", "POST"} /\ a.url \in Urls
ASSUME RedirectionsAssumption == Redirections \subseteq {302, 303, 307}
ASSUME ControlsAssumption == Controls \subseteq {"max-age", "no-cache", "no-store"}
ASSUME LimitsAssumption == MaxRedirects \in Nat /\ MaxIdle \in Nat

VARIABLES
    asked,          \* what each fetch was called with
    pc, hop,
    current, method,
    body,           \* whether the request has its body, and the headers that describe it
    validator,      \* revalidate_etag: that of the copy lookup() found
    revalidationOff,
    reused,         \* the connection came from the idle list
    reply,          \* what the server has answered, on its way or as raw
    result,
    cache,          \* m_entries, at most one for a URL
    idle,           \* how many connections of the origin are in m_idle
    followed,       \* redirects followed  (history)
    rounds          \* rounds of the loop begun  (history)

fetchVars == <<hop, current, method, body, validator, revalidationOff, reused, reply, result>>
history == <<followed, rounds>>
vars == <<asked, pc, fetchVars, cache, idle, history>>

Variants == {a.variant : a \in Asked}

\* A representation, which is also its ETag.  A resource does not change: what
\* changes under a conditional request is the cache.
Bodies == [url : Urls, variant : Variants]
ASSUME NoneAssumption == None \notin Bodies

\* selecting holds the request's value of the header the response varies on.
Entries == [body : Bodies, etag : Bodies, fresh : BOOLEAN, selecting : Variants]
Entry(b, control) ==
    [body |-> b, etag |-> b, fresh |-> control = "max-age", selecting |-> b.variant]

NotModified(etag, control) == [status |-> 304, etag |-> etag, control |-> control]
Ok(b, control) == [status |-> 200, body |-> b, control |-> control]
Redirect(status, to) == [status |-> status, to |-> to]
Other == [status |-> 404]     \* of a GET but 200; of a POST, any that is final

Response(b) == [says |-> "response", body |-> b]
Error(says) == [says |-> says, body |-> None]

\* What an earlier fetch may have left of a URL.
Left == {None} \cup {Entry(b, "no-cache") : b \in Bodies}

Init ==
    /\ asked \in [Fetches -> Asked]
    /\ pc = [f \in Fetches |-> "hop"] /\ hop = [f \in Fetches |-> 0]
    /\ current = [f \in Fetches |-> asked[f].url]
    /\ method = [f \in Fetches |-> asked[f].method]
    /\ body = [f \in Fetches |-> asked[f].method = "POST"]
    /\ validator = [f \in Fetches |-> None]
    /\ revalidationOff = [f \in Fetches |-> FALSE]
    /\ reused = [f \in Fetches |-> FALSE]
    /\ reply = [f \in Fetches |-> None] /\ result = [f \in Fetches |-> None]
    /\ cache \in {c \in [Urls -> Left] : \A u \in Urls : c[u] # None => c[u].body.url = u}
    /\ idle \in 0..MaxIdle
    /\ followed = [f \in Fetches |-> 0] /\ rounds = [f \in Fetches |-> 0]

\* A round's own variables go with it; a fetch's go when it returns.
EndRound(f, then) ==
    /\ validator' = [validator EXCEPT ![f] = None]
    /\ reused' = [reused EXCEPT ![f] = FALSE]
    /\ reply' = [reply EXCEPT ![f] = None]
    /\ pc' = [pc EXCEPT ![f] = then]

Finish(f, r) ==
    /\ result' = [result EXCEPT ![f] = r]
    /\ EndRound(f, "done")

\* What the server would answer a plain GET of this fetch with.
Held(f) == [url |-> current[f], variant |-> asked[f].variant]

-----------------------------------------------------------------------------
\* The head of the loop.  A copy is only for requests of its variant.

Selects(e, f) == e # None /\ e.selecting = asked[f].variant
Hit(f) == method[f] = "GET" /\ Selects(cache[current[f]], f)

TooManyRedirects(f) ==
    /\ pc[f] = "hop" /\ hop[f] > MaxRedirects
    /\ Finish(f, Error("redirects"))
    /\ UNCHANGED <<asked, hop, current, method, body, revalidationOff, cache, idle, history>>

FreshCopy(f) ==
    /\ pc[f] = "hop" /\ hop[f] <= MaxRedirects
    /\ Hit(f) /\ cache[current[f]].fresh
    /\ Finish(f, Response(cache[current[f]].body))
    /\ UNCHANGED <<asked, hop, current, method, body, revalidationOff, cache, idle, history>>

Revalidates(f) == Hit(f) /\ ~revalidationOff[f]

Lookup(f) ==
    /\ pc[f] = "hop" /\ hop[f] <= MaxRedirects
    /\ ~(Hit(f) /\ cache[current[f]].fresh)
    /\ validator' = [validator EXCEPT ![f] = IF Revalidates(f) THEN cache[current[f]].etag ELSE None]
    /\ rounds' = [rounds EXCEPT ![f] = @ + 1]
    /\ pc' = [pc EXCEPT ![f] = "connect"]
    /\ UNCHANGED <<asked, hop, current, method, body, revalidationOff, reused, reply, result,
                   cache, idle, followed>>

-----------------------------------------------------------------------------
\* The exchange: on an idle connection, else on one of its own.

Request(f, pooled) ==
    /\ reused' = [reused EXCEPT ![f] = pooled]
    /\ reply' = [reply EXCEPT ![f] = None]
    /\ pc' = [pc EXCEPT ![f] = "sent"]

Connect(f) ==
    /\ pc[f] = "connect"
    /\ \/ idle > 0 /\ idle' = idle - 1 /\ Request(f, TRUE)
       \/ idle' = 0 /\ Request(f, FALSE)         \* none is left, or they idled too long
    /\ UNCHANGED <<asked, hop, current, method, body, validator, revalidationOff, result, cache,
                   history>>

\* Only a connection that was idle is forgiven for dying; whether the server
\* had read the request nobody asks.
RetriesOnce(f) == reused[f]

Again(f) ==
    /\ pc[f] = "sent" /\ RetriesOnce(f)
    /\ Request(f, FALSE)
    /\ UNCHANGED <<asked, hop, current, method, body, validator, revalidationOff, result, cache,
                   idle, history>>

Status(f, s) == pc[f] = "answer" /\ reply[f].status \in s

\* No connection can be opened, or a new one fails, or the body cannot be decoded.
Fail(f) ==
    /\ \/ pc[f] = "connect" /\ idle' = 0
       \/ pc[f] = "sent" /\ UNCHANGED idle
       \/ Status(f, {200, 404}) /\ UNCHANGED idle
    /\ Finish(f, Error("failed"))
    /\ UNCHANGED <<asked, hop, current, method, body, revalidationOff, cache, history>>

\* The server reads the request and answers.
Answers(f) ==
    {Redirect(status, to) : status \in Redirections, to \in Urls \cup Refused}
      \cup {Other}
      \cup (IF method[f] = "GET" THEN {Ok(Held(f), c) : c \in Controls} ELSE {})
      \cup (IF validator[f] = Held(f) THEN {NotModified(Held(f), c) : c \in Controls} ELSE {})

Serve(f) ==
    /\ pc[f] = "sent" /\ reply[f] = None
    /\ \E r \in Answers(f) : reply' = [reply EXCEPT ![f] = r]
    /\ UNCHANGED <<asked, pc, hop, current, method, body, validator, revalidationOff, reused,
                   result, cache, idle, history>>

\* give(): at the limit the connection idle longest makes room.
GivenUncapped == idle + 1                        \* slip: no limit
Given == IF idle < MaxIdle THEN idle + 1 ELSE MaxIdle

Receive(f) ==
    /\ pc[f] = "sent" /\ reply[f] # None
    /\ idle' \in {idle, Given}
    /\ pc' = [pc EXCEPT ![f] = "answer"]
    /\ UNCHANGED <<asked, fetchVars, cache, history>>

-----------------------------------------------------------------------------
\* What comes of the answer.  refresh() asks for the URL's entry again: it is
\* whichever is there by now, or none.

Renewed(e, r) == [e EXCEPT !.etag = r.etag, !.fresh = r.control = "max-age"]

Refresh(f) ==
    /\ Status(f, {304})
    /\ LET e == cache[current[f]] IN
       /\ e # None /\ reply[f].control # "no-store"
       /\ cache' = [cache EXCEPT ![current[f]] = Renewed(e, reply[f])]
       /\ Finish(f, Response(e.body))
    /\ UNCHANGED <<asked, hop, current, method, body, revalidationOff, idle, history>>

\* The copy went while the exchange ran, or the origin says not to keep it:
\* once more, plainly, as the same hop.
AskPlainly(f) == TRUE
HopUsedUp(f) == hop[f] + 1                       \* slip: no --hop
SameHop(f) == hop[f]

RefreshGone(f) ==
    /\ Status(f, {304})
    /\ cache[current[f]] = None \/ reply[f].control = "no-store"
    /\ cache' = [cache EXCEPT ![current[f]] = None]
    /\ revalidationOff' = [revalidationOff EXCEPT ![f] = AskPlainly(f)]
    /\ hop' = [hop EXCEPT ![f] = SameHop(f)]
    /\ EndRound(f, "hop")
    /\ UNCHANGED <<asked, current, method, body, result, idle, history>>

\* 303 turns any method into GET, 302 a POST; the body goes with the method.
ToGet(f) == reply[f].status = 303 \/ (reply[f].status = 302 /\ method[f] = "POST")
BodyStays(f) == body[f]                          \* slip: the method turned, the body kept
BodyAfter(f) == body[f] /\ ~ToGet(f)

RefusedHop(to) == to \in Refused

Follow(f) ==
    /\ Status(f, Redirections) /\ ~RefusedHop(reply[f].to)
    /\ current' = [current EXCEPT ![f] = reply[f].to]
    /\ method' = [method EXCEPT ![f] = IF ToGet(f) THEN "GET" ELSE @]
    /\ body' = [body EXCEPT ![f] = BodyAfter(f)]
    /\ hop' = [hop EXCEPT ![f] = @ + 1]
    /\ followed' = [followed EXCEPT ![f] = @ + 1]
    /\ EndRound(f, "hop")
    /\ UNCHANGED <<asked, revalidationOff, result, cache, idle, rounds>>

RefuseHop(f) ==
    /\ Status(f, Redirections) /\ RefusedHop(reply[f].to)
    /\ Finish(f, Error("refused"))
    /\ UNCHANGED <<asked, hop, current, method, body, revalidationOff, cache, idle, history>>

\* store() puts the newcomer in the place of whatever the URL had.
StoreUnderAsked(f) == asked[f].url               \* slip: kept under the first URL of the chain
StoreUnder(f) == current[f]

Store(f) ==
    /\ Status(f, {200})
    /\ cache' = IF reply[f].control = "no-store" THEN cache
                ELSE [cache EXCEPT ![StoreUnder(f)] = Entry(reply[f].body, reply[f].control)]
    /\ Finish(f, Response(reply[f].body))
    /\ UNCHANGED <<asked, hop, current, method, body, revalidationOff, idle, history>>

Hand(f) ==
    /\ Status(f, {404})
    /\ Finish(f, Response(None))
    /\ UNCHANGED <<asked, hop, current, method, body, revalidationOff, cache, idle, history>>

-----------------------------------------------------------------------------
\* An entry's time runs out; it makes room for another, or the cache is
\* cleared.
Stale(u) ==
    /\ cache[u] # None /\ cache[u].fresh
    /\ cache' = [cache EXCEPT ![u].fresh = FALSE]
    /\ UNCHANGED <<asked, pc, fetchVars, idle, history>>

Drop(u) ==
    /\ cache[u] # None
    /\ cache' = [cache EXCEPT ![u] = None]
    /\ UNCHANGED <<asked, pc, fetchVars, idle, history>>

Step(f) ==
    \/ TooManyRedirects(f) \/ FreshCopy(f) \/ Lookup(f)
    \/ Connect(f) \/ Again(f) \/ Fail(f) \/ Serve(f) \/ Receive(f)
    \/ Refresh(f) \/ RefreshGone(f) \/ Follow(f) \/ RefuseHop(f) \/ Store(f) \/ Hand(f)

Over == (\A f \in Fetches : pc[f] = "done") /\ UNCHANGED vars

Next ==
    \/ \E f \in Fetches : Step(f)
    \/ \E u \in Urls : Stale(u) \/ Drop(u)
    \/ Over

Spec == Init /\ [][Next]_vars

-----------------------------------------------------------------------------
\* Properties.

TypeOK ==
    /\ hop \in [Fetches -> 0..MaxRedirects + 1]
    /\ current \in [Fetches -> Urls] /\ method \in [Fetches -> {"GET", "POST"}]
    /\ validator \in [Fetches -> Bodies \cup {None}]
    /\ cache \in [Urls -> Entries \cup {None}]
    /\ idle \in 0..MaxIdle

\* Whatever the redirects on the way and however long the exchange took, what
\* the cache keeps of a URL, and what a fetch ends with, is of the URL the
\* chain had come to.
KeptUnderItsUrl ==
    /\ \A u \in Urls : cache[u] # None => cache[u].body.url = u
    /\ \A f \in Fetches :
          pc[f] = "done" /\ result[f].body # None => result[f].body.url = current[f]

\* A fetch fails for its redirects only when the origin sent one more than
\* allowed (a round lost to a copy that went is not one), and however often the
\* copy it asks about goes and comes back meanwhile, it goes round once for each
\* hop allowed, and once more.
RoundsAreCounted ==
    \A f \in Fetches :
        /\ pc[f] = "done" /\ result[f].says = "redirects" => followed[f] = MaxRedirects + 1
        /\ rounds[f] <= MaxRedirects + 2

\* A request that was turned into a GET leaves its body behind, on every hop
\* that follows.
BodyGoesWithMethod == \A f \in Fetches : body[f] => method[f] = "POST"

\* "A response that varies on request headers answers only a request whose
\* values for them are the stored request's" (Cache.h).
AnswersOnlyItsVariant ==
    \A f \in Fetches :
        pc[f] = "done" /\ result[f].body # None => result[f].body.variant = asked[f].variant
=============================================================================
