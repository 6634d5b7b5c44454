---------------------------- MODULE FetchProofs ----------------------------
(***************************************************************************)
(* Proofs about Fetch, for any number of fetches, URLs and redirects:      *)
(* what the cache keeps and a fetch ends with is of the URL it had come    *)
(* to, a body goes with its method, and the rounds are the hops and at     *)
(* most one more.                                                          *)
(***************************************************************************)
EXTENDS Fetch, TLAPS

States == {"hop", "connect", "sent", "answer", "done"}

\* An answer is one the server may give to the request as it is now: neither
\* the URL nor the validator changes while it is on its way.
ReplyFits(f) ==
    /\ pc[f] \notin {"sent", "answer"} => reply[f] = None
    /\ pc[f] = "answer" => reply[f] # None
    /\ reply[f] # None =>
         \/ \E status \in Redirections, to \in Urls \cup Refused : reply[f] = Redirect(status, to)
         \/ reply[f] = Other
         \/ \E c \in Controls : reply[f] = Ok(Held(f), c)
         \/ validator[f] = Held(f) /\ \E c \in Controls : reply[f] = NotModified(Held(f), c)

\* The rounds begun are the hops, the one that runs, and one lost to a copy
\* that went: after it the fetch asks plainly, and a plain request gets no 304.
Lost(f) == IF revalidationOff[f] THEN 1 ELSE 0
RoundsFit(f) ==
    /\ followed[f] = hop[f]
    /\ rounds[f] \in Nat
    /\ pc[f] = "hop" => rounds[f] = hop[f] + Lost(f)
    /\ pc[f] \in {"connect", "sent", "answer"} =>
         hop[f] <= MaxRedirects /\ rounds[f] = hop[f] + 1 + Lost(f)
    /\ pc[f] = "done" => rounds[f] <= MaxRedirects + 2
    /\ validator[f] # None => ~revalidationOff[f]

ResultFits(f) ==
    pc[f] = "done" =>
      /\ result[f].body # None => result[f].body.url = current[f]
      /\ result[f].says = "redirects" => followed[f] = MaxRedirects + 1

FetchTypes(f) ==
    /\ pc[f] \in States
    /\ asked[f] \in Asked
    /\ hop[f] \in 0..MaxRedirects + 1
    /\ current[f] \in Urls /\ method[f] \in {"GET", "POST"}
    /\ body[f] \in BOOLEAN /\ revalidationOff[f] \in BOOLEAN
    /\ validator[f] \in Bodies \cup {None}

\* What is to be kept of one fetch, of no other's and of nothing they share.
FetchOK(f) ==
    /\ FetchTypes(f)
    /\ ReplyFits(f)
    /\ RoundsFit(f)
    /\ ResultFits(f)
    /\ body[f] => method[f] = "POST"

\* What they share.
SharedOK ==
    /\ cache \in [Urls -> Entries \cup {None}]
    /\ \A u \in Urls : cache[u] # None => cache[u].body.url = u
    /\ idle \in 0..MaxIdle

\* Each fetch's locals are a function of the fetches.
ByFetch(x) == x = [f \in Fetches |-> x[f]]
Functions ==
    /\ ByFetch(asked) /\ ByFetch(pc) /\ ByFetch(hop) /\ ByFetch(current) /\ ByFetch(method)
    /\ ByFetch(body) /\ ByFetch(validator) /\ ByFetch(revalidationOff) /\ ByFetch(reused)
    /\ ByFetch(reply) /\ ByFetch(result) /\ ByFetch(followed) /\ ByFetch(rounds)

\* The inductive invariant: a hop refused for being too many needs the count of
\* those taken, the count needs 304 to mean that the fetch asked about a copy,
\* and what is kept under a URL needs the answer to be of the URL asked for.
IInv ==
    /\ Functions
    /\ SharedOK
    /\ \A f \in Fetches : FetchOK(f)

-----------------------------------------------------------------------------
\* A step of a fetch leaves the other fetches' locals alone.
Local(f) ==
    /\ asked' = asked
    /\ pc' = [pc EXCEPT ![f] = pc'[f]] /\ hop' = [hop EXCEPT ![f] = hop'[f]]
    /\ current' = [current EXCEPT ![f] = current'[f]] /\ method' = [method EXCEPT ![f] = method'[f]]
    /\ body' = [body EXCEPT ![f] = body'[f]] /\ validator' = [validator EXCEPT ![f] = validator'[f]]
    /\ revalidationOff' = [revalidationOff EXCEPT ![f] = revalidationOff'[f]]
    /\ reused' = [reused EXCEPT ![f] = reused'[f]] /\ reply' = [reply EXCEPT ![f] = reply'[f]]
    /\ result' = [result EXCEPT ![f] = result'[f]]
    /\ followed' = [followed EXCEPT ![f] = followed'[f]]
    /\ rounds' = [rounds EXCEPT ![f] = rounds'[f]]

LEMMA StepIsLocal ==
    ASSUME IInv, NEW f \in Fetches, Step(f)
    PROVE  Local(f) /\ Functions'
<1>0. Functions
  BY DEF IInv
<1>1. Local(f)
  <2>1. CASE TooManyRedirects(f)
    BY <1>0, <2>1 DEF TooManyRedirects, Request, Finish, EndRound, fetchVars, history, Local, Functions, ByFetch
  <2>2. CASE FreshCopy(f)
    BY <1>0, <2>2 DEF FreshCopy, Request, Finish, EndRound, fetchVars, history, Local, Functions, ByFetch
  <2>3. CASE Lookup(f)
    BY <1>0, <2>3 DEF Lookup, Request, Finish, EndRound, fetchVars, history, Local, Functions, ByFetch
  <2>4. CASE Connect(f)
    BY <1>0, <2>4 DEF Connect, Request, Finish, EndRound, fetchVars, history, Local, Functions, ByFetch
  <2>5. CASE Again(f)
    BY <1>0, <2>5 DEF Again, Request, Finish, EndRound, fetchVars, history, Local, Functions, ByFetch
  <2>6. CASE Fail(f)
    BY <1>0, <2>6 DEF Fail, Request, Finish, EndRound, fetchVars, history, Local, Functions, ByFetch
  <2>7. CASE Serve(f)
    BY <1>0, <2>7 DEF Serve, Request, Finish, EndRound, fetchVars, history, Local, Functions, ByFetch
  <2>8. CASE Receive(f)
    BY <1>0, <2>8 DEF Receive, Request, Finish, EndRound, fetchVars, history, Local, Functions, ByFetch
  <2>9. CASE Refresh(f)
    BY <1>0, <2>9 DEF Refresh, Request, Finish, EndRound, fetchVars, history, Local, Functions, ByFetch
  <2>10. CASE RefreshGone(f)
    BY <1>0, <2>10 DEF RefreshGone, Request, Finish, EndRound, fetchVars, history, Local, Functions, ByFetch
  <2>11. CASE Follow(f)
    BY <1>0, <2>11 DEF Follow, Request, Finish, EndRound, fetchVars, history, Local, Functions, ByFetch
  <2>12. CASE RefuseHop(f)
    BY <1>0, <2>12 DEF RefuseHop, Request, Finish, EndRound, fetchVars, history, Local, Functions, ByFetch
  <2>13. CASE Store(f)
    BY <1>0, <2>13 DEF Store, Request, Finish, EndRound, fetchVars, history, Local, Functions, ByFetch
  <2>14. CASE Hand(f)
    BY <1>0, <2>14 DEF Hand, Request, Finish, EndRound, fetchVars, history, Local, Functions, ByFetch
  <2>15. QED
    BY <2>1, <2>2, <2>3, <2>4, <2>5, <2>6, <2>7, <2>8, <2>9, <2>10, <2>11, <2>12, <2>13, <2>14 DEF Step
<1>2. QED
  BY <1>0, <1>1 DEF Local, Functions, ByFetch

LEMMA OthersUnmoved ==
    ASSUME IInv, NEW f \in Fetches, Local(f), NEW g \in Fetches \ {f}
    PROVE  FetchOK(g)'
<1>1. /\ asked'[g] = asked[g] /\ pc'[g] = pc[g] /\ hop'[g] = hop[g] /\ current'[g] = current[g]
      /\ method'[g] = method[g] /\ body'[g] = body[g] /\ validator'[g] = validator[g]
      /\ revalidationOff'[g] = revalidationOff[g] /\ reply'[g] = reply[g]
      /\ result'[g] = result[g] /\ followed'[g] = followed[g] /\ rounds'[g] = rounds[g]
  BY DEF IInv, Local, Functions, ByFetch
<1>2. FetchOK(g)
  BY DEF IInv
<1>3. QED
  BY <1>1, <1>2 DEF FetchOK, FetchTypes, ReplyFits, RoundsFit, ResultFits, Lost, Held

-----------------------------------------------------------------------------
\* A fetch's own part, action by action; all of them use that its state is one
\* of the five and its counts are numbers.

LEMMA OwnFacts ==
    ASSUME IInv, NEW f \in Fetches
    PROVE  /\ FetchOK(f) /\ Functions /\ SharedOK
           /\ MaxRedirects \in Nat /\ hop[f] \in Nat /\ rounds[f] \in Nat
           /\ Held(f) \in Bodies
<1>1. FetchOK(f) /\ Functions /\ SharedOK /\ MaxRedirects \in Nat
  BY LimitsAssumption DEF IInv
<1>2. hop[f] \in Nat /\ rounds[f] \in Nat
  BY <1>1 DEF FetchOK, FetchTypes, RoundsFit
<1>3. Held(f) \in Bodies
  BY <1>1 DEF FetchOK, FetchTypes, Held, Bodies, Variants
<1>4. QED
  BY <1>1, <1>2, <1>3

\* A hit is a copy the cache has of the URL.
LEMMA HitIsHeld ==
    ASSUME IInv, NEW f \in Fetches, Hit(f)
    PROVE  cache[current[f]] \in Entries /\ cache[current[f]].body.url = current[f]
  BY OwnFacts DEF Hit, Selects, FetchOK, FetchTypes, SharedOK

\* The head of the loop.
LEMMA HeadKeepsOwn ==
    ASSUME IInv, NEW f \in Fetches, TooManyRedirects(f) \/ FreshCopy(f) \/ Lookup(f)
    PROVE  FetchOK(f)'
<1>0. FetchOK(f) /\ Functions /\ MaxRedirects \in Nat /\ hop[f] \in Nat /\ rounds[f] \in Nat
  BY OwnFacts
<1>1. CASE TooManyRedirects(f)
  <2>1. /\ pc[f] = "hop" /\ pc'[f] = "done" /\ validator'[f] = None /\ reply'[f] = None
        /\ result'[f] = Error("redirects")
    BY <1>0, <1>1 DEF TooManyRedirects, Finish, EndRound, Functions, ByFetch
  <2>2. UNCHANGED <<asked, hop, current, method, body, revalidationOff, followed, rounds>>
    BY <1>1 DEF TooManyRedirects, history
  <2>3. rounds[f] <= MaxRedirects + 2 /\ followed[f] = MaxRedirects + 1
    <3>1. hop[f] \in 0..MaxRedirects + 1 /\ hop[f] > MaxRedirects
      BY <1>0, <1>1 DEF TooManyRedirects, FetchOK, FetchTypes
    <3>2. hop[f] = MaxRedirects + 1
      BY <1>0, <3>1
    <3>3. followed[f] = hop[f] /\ rounds[f] = hop[f] + Lost(f) /\ Lost(f) \in 0..1
      BY <1>0, <2>1 DEF FetchOK, RoundsFit, Lost
    <3>4. QED
      BY <1>0, <3>2, <3>3
  <2>4. QED
    BY <1>0, <2>1, <2>2, <2>3 DEF FetchOK, FetchTypes, ReplyFits, RoundsFit, ResultFits, States, Error
<1>2. CASE FreshCopy(f)
  <2>1. /\ pc[f] = "hop" /\ hop[f] <= MaxRedirects
        /\ pc'[f] = "done" /\ validator'[f] = None /\ reply'[f] = None
        /\ result'[f] = Response(cache[current[f]].body)
    BY <1>0, <1>2 DEF FreshCopy, Finish, EndRound, Functions, ByFetch
  <2>2. UNCHANGED <<asked, hop, current, method, body, revalidationOff, followed, rounds>>
    BY <1>2 DEF FreshCopy, history
  <2>3. cache[current[f]].body.url = current[f]
    BY <1>2, HitIsHeld DEF FreshCopy
  <2>4. rounds[f] <= MaxRedirects + 2
    BY <1>0, <2>1 DEF FetchOK, RoundsFit, Lost
  <2>5. QED
    BY <1>0, <2>1, <2>2, <2>3, <2>4
       DEF FetchOK, FetchTypes, ReplyFits, RoundsFit, ResultFits, States, Response
<1>3. CASE Lookup(f)
  <2>1. /\ pc[f] = "hop" /\ hop[f] <= MaxRedirects
        /\ pc'[f] = "connect" /\ rounds'[f] = rounds[f] + 1
        /\ validator'[f] = IF Revalidates(f) THEN cache[current[f]].etag ELSE None
    BY <1>0, <1>3 DEF Lookup, Functions, ByFetch
  <2>2. UNCHANGED <<asked, hop, current, method, body, revalidationOff, reply, followed>>
    BY <1>3 DEF Lookup
  <2>3. /\ validator'[f] \in Bodies \cup {None}
        /\ validator'[f] # None => ~revalidationOff[f]
    BY <2>1, HitIsHeld DEF Revalidates, Entries
  <2>4. QED
    BY <1>0, <2>1, <2>2, <2>3 DEF FetchOK, FetchTypes, ReplyFits, RoundsFit, ResultFits, States, Lost
<1>4. QED
  BY <1>1, <1>2, <1>3

\* The exchange.
LEMMA ExchangeKeepsOwn ==
    ASSUME IInv, NEW f \in Fetches, Connect(f) \/ Again(f) \/ Fail(f) \/ Serve(f) \/ Receive(f)
    PROVE  FetchOK(f)'
<1>0. FetchOK(f) /\ Functions /\ MaxRedirects \in Nat /\ hop[f] \in Nat /\ rounds[f] \in Nat
  BY OwnFacts
<1>1. CASE Connect(f) \/ Again(f)
  <2>1. pc[f] \in {"connect", "sent"} /\ pc'[f] = "sent" /\ reply'[f] = None
    BY <1>0, <1>1 DEF Connect, Again, Request, Functions, ByFetch
  <2>2. UNCHANGED <<asked, hop, current, method, body, validator, revalidationOff, followed, rounds>>
    BY <1>1 DEF Connect, Again, history
  <2>3. QED
    BY <1>0, <2>1, <2>2 DEF FetchOK, FetchTypes, ReplyFits, RoundsFit, ResultFits, States, Lost
<1>2. CASE Fail(f)
  <2>1. /\ pc[f] \in {"connect", "sent", "answer"} /\ pc'[f] = "done"
        /\ validator'[f] = None /\ reply'[f] = None /\ result'[f] = Error("failed")
    BY <1>0, <1>2 DEF Fail, Status, Finish, EndRound, Functions, ByFetch
  <2>2. UNCHANGED <<asked, hop, current, method, body, revalidationOff, followed, rounds>>
    BY <1>2 DEF Fail, history
  <2>3. rounds[f] <= MaxRedirects + 2
    BY <1>0, <2>1 DEF FetchOK, RoundsFit, Lost
  <2>4. QED
    BY <1>0, <2>1, <2>2, <2>3 DEF FetchOK, FetchTypes, ReplyFits, RoundsFit, ResultFits, States, Error
<1>3. CASE Serve(f)
  <2>1. pc[f] = "sent" /\ reply'[f] \in Answers(f)
    BY <1>0, <1>3 DEF Serve, Functions, ByFetch
  <2>2. UNCHANGED <<asked, pc, hop, current, method, body, validator, revalidationOff, followed, rounds>>
    BY <1>3 DEF Serve, history
  <2>3. \/ \E status \in Redirections, to \in Urls \cup Refused : reply'[f] = Redirect(status, to)
        \/ reply'[f] = Other
        \/ \E c \in Controls : reply'[f] = Ok(Held(f), c)
        \/ validator[f] = Held(f) /\ \E c \in Controls : reply'[f] = NotModified(Held(f), c)
    BY <2>1 DEF Answers
  <2>4. Held(f)' = Held(f)
    BY <2>2 DEF Held
  <2>5. ReplyFits(f)'
    BY <2>1, <2>2, <2>3, <2>4 DEF ReplyFits
  <2>6. QED
    BY <1>0, <2>1, <2>2, <2>5 DEF FetchOK, FetchTypes, RoundsFit, ResultFits, Lost
<1>4. CASE Receive(f)
  <2>1. pc[f] = "sent" /\ pc'[f] = "answer" /\ reply[f] # None
    BY <1>0, <1>4 DEF Receive, Functions, ByFetch
  <2>2. UNCHANGED <<asked, hop, current, method, body, validator, revalidationOff, reply, followed, rounds>>
    BY <1>4 DEF Receive, fetchVars, history
  <2>3. ReplyFits(f)'
    BY <1>0, <2>1, <2>2 DEF FetchOK, ReplyFits, Held
  <2>4. QED
    BY <1>0, <2>1, <2>2, <2>3 DEF FetchOK, FetchTypes, RoundsFit, ResultFits, States, Lost
<1>5. QED
  BY <1>1, <1>2, <1>3, <1>4

\* What the answer must be, when its status is one the loop looks for.
LEMMA AnswerIs ==
    ASSUME IInv, NEW f \in Fetches, pc[f] = "answer"
    PROVE  /\ reply[f].status = 304 => validator[f] # None /\ reply[f].etag = Held(f)
           /\ reply[f].status = 200 => reply[f].body = Held(f)
           /\ reply[f].status \in Redirections => reply[f].to \in Urls \cup Refused
<1>1. /\ Held(f) \in Bodies
      /\ \/ \E status \in Redirections, to \in Urls \cup Refused : reply[f] = Redirect(status, to)
         \/ reply[f] = Other
         \/ \E c \in Controls : reply[f] = Ok(Held(f), c)
         \/ validator[f] = Held(f) /\ \E c \in Controls : reply[f] = NotModified(Held(f), c)
  BY OwnFacts DEF FetchOK, ReplyFits
<1>2. CASE \E status \in Redirections, to \in Urls \cup Refused : reply[f] = Redirect(status, to)
  BY <1>2, RedirectionsAssumption DEF Redirect
<1>3. CASE reply[f] = Other
  BY <1>3, RedirectionsAssumption DEF Other
<1>4. CASE \E c \in Controls : reply[f] = Ok(Held(f), c)
  BY <1>4, RedirectionsAssumption DEF Ok
<1>5. CASE validator[f] = Held(f) /\ \E c \in Controls : reply[f] = NotModified(Held(f), c)
  BY <1>1, <1>5, RedirectionsAssumption, NoneAssumption DEF NotModified
<1>6. QED
  BY <1>1, <1>2, <1>3, <1>4, <1>5

\* What comes of the answer.
LEMMA AnswerKeepsOwn ==
    ASSUME IInv, NEW f \in Fetches,
           Refresh(f) \/ RefreshGone(f) \/ Follow(f) \/ RefuseHop(f) \/ Store(f) \/ Hand(f)
    PROVE  FetchOK(f)'
<1>0. FetchOK(f) /\ Functions /\ SharedOK /\ MaxRedirects \in Nat /\ hop[f] \in Nat /\ rounds[f] \in Nat
  BY OwnFacts
<1>1. pc[f] = "answer"
  BY DEF Refresh, RefreshGone, Follow, RefuseHop, Store, Hand, Status
<1>2. hop[f] <= MaxRedirects /\ rounds[f] = hop[f] + 1 + Lost(f) /\ Lost(f) \in 0..1
  BY <1>0, <1>1 DEF FetchOK, RoundsFit, Lost
<1>3. rounds[f] <= MaxRedirects + 2
  BY <1>0, <1>2
<1>4. CASE Refresh(f) \/ RefuseHop(f) \/ Store(f) \/ Hand(f)
  <2>1. pc'[f] = "done" /\ validator'[f] = None /\ reply'[f] = None
    BY <1>0, <1>4 DEF Refresh, RefuseHop, Store, Hand, Finish, EndRound, Functions, ByFetch
  <2>2. UNCHANGED <<asked, hop, current, method, body, revalidationOff, followed, rounds>>
    BY <1>4 DEF Refresh, RefuseHop, Store, Hand, history
  <2>3. /\ result'[f].body # None => result'[f].body.url = current[f]
        /\ result'[f].says # "redirects"
    <3>1. CASE Refresh(f)
      <4>1. cache[current[f]] # None /\ result'[f] = Response(cache[current[f]].body)
        BY <1>0, <3>1 DEF Refresh, Finish, Functions, ByFetch
      <4>2. QED
        BY <1>0, <4>1 DEF Response, SharedOK, FetchOK, FetchTypes
    <3>2. CASE RefuseHop(f) \/ Hand(f)
      BY <1>0, <3>2 DEF RefuseHop, Hand, Finish, Functions, ByFetch, Response, Error
    <3>3. CASE Store(f)
      <4>1. result'[f] = Response(reply[f].body) /\ reply[f].status = 200
        BY <1>0, <3>3 DEF Store, Status, Finish, Functions, ByFetch
      <4>2. reply[f].body = Held(f)
        BY <1>1, <4>1, AnswerIs
      <4>3. QED
        BY <4>1, <4>2 DEF Response, Held
    <3>4. QED
      BY <1>4, <3>1, <3>2, <3>3
  <2>4. QED
    BY <1>0, <1>3, <2>1, <2>2, <2>3 DEF FetchOK, FetchTypes, ReplyFits, RoundsFit, ResultFits, States
<1>5. CASE RefreshGone(f)
  <2>1. /\ pc'[f] = "hop" /\ validator'[f] = None /\ reply'[f] = None
        /\ hop'[f] = hop[f] /\ revalidationOff'[f] = TRUE
    BY <1>0, <1>5 DEF RefreshGone, EndRound, SameHop, AskPlainly, Functions, ByFetch
  <2>2. UNCHANGED <<asked, current, method, body, followed, rounds>>
    BY <1>5 DEF RefreshGone, history
  <2>3. ~revalidationOff[f]
    BY <1>0, <1>1, <1>5, AnswerIs DEF RefreshGone, Status, FetchOK, RoundsFit
  <2>4. rounds[f] = hop[f] + 1 /\ Lost(f)' = 1
    BY <1>0, <1>2, <2>1, <2>3 DEF Lost
  <2>5. QED
    BY <1>0, <2>1, <2>2, <2>4 DEF FetchOK, FetchTypes, ReplyFits, RoundsFit, ResultFits, States
<1>6. CASE Follow(f)
  <2>1. /\ pc'[f] = "hop" /\ validator'[f] = None /\ reply'[f] = None
        /\ hop'[f] = hop[f] + 1 /\ followed'[f] = followed[f] + 1
        /\ current'[f] = reply[f].to
        /\ method'[f] = (IF ToGet(f) THEN "GET" ELSE method[f])
        /\ body'[f] = BodyAfter(f)
    BY <1>0, <1>6 DEF Follow, EndRound, Functions, ByFetch
  <2>2. UNCHANGED <<asked, revalidationOff, rounds>>
    BY <1>6 DEF Follow
  <2>3. current'[f] \in Urls
    BY <1>1, <1>6, <2>1, AnswerIs DEF Follow, Status, RefusedHop
  <2>4. /\ method'[f] \in {"GET", "POST"} /\ body'[f] \in BOOLEAN
        /\ body'[f] => method'[f] = "POST"
    BY <1>0, <2>1 DEF FetchOK, FetchTypes, BodyAfter
  <2>5. hop'[f] \in 0..MaxRedirects + 1 /\ rounds'[f] = hop'[f] + Lost(f)'
    BY <1>0, <1>2, <2>1, <2>2 DEF Lost
  <2>6. RoundsFit(f)'
    BY <1>0, <2>1, <2>2, <2>5 DEF FetchOK, RoundsFit
  <2>7. QED
    BY <1>0, <2>1, <2>2, <2>3, <2>4, <2>5, <2>6
       DEF FetchOK, FetchTypes, ReplyFits, ResultFits, States
<1>7. QED
  BY <1>4, <1>5, <1>6

-----------------------------------------------------------------------------
\* What the fetches share: only Store brings another body under a URL, and it is
\* the answer to a request for that URL.
LEMMA CacheChange ==
    ASSUME IInv, NEW u \in Urls, NEW e \in Entries \cup {None}, e # None => e.body.url = u,
           cache' = [cache EXCEPT ![u] = e], idle' = idle
    PROVE  SharedOK'
  BY DEF IInv, SharedOK

LEMMA StepKeepsShared ==
    ASSUME IInv, NEW f \in Fetches, Step(f)
    PROVE  SharedOK'
<1>0. FetchOK(f) /\ SharedOK /\ current[f] \in Urls /\ Held(f) \in Bodies /\ MaxIdle \in Nat
  BY OwnFacts, LimitsAssumption DEF FetchOK, FetchTypes
<1>1. CASE \/ TooManyRedirects(f) \/ FreshCopy(f) \/ Lookup(f) \/ Again(f) \/ Serve(f)
           \/ Follow(f) \/ RefuseHop(f) \/ Hand(f)
  <2>1. cache' = cache /\ idle' = idle
    BY <1>1 DEF TooManyRedirects, FreshCopy, Lookup, Again, Serve, Follow, RefuseHop, Hand
  <2>2. QED
    BY <1>0, <2>1 DEF SharedOK
<1>2. CASE Connect(f) \/ Fail(f) \/ Receive(f)
  <2>1. cache' = cache
    BY <1>2 DEF Connect, Fail, Receive
  <2>2. idle' \in 0..MaxIdle
    <3>1. idle \in 0..MaxIdle
      BY <1>0 DEF SharedOK
    <3>2. CASE Connect(f)
      <4>1. (idle > 0 /\ idle' = idle - 1) \/ idle' = 0
        BY <3>2 DEF Connect
      <4>2. QED
        BY <1>0, <3>1, <4>1
    <3>3. CASE Fail(f)
      BY <1>0, <3>1, <3>3 DEF Fail
    <3>4. CASE Receive(f)
      <4>1. idle' = idle \/ (idle < MaxIdle /\ idle' = idle + 1) \/ idle' = MaxIdle
        BY <3>4 DEF Receive, Given
      <4>2. QED
        BY <1>0, <3>1, <4>1
    <3>5. QED
      BY <1>2, <3>2, <3>3, <3>4
  <2>3. QED
    BY <1>0, <2>1, <2>2 DEF SharedOK
<1>3. CASE Refresh(f)
  <2>1. /\ cache[current[f]] # None
        /\ cache' = [cache EXCEPT ![current[f]] = Renewed(cache[current[f]], reply[f])]
        /\ idle' = idle /\ pc[f] = "answer" /\ reply[f].status = 304
    BY <1>3 DEF Refresh, Status
  <2>2. cache[current[f]] \in Entries /\ cache[current[f]].body.url = current[f]
    BY <1>0, <2>1 DEF SharedOK
  <2>3. reply[f].etag \in Bodies
    BY <1>0, <2>1, AnswerIs
  <2>4. /\ Renewed(cache[current[f]], reply[f]) \in Entries
        /\ Renewed(cache[current[f]], reply[f]).body = cache[current[f]].body
    BY <2>2, <2>3 DEF Renewed, Entries
  <2>5. QED
    <3>1. Renewed(cache[current[f]], reply[f]).body.url = current[f]
      BY <2>2, <2>4
    <3>2. PICK e \in Entries \cup {None} :
            e.body.url = current[f] /\ cache' = [cache EXCEPT ![current[f]] = e] /\ idle' = idle
      BY <2>1, <2>4, <3>1
    <3>3. QED
      BY <1>0, <3>2, CacheChange
<1>4. CASE RefreshGone(f)
  BY <1>0, <1>4, CacheChange DEF RefreshGone
<1>5. CASE Store(f)
  <2>1. pc[f] = "answer" /\ reply[f].status = 200 /\ idle' = idle
    BY <1>5 DEF Store, Status
  <2>2. reply[f].body = Held(f)
    BY <2>1, AnswerIs
  <2>3. /\ Entry(Held(f), reply[f].control) \in Entries
        /\ Entry(Held(f), reply[f].control).body.url = current[f]
    BY <1>0 DEF Entry, Entries, Bodies, Held
  <2>4. CASE reply[f].control = "no-store"
    BY <1>0, <1>5, <2>1, <2>4 DEF Store, SharedOK
  <2>5. CASE reply[f].control # "no-store"
    BY <1>0, <1>5, <2>1, <2>2, <2>3, <2>5, CacheChange DEF Store, StoreUnder
  <2>6. QED
    BY <2>4, <2>5
<1>6. QED
  BY <1>1, <1>2, <1>3, <1>4, <1>5 DEF Step

-----------------------------------------------------------------------------
\* A copy's time running out, or its going, is nothing to any fetch.
LEMMA CacheAgesKeeps ==
    ASSUME IInv, NEW u \in Urls, Stale(u) \/ Drop(u)
    PROVE  IInv'
<1>1. SharedOK /\ Functions /\ \A f \in Fetches : FetchOK(f)
  BY DEF IInv
<1>2. UNCHANGED <<asked, pc, hop, current, method, body, validator, revalidationOff, reused, reply,
                  result, followed, rounds>> /\ idle' = idle
  BY DEF Stale, Drop, fetchVars, history
<1>3. SharedOK'
  <2>1. CASE Stale(u)
    <3>1. PICK e \in Entries \cup {None} :
            e.body.url = u /\ cache' = [cache EXCEPT ![u] = e]
      BY <1>1, <2>1 DEF Stale, SharedOK, Entries
    <3>2. QED
      BY <1>2, <3>1, CacheChange
  <2>2. CASE Drop(u)
    BY <1>2, <2>2, CacheChange DEF Drop
  <2>3. QED
    BY <2>1, <2>2
<1>4. Functions'
  BY <1>1, <1>2 DEF Functions, ByFetch
<1>5. ASSUME NEW f \in Fetches PROVE FetchOK(f)'
  BY <1>1, <1>2 DEF FetchOK, FetchTypes, ReplyFits, RoundsFit, ResultFits, Lost, Held
<1>6. QED
  BY <1>3, <1>4, <1>5 DEF IInv

LEMMA InitKeeps == Init => IInv
<1> SUFFICES ASSUME Init PROVE IInv
  OBVIOUS
<1>1. Functions
  BY DEF Init, Functions, ByFetch
<1>2. SharedOK
  <2>1. Left \subseteq Entries \cup {None}
    <3>1. ASSUME NEW b \in Bodies PROVE Entry(b, "no-cache") \in Entries
      <4>1. b.variant \in Variants
        BY <3>1 DEF Bodies
      <4>2. QED
        BY <3>1, <4>1 DEF Entry, Entries
    <3>2. QED
      BY <3>1 DEF Left
  <2>2. QED
    BY <2>1 DEF Init, SharedOK
<1>3. ASSUME NEW f \in Fetches PROVE FetchOK(f)
  <2>1. /\ asked[f] \in Asked /\ pc[f] = "hop" /\ hop[f] = 0 /\ current[f] = asked[f].url
        /\ method[f] = asked[f].method /\ validator[f] = None /\ reply[f] = None
        /\ followed[f] = 0 /\ rounds[f] = 0
    BY <1>3 DEF Init
  <2>2. revalidationOff[f] = FALSE /\ body[f] = (method[f] = "POST")
    BY <1>3 DEF Init
  <2>3. body[f] \in BOOLEAN /\ revalidationOff[f] \in BOOLEAN /\ (body[f] => method[f] = "POST")
    BY <2>2, Zenon
  <2>4. Lost(f) = 0 /\ ~revalidationOff[f]
    BY <2>2 DEF Lost
  <2>5. FetchTypes(f)
    BY <2>1, <2>3, AskedAssumption, LimitsAssumption DEF FetchTypes, States
  <2>6. QED
    BY <2>1, <2>3, <2>4, <2>5 DEF FetchOK, ReplyFits, RoundsFit, ResultFits
<1>4. QED
  BY <1>1, <1>2, <1>3 DEF IInv

LEMMA StepKeeps == IInv /\ [Next]_vars => IInv'
<1> SUFFICES ASSUME IInv, [Next]_vars PROVE IInv'
  OBVIOUS
<1>1. CASE \E f \in Fetches : Step(f)
  <2>1. PICK f \in Fetches : Step(f)
    BY <1>1
  <2>2. Local(f) /\ Functions'
    BY <2>1, StepIsLocal
  <2>3. FetchOK(f)'
    BY <2>1, HeadKeepsOwn, ExchangeKeepsOwn, AnswerKeepsOwn DEF Step
  <2>4. ASSUME NEW g \in Fetches PROVE FetchOK(g)'
    BY <2>2, <2>3, OthersUnmoved
  <2>5. QED
    BY <2>1, <2>2, <2>4, StepKeepsShared DEF IInv
<1>2. CASE \E u \in Urls : Stale(u) \/ Drop(u)
  BY <1>2, CacheAgesKeeps
<1>3. CASE Over \/ UNCHANGED vars
  BY <1>3 DEF Over, vars, fetchVars, history, IInv, Functions, ByFetch, SharedOK, FetchOK,
              FetchTypes, ReplyFits, RoundsFit, ResultFits, Lost, Held
<1>4. QED
  BY <1>1, <1>2, <1>3 DEF Next

-----------------------------------------------------------------------------
\* The invariant of fetch_hops' loop, for any number of fetches, URLs and
\* redirects.
THEOREM Invariant == Spec => []IInv
  BY InitKeeps, StepKeeps, PTL DEF Spec

\* Hops stay within what fetch_hops allows, and the idle list within its limit.
THEOREM TypesHold == Spec => []TypeOK
<1>1. IInv => TypeOK
  BY DEF IInv, Functions, ByFetch, SharedOK, FetchOK, FetchTypes, TypeOK
<1>2. QED
  BY <1>1, Invariant, PTL

\* store() and refresh() keep, and fetch_hops hands out, only what is of the URL
\* the chain had come to.
THEOREM KeptUnderUrl == Spec => []KeptUnderItsUrl
<1>1. IInv => KeptUnderItsUrl
  BY DEF IInv, SharedOK, FetchOK, ResultFits, KeptUnderItsUrl
<1>2. QED
  BY <1>1, Invariant, PTL

\* fetch_hops ends: however often copies go and come back under it, it goes
\* round once for each hop allowed and once more, and "too many redirects" means
\* that many were followed.
THEOREM RoundsCounted == Spec => []RoundsAreCounted
<1>1. IInv => RoundsAreCounted
  <2> SUFFICES ASSUME IInv, NEW f \in Fetches
               PROVE  /\ pc[f] = "done" /\ result[f].says = "redirects" => followed[f] = MaxRedirects + 1
                      /\ rounds[f] <= MaxRedirects + 2
    BY DEF RoundsAreCounted
  <2>1. FetchTypes(f) /\ RoundsFit(f) /\ ResultFits(f) /\ MaxRedirects \in Nat
    BY LimitsAssumption DEF IInv, FetchOK
  <2>2. hop[f] \in 0..MaxRedirects + 1 /\ Lost(f) \in 0..1 /\ pc[f] \in States
    BY <2>1 DEF FetchTypes, Lost
  <2>3. rounds[f] <= MaxRedirects + 2
    BY <2>1, <2>2 DEF RoundsFit, States
  <2>4. QED
    BY <2>1, <2>3 DEF ResultFits
<1>2. QED
  BY <1>1, Invariant, PTL

\* A request turned into a GET by a redirect never has its body again.
THEOREM BodyWithMethod == Spec => []BodyGoesWithMethod
<1>1. IInv => BodyGoesWithMethod
  BY DEF IInv, FetchOK, BodyGoesWithMethod
<1>2. QED
  BY <1>1, Invariant, PTL
=============================================================================
