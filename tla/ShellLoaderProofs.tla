--------------------------- MODULE ShellLoaderProofs ---------------------------
(***************************************************************************)
(* Proofs about ShellLoader, for any number of jobs, addresses, threads    *)
(* and takers: what is true of the pool stays true with the loader over    *)
(* it, and what was asked for ahead is handed to one claimant.             *)
(***************************************************************************)
EXTENDS ShellLoader, FetchPoolCountProofs

LoaderTypes ==
    /\ ahead \in [Urls -> Ahead \cup {None}]
    /\ window \in {"free", "taking"} \cup Jobs
    /\ stage \in [Threads -> {"begun", "waiting", "fetching"}]
    /\ claim \in [Threads -> Ahead \cup {None}]

\* A ticket is under its own address; who waits has one to wait for; no taker
\* has been told that the result was taken already.
Sound ==
    /\ \A u \in Urls : ahead[u] # None => UrlOf[ahead[u]] = u
    /\ \A t \in Takers :
          /\ taker[t].ticket \in Ahead \cup {None}
          /\ taker[t].at # "empty"
          /\ taker[t].at # "idle" => taker[t].ticket # None
    /\ \A w \in Threads : stage[w] = "waiting" => claim[w] # None

\* A ticket nobody has claimed: in the map, or on its way into it.
Kept(j) == ahead[UrlOf[j]] = j
Pending(j) == Kept(j) \/ window = j

Unclaimed(j) ==
    /\ \A t \in Takers : taker[t].ticket # j
    /\ \A w \in Threads : claim[w] # j

\* A ticket whose result is still to be handed over.
Waits(t, j) == taker[t].at \in {"asleep", "woken"} /\ taker[t].ticket = j
Open(j) ==
    \/ Pending(j)
    \/ \E t \in Takers : Waits(t, j)
    \/ \E w \in Threads : stage[w] = "waiting" /\ claim[w] = j

OneEach(j) ==
    /\ \A t, s \in Takers : taker[t].ticket = j /\ taker[s].ticket = j => t = s
    /\ \A v, w \in Threads : claim[v] = j /\ claim[w] = j => v = w
    /\ \A t \in Takers, w \in Threads : ~(taker[t].ticket = j /\ claim[w] = j)

ClaimedOnce(j) ==
    /\ OneEach(j)
    /\ ~(Kept(j) /\ window = j)
    /\ Pending(j) => Unclaimed(j)
    /\ j \notin Submitted => Unclaimed(j) /\ ~Pending(j)
    /\ Open(j) => ~(done[j] /\ result[j] = "none")

\* What makes a claimant the only one: the map gives a ticket away as it is
\* claimed, a ticket gets into it once, and only a claimant takes its result.
Claims == LoaderTypes /\ Sound /\ \A j \in Ahead : ClaimedOnce(j)

LInv == Core /\ Tally /\ Claims

-----------------------------------------------------------------------------
Given(j) == done[j] /\ result[j] = "none"

LEMMA ClaimsSay ==
    ASSUME Core, Claims
    PROVE  /\ Types /\ Results /\ LoaderTypes /\ Sound
           /\ \A j \in Ahead : ClaimedOnce(j)
           /\ Ahead \subseteq Jobs /\ None \notin Jobs
           /\ "free" \notin Jobs /\ "taking" \notin Jobs
           /\ \A j \in Jobs : UrlOf[j] \in Urls
  BY AheadAssumption, NoneAssumption, WindowAssumption, UrlAssumption DEF Core, Claims

\* Nobody new has, or waits for, a ticket.
LEMMA NobodyNew ==
    ASSUME Claims, LoaderTypes', Sound',
           \A t \in Takers : taker'[t].ticket = taker[t].ticket,
           \A w \in Threads : claim'[w] = claim[w] \/ claim'[w] = None,
           \A j \in Ahead : /\ j # None
                            /\ Kept(j)' => Kept(j)
                            /\ window' = j => window = j
                            /\ j \in Submitted => j \in Submitted'
                            /\ Open(j)' => Open(j) /\ (Given(j)' => Given(j))
    PROVE  Claims'
<1> SUFFICES ASSUME NEW j \in Ahead PROVE ClaimedOnce(j)'
  BY DEF Claims
<1>0. ClaimedOnce(j)
  BY DEF Claims
<1>1. /\ \A t \in Takers : taker'[t].ticket = j <=> taker[t].ticket = j
      /\ \A w \in Threads : claim'[w] = j => claim[w] = j
  OBVIOUS
<1>2. OneEach(j)'
  BY <1>0, <1>1 DEF ClaimedOnce, OneEach
<1>3. Unclaimed(j) => Unclaimed(j)'
  BY <1>1 DEF Unclaimed
<1>4. /\ Pending(j)' => Pending(j)
      /\ ~(Kept(j) /\ window = j) => ~(Kept(j)' /\ window' = j)
  BY DEF Pending
<1>5. Open(j)' => ~(done'[j] /\ result'[j] = "none")
  BY <1>0 DEF ClaimedOnce, Given
<1>6. QED
  BY <1>0, <1>2, <1>3, <1>4, <1>5 DEF ClaimedOnce

\* ... and the takers do not change but for being woken.
LEMMA OpenStays ==
    ASSUME NEW j, UNCHANGED loaderVars,
           \A t \in Takers : /\ taker'[t].ticket = taker[t].ticket
                             /\ taker'[t].at = taker[t].at
                                \/ (taker[t].at = "asleep" /\ taker'[t].at = "woken")
    PROVE  (Kept(j)' <=> Kept(j)) /\ (Open(j)' <=> Open(j))
<1>1. UNCHANGED <<ahead, window, stage, claim>>
  BY DEF loaderVars
<1>2. \A t \in Takers : Waits(t, j)' <=> Waits(t, j)
  BY DEF Waits
<1>3. QED
  BY <1>1, <1>2 DEF Open, Pending, Kept

LEMMA PoolKeepsClaims ==
    ASSUME Core, Claims, UNCHANGED loaderVars,
           \A t \in Takers : /\ taker'[t].ticket = taker[t].ticket
                             /\ taker'[t].at = taker[t].at
                                \/ (taker[t].at = "asleep" /\ taker'[t].at = "woken"),
           \A j \in Jobs : (Given(j)' => Given(j)) /\ (j \in Submitted => j \in Submitted')
    PROVE  Claims'
<1>0. LoaderTypes /\ Sound /\ Ahead \subseteq Jobs /\ None \notin Jobs
  BY ClaimsSay
<1>1. UNCHANGED <<ahead, window, stage, claim>>
  BY DEF loaderVars
<1>2. LoaderTypes'
  BY <1>0, <1>1 DEF LoaderTypes
<1>3. Sound'
  BY <1>0, <1>1 DEF Sound
<1>4. \A j \in Ahead : (Kept(j)' <=> Kept(j)) /\ (Open(j)' <=> Open(j))
  BY OpenStays
<1>5. QED
  BY <1>0, <1>1, <1>2, <1>3, <1>4, NobodyNew

-----------------------------------------------------------------------------
\* prefetch(): a ticket that was not there before, and nobody's.
LEMMA PrefetchClaims ==
    ASSUME Core, Claims, NEW j \in Jobs, Prefetch(j)
    PROVE  Claims'
<1>0. /\ Types /\ Results /\ LoaderTypes /\ Sound /\ (\A i \in Ahead : ClaimedOnce(i))
      /\ Ahead \subseteq Jobs /\ None \notin Jobs /\ "free" \notin Jobs /\ j \in Ahead
  BY ClaimsSay DEF Prefetch
<1>1. /\ window = "free" /\ window' = j /\ UNCHANGED <<ahead, stage, claim, taker, done>>
      /\ result[j] = "unasked" /\ result' = [result EXCEPT ![j] = "none"]
  BY DEF Prefetch, Submit
<1>2. /\ result'[j] = "none" /\ ~done[j] /\ j \notin Submitted /\ j \in Submitted'
      /\ \A i \in Jobs : i # j => result'[i] = result[i] /\ (i \in Submitted' <=> i \in Submitted)
  BY <1>0, <1>1 DEF Types, Results, Submitted
<1>3. LoaderTypes' /\ Sound'
  BY <1>0, <1>1 DEF LoaderTypes, Sound
<1>4. ASSUME NEW i \in Ahead PROVE ClaimedOnce(i)'
  <2>0. ClaimedOnce(i) /\ i \in Jobs /\ window # i
    BY <1>0, <1>1
  <2>1. (OneEach(i)' <=> OneEach(i)) /\ (Unclaimed(i)' <=> Unclaimed(i)) /\ (Kept(i)' <=> Kept(i))
    BY <1>1 DEF OneEach, Unclaimed, Kept
  <2>2. CASE i = j
    <3>1. Unclaimed(i) /\ ~Kept(i)
      BY <1>2, <2>0, <2>2 DEF ClaimedOnce, Pending
    <3>2. QED
      BY <1>1, <1>2, <2>0, <2>1, <2>2, <3>1 DEF ClaimedOnce
  <2>3. CASE i # j
    <3>1. (Pending(i)' <=> Pending(i)) /\ window' # i
      BY <1>1, <2>0, <2>1, <2>3 DEF Pending
    <3>2. Open(i)' <=> Open(i)
      BY <1>1, <3>1 DEF Open, Waits
    <3>3. QED
      BY <1>1, <1>2, <2>0, <2>1, <2>3, <3>1, <3>2 DEF ClaimedOnce
  <2>4. QED
    BY <2>2, <2>3
<1>5. QED
  BY <1>3, <1>4 DEF Claims

\* m_ahead[key] = ticket: from the window's hands into the map.
LEMMA NoteAheadClaims ==
    ASSUME Core, Claims, NEW j \in Jobs, NoteAhead(j)
    PROVE  Claims'
<1>0. /\ Types /\ Results /\ LoaderTypes /\ Sound /\ (\A i \in Ahead : ClaimedOnce(i))
      /\ Ahead \subseteq Jobs /\ None \notin Jobs /\ "free" \notin Jobs /\ j \in Ahead /\ UrlOf[j] \in Urls
  BY ClaimsSay DEF NoteAhead
<1>1. /\ window = j /\ window' = "free" /\ ahead' = [ahead EXCEPT ![UrlOf[j]] = j]
      /\ UNCHANGED <<stage, claim, taker, done, result>>
  BY DEF NoteAhead, vars, ticketVars
<1>2. \A u \in Urls : ahead'[u] = IF u = UrlOf[j] THEN j ELSE ahead[u]
  BY <1>0, <1>1 DEF LoaderTypes
<1>3. LoaderTypes'
  BY <1>0, <1>1 DEF LoaderTypes
<1>4. Sound'
  BY <1>0, <1>1, <1>2 DEF Sound
<1>5. ASSUME NEW i \in Ahead PROVE ClaimedOnce(i)'
  <2>0. ClaimedOnce(i) /\ i \in Jobs /\ UrlOf[i] \in Urls
    BY <1>0, UrlAssumption
  <2>1. (OneEach(i)' <=> OneEach(i)) /\ (Unclaimed(i)' <=> Unclaimed(i)) /\ Submitted' = Submitted
    BY <1>1 DEF OneEach, Unclaimed, Submitted
  <2>2. Kept(i)' => Kept(i) \/ i = j
    BY <1>2, <2>0 DEF Kept
  <2>3. (Pending(i)' => Pending(i)) /\ window' # i
    BY <1>0, <1>1, <2>0, <2>2 DEF Pending
  <2>4. Open(i)' => Open(i)
    BY <1>1, <2>3 DEF Open, Waits
  <2>5. QED
    BY <1>1, <2>0, <2>1, <2>3, <2>4 DEF ClaimedOnce
<1>6. QED
  BY <1>3, <1>4, <1>5 DEF Claims

-----------------------------------------------------------------------------
\* What the map gives away is no longer in it.
LEMMA MapGives ==
    ASSUME Core, Claims, NEW u \in Urls, ahead[u] # None, ahead' = Claimed(u)
    PROVE  /\ ahead[u] \in Ahead /\ ahead[u] \in Jobs /\ Kept(ahead[u])
           /\ ahead' \in [Urls -> Ahead \cup {None}]
           /\ \A v \in Urls : ahead'[v] # None => ahead'[v] = ahead[v]
           /\ \A i \in Ahead : Kept(i)' <=> Kept(i) /\ i # ahead[u]
<1>0. LoaderTypes /\ Sound /\ Ahead \subseteq Jobs /\ None \notin Jobs /\ \A j \in Jobs : UrlOf[j] \in Urls
  BY ClaimsSay
<1>1. ahead[u] \in Ahead /\ UrlOf[ahead[u]] = u
  BY <1>0 DEF LoaderTypes, Sound
<1>2. \A v \in Urls : ahead'[v] = IF v = u THEN None ELSE ahead[v]
  BY <1>0 DEF LoaderTypes, Claimed
<1>3. ahead' \in [Urls -> Ahead \cup {None}]
  BY <1>0 DEF LoaderTypes, Claimed
<1>4. ASSUME NEW i \in Ahead PROVE Kept(i)' <=> Kept(i) /\ i # ahead[u]
  BY <1>0, <1>1, <1>2 DEF Kept
<1>5. QED
  BY <1>0, <1>1, <1>2, <1>3, <1>4 DEF Kept

LEMMA LetGoClaims ==
    ASSUME Core, Claims, NEW u \in Urls, LetGo(u)
    PROVE  Claims'
<1>0. LoaderTypes /\ Sound /\ Ahead \subseteq Jobs /\ None \notin Jobs
  BY ClaimsSay
<1>1. /\ ahead[u] # None /\ ahead' = Claimed(u)
      /\ UNCHANGED <<window, stage, claim, taker, done, result>>
  BY DEF LetGo, Claimed, vars, ticketVars
<1>2. LoaderTypes' /\ Sound'
  BY <1>0, <1>1, MapGives DEF LoaderTypes, Sound
<1>3. \A i \in Ahead : Kept(i)' => Kept(i)
  BY <1>1, MapGives
<1>4. ASSUME NEW i \in Ahead PROVE Open(i)' => Open(i) /\ (Given(i)' => Given(i))
  BY <1>1, <1>3 DEF Open, Pending, Waits, Given
<1>5. Submitted' = Submitted
  BY <1>1 DEF Submitted
<1>6. QED
  BY <1>0, <1>1, <1>2, <1>3, <1>4, <1>5, NobodyNew

\* The window's thread asks for a background fetch, or comes back from a call.
LEMMA WindowClaims ==
    ASSUME Core, Claims, UNCHANGED <<ahead, stage, claim, taker, done>>,
           window' \notin Ahead, window' \in {"free", "taking"} \cup Jobs,
           \A i \in Ahead : result'[i] = result[i]
    PROVE  Claims'
<1>0. LoaderTypes /\ Sound /\ Ahead \subseteq Jobs /\ None \notin Jobs
  BY ClaimsSay
<1>2. LoaderTypes' /\ Sound'
  BY <1>0 DEF LoaderTypes, Sound
<1>3. ASSUME NEW i \in Ahead
      PROVE  /\ Kept(i)' => Kept(i)
             /\ window' # i
             /\ i \in Submitted => i \in Submitted'
             /\ Open(i)' => Open(i) /\ (Given(i)' => Given(i))
  BY <1>0 DEF Open, Pending, Waits, Given, Kept, Submitted
<1>4. QED
  BY <1>0, <1>2, <1>3, NobodyNew

LEMMA WindowKeepsClaims ==
    ASSUME Core, Claims, Loaded \/ \E j \in Jobs : FetchInBackground(j) \/ BackgroundAsked(j)
    PROVE  Claims'
<1>0. Types /\ Ahead \subseteq Jobs /\ "free" \notin Jobs
  BY ClaimsSay
<1>1. CASE \E j \in Jobs : FetchInBackground(j)
  <2>1. PICK j \in Jobs \ Ahead : FetchInBackground(j)
    BY <1>1 DEF FetchInBackground
  <2>2. /\ UNCHANGED <<ahead, stage, claim, taker, done>> /\ window' = j
        /\ result' = [result EXCEPT ![j] = "none"]
    BY <2>1 DEF FetchInBackground, Submit
  <2>3. QED
    BY <1>0, <2>2, WindowClaims DEF Types
<1>2. CASE Loaded \/ \E j \in Jobs : BackgroundAsked(j)
  <2>1. UNCHANGED <<ahead, stage, claim, taker, done, result>> /\ window' = "free"
    BY <1>2 DEF Loaded, BackgroundAsked, vars, ticketVars
  <2>2. QED
    BY <1>0, <2>1, WindowClaims
<1>3. QED
  BY <1>1, <1>2

\* load_subresource(): from the map to one taker, who is then the only one.
LEMMA LoadClaims ==
    ASSUME Core, Claims, NEW t \in Takers, NEW u \in Urls, LoadSubresource(t, u)
    PROVE  Claims'
<1>0. /\ Types /\ Results /\ LoaderTypes /\ Sound /\ (\A i \in Ahead : ClaimedOnce(i))
      /\ Ahead \subseteq Jobs /\ None \notin Jobs /\ "free" \notin Jobs /\ "taking" \notin Jobs
  BY ClaimsSay
<1> DEFINE j == ahead[u]
<1>1. /\ window = "free" /\ window' = "taking" /\ j # None /\ ahead' = Claimed(u)
      /\ taker[t].at = "idle" /\ TakeNow(t, j) /\ UNCHANGED <<stage, claim, done>>
  BY DEF LoadSubresource, Take
<1>2. /\ j \in Ahead /\ j \in Jobs /\ Kept(j)
      /\ ahead' \in [Urls -> Ahead \cup {None}]
      /\ \A v \in Urls : ahead'[v] # None => ahead'[v] = ahead[v]
      /\ \A i \in Ahead : Kept(i)' <=> Kept(i) /\ i # j
  BY <1>1, MapGives
<1> HIDE DEF j
<1>3. Unclaimed(j) /\ ~Given(j) /\ j \in Submitted /\ ClaimedOnce(j)
  BY <1>0, <1>2 DEF ClaimedOnce, Open, Pending, Given
<1>4. PICK at \in {"got", "asleep"} :
        /\ taker' = [taker EXCEPT ![t] = [at |-> at, ticket |-> j]]
        /\ done[j] <=> at = "got"
        /\ \A i \in Jobs : result'[i] = IF i = j /\ done[j] THEN "none" ELSE result[i]
  BY <1>0, <1>1, <1>2, <1>3 DEF TakeNow, Handed, Types, Given
<1>5. /\ taker'[t].at = at /\ taker'[t].ticket = j
      /\ \A s \in Takers : s # t => taker'[s] = taker[s]
  BY <1>0, <1>4 DEF Types
<1>6. LoaderTypes'
  BY <1>0, <1>1, <1>2 DEF LoaderTypes
<1>7. Sound'
  BY <1>0, <1>1, <1>2, <1>5 DEF Sound
<1>8. ASSUME NEW i \in Ahead PROVE ClaimedOnce(i)'
  <2>0. ClaimedOnce(i) /\ i \in Jobs /\ window # i /\ window' # i
    BY <1>0, <1>1
  <2>1. result'[i] = "unasked" => result[i] = "unasked"
    BY <1>4, <2>0
  <2>2. i \in Submitted => i \in Submitted'
    BY <2>1, <2>0 DEF Submitted
  <2>5. i \notin Submitted' => i \notin Submitted
    BY <2>2
  <2>3. CASE i = j
    <3>1. OneEach(i)'
      BY <1>1, <1>3, <1>5, <2>3 DEF OneEach, Unclaimed
    <3>2. ~Pending(i)'
      BY <1>2, <2>0, <2>3 DEF Pending
    <3>3. Open(i)' => at = "asleep"
      <4>1. \A s \in Takers : Waits(s, i)' => s = t
        BY <1>3, <1>5, <2>3 DEF Unclaimed, Waits
      <4>2. \A w \in Threads : claim'[w] # i
        BY <1>1, <1>3, <2>3 DEF Unclaimed
      <4>3. Waits(t, i)' => at = "asleep"
        BY <1>5 DEF Waits
      <4>4. QED
        BY <3>2, <4>1, <4>2, <4>3 DEF Open
    <3>4. Open(i)' => ~done'[i]
      BY <1>1, <1>4, <2>3, <3>3
    <3>5. QED
      BY <1>3, <2>2, <2>3, <3>1, <3>2, <3>4, <2>0 DEF ClaimedOnce, Pending
  <2>4. CASE i # j
    <3>1. \A s \in Takers : taker'[s].ticket = i => taker[s].ticket = i
      BY <1>5, <2>4
    <3>2. \A s \in Takers : Waits(s, i)' => Waits(s, i)
      BY <1>5, <2>4 DEF Waits
    <3>3. OneEach(i)' /\ (Unclaimed(i) => Unclaimed(i)')
      BY <1>1, <2>0, <3>1 DEF OneEach, Unclaimed, ClaimedOnce
    <3>4. (Pending(i)' => Pending(i)) /\ (Open(i)' => Open(i))
      BY <1>1, <1>2, <2>0, <3>2 DEF Pending, Open
    <3>5. done'[i] = done[i] /\ result'[i] = result[i]
      BY <1>1, <1>4, <2>0, <2>4
    <3>6. QED
      BY <2>0, <2>5, <3>3, <3>4, <3>5 DEF ClaimedOnce
  <2>6. QED
    BY <2>3, <2>4
<1>9. QED
  BY <1>6, <1>7, <1>8 DEF Claims

-----------------------------------------------------------------------------
\* A background fetch claims as the page does, from a thread of the pool.
LEMMA BeginClaims ==
    ASSUME Core, Claims, NEW w \in Threads, BeginWork(w)
    PROVE  Claims'
<1>0. /\ Types /\ Places /\ LoaderTypes /\ Sound /\ (\A i \in Ahead : ClaimedOnce(i))
      /\ Ahead \subseteq Jobs /\ None \notin Jobs
  BY ClaimsSay DEF Core
<1>1. UNCHANGED <<window, taker, done, result>> /\ Submitted' = Submitted
  BY DEF BeginWork, vars, ticketVars, Submitted
<1>2. CASE stage' = [stage EXCEPT ![w] = "fetching"] /\ UNCHANGED <<ahead, claim>>
  <2>1. /\ stage'[w] = "fetching"
        /\ \A v \in Threads : stage'[v] = "waiting" => stage[v] = "waiting"
    BY <1>0, <1>2 DEF LoaderTypes
  <2>2. LoaderTypes' /\ Sound'
    BY <1>0, <1>1, <1>2, <2>1 DEF LoaderTypes, Sound
  <2>3. ASSUME NEW i \in Ahead
        PROVE  (Kept(i)' <=> Kept(i)) /\ (Open(i)' => Open(i)) /\ (Given(i)' <=> Given(i))
    BY <1>1, <1>2, <2>1 DEF Open, Pending, Kept, Waits, Given
  <2>4. QED
    BY <1>0, <1>1, <1>2, <2>2, <2>3, NobodyNew
<1>3. CASE /\ ahead[UrlOf[job[w]]] # None
           /\ claim' = [claim EXCEPT ![w] = ahead[UrlOf[job[w]]]]
           /\ ahead' = Claimed(UrlOf[job[w]])
           /\ stage' = [stage EXCEPT ![w] = "waiting"]
  <2>1. w \in Working
    BY DEF BeginWork, Working, At
  <2>2. PICK u \in Urls : u = UrlOf[job[w]]
    BY <1>0, <2>1, UrlAssumption DEF Places
  <2> DEFINE j == ahead[u]
  <2>3. /\ j # None /\ ahead' = Claimed(u)
        /\ claim' = [claim EXCEPT ![w] = j] /\ stage' = [stage EXCEPT ![w] = "waiting"]
    BY <1>3, <2>2
  <2>4. /\ j \in Ahead /\ j \in Jobs /\ Kept(j)
        /\ ahead' \in [Urls -> Ahead \cup {None}]
        /\ \A v \in Urls : ahead'[v] # None => ahead'[v] = ahead[v]
        /\ \A i \in Ahead : Kept(i)' <=> Kept(i) /\ i # j
    BY <2>3, MapGives
  <2> HIDE DEF j
  <2>5. Unclaimed(j) /\ ~Given(j) /\ j \in Submitted /\ ClaimedOnce(j) /\ window # j
    BY <1>0, <2>4 DEF ClaimedOnce, Open, Pending, Given
  <2>6. /\ claim'[w] = j /\ stage'[w] = "waiting"
        /\ \A v \in Threads : v # w => claim'[v] = claim[v] /\ stage'[v] = stage[v]
    BY <1>0, <2>3 DEF LoaderTypes
  <2>7. LoaderTypes'
    BY <1>0, <1>1, <2>3, <2>4 DEF LoaderTypes
  <2>8. Sound'
    BY <1>0, <1>1, <2>3, <2>4, <2>6 DEF Sound
  <2>9. ASSUME NEW i \in Ahead PROVE ClaimedOnce(i)'
    <3>0. ClaimedOnce(i) /\ i \in Jobs
      BY <1>0
    <3>1. CASE i = j
      <4>1. OneEach(i)'
        BY <1>1, <2>5, <2>6, <3>1 DEF OneEach, Unclaimed
      <4>2. ~Pending(i)'
        BY <1>1, <2>4, <2>5, <3>1 DEF Pending
      <4>3. ~Given(i)'
        BY <1>1, <2>5, <3>1 DEF Given
      <4>4. QED
        BY <1>1, <2>5, <3>1, <4>1, <4>2, <4>3 DEF ClaimedOnce, Pending, Given
    <3>2. CASE i # j
      <4>1. \A v \in Threads : claim'[v] = i => claim[v] = i /\ stage'[v] = stage[v]
        BY <2>6, <3>2
      <4>2. OneEach(i)' /\ (Unclaimed(i) => Unclaimed(i)')
        BY <1>1, <3>0, <4>1 DEF OneEach, Unclaimed, ClaimedOnce
      <4>3. (Pending(i)' => Pending(i)) /\ (Kept(i)' => Kept(i))
        BY <1>1, <2>4 DEF Pending
      <4>4. Open(i)' => Open(i)
        BY <1>1, <4>1, <4>3 DEF Open, Waits
      <4>5. QED
        BY <1>1, <3>0, <4>2, <4>3, <4>4 DEF ClaimedOnce
    <3>3. QED
      BY <3>1, <3>2
  <2>10. QED
    BY <2>7, <2>8, <2>9 DEF Claims
<1>4. QED
  BY <1>2, <1>3 DEF BeginWork

\* take() on the pool's thread: the result is there, and the thread lets go.
LEMMA TakeAheadKeeps ==
    ASSUME Core, Tally, Claims, NEW w \in Threads, TakeAhead(w)
    PROVE  Core' /\ Tally' /\ Claims'
<1>0. /\ Types /\ Places /\ Results /\ Phases /\ Unstarted /\ Asking
      /\ LoaderTypes /\ Sound /\ (\A i \in Ahead : ClaimedOnce(i))
      /\ Ahead \subseteq Jobs /\ None \notin Jobs
  BY ClaimsSay DEF Core
<1>2. PICK j \in Ahead : j = claim[w]
  BY <1>0 DEF Sound, LoaderTypes, TakeAhead
<1>1. /\ stage[w] = "waiting" /\ done[j] /\ result' = [result EXCEPT ![j] = "none"] /\ j \in Jobs
      /\ stage' = [stage EXCEPT ![w] = "fetching"]
      /\ UNCHANGED <<poolVars, done, dropped, dtor, taker, wake, ahead, window, claim>>
  BY <1>0, <1>2 DEF TakeAhead
<1>3. /\ result[j] # "unasked" /\ result'[j] = "none"
      /\ \A i \in Jobs : i # j => result'[i] = result[i]
  BY <1>0, <1>1, <1>2 DEF Results, Types
<1>4. UNCHANGED <<queue, threads, pc, job, done, dropped, dtor, taker>>
  BY <1>1 DEF poolVars
<1>5. \A i \in Jobs : result'[i] = "unasked" <=> result[i] = "unasked"
  BY <1>3
<1>6. Submitted' = Submitted
  BY <1>5 DEF Submitted
<1>7. Core'
  <2>1. Types'
    BY <1>0, <1>1, <1>4 DEF Types
  <2>2. Places'
    BY <1>4, <1>5, StayPlaced DEF Working, At
  <2>3. Results'
    BY <1>0, <1>1, <1>2, <1>3, <1>4 DEF Results
  <2>4. Phases' /\ Unstarted' /\ Asking'
    BY <1>0, <1>4, <1>6 DEF Phases, Unstarted, Asking
  <2>5. QED
    BY <2>1, <2>2, <2>3, <2>4 DEF Core
<1>8. Tally'
  <2>1. wake \in BOOLEAN /\ dtor \in {"up", "notifying", "answering", "gone"}
    BY TallySays
  <2>2. QED
    BY <1>1, <1>6, <2>1, StillTallies
<1>9. Claims'
  <2>1. /\ stage'[w] = "fetching"
        /\ \A v \in Threads : v # w => stage'[v] = stage[v]
    BY <1>0, <1>1 DEF LoaderTypes
  <2>2. LoaderTypes' /\ Sound'
    BY <1>0, <1>1, <2>1 DEF LoaderTypes, Sound
  <2>3. ~Open(j)'
    <3>1. ClaimedOnce(j) /\ claim[w] = j
      BY <1>0, <1>2
    <3>2. ~Pending(j)
      BY <3>1 DEF ClaimedOnce, Unclaimed
    <3>3. (\A t \in Takers : ~Waits(t, j)) /\ (\A v \in Threads : claim[v] = j => v = w)
      BY <3>1 DEF ClaimedOnce, OneEach, Waits
    <3>4. QED
      BY <1>1, <2>1, <3>2, <3>3 DEF Open, Pending, Kept, Waits
  <2>4. ASSUME NEW i \in Ahead
        PROVE  (Kept(i)' <=> Kept(i)) /\ (Open(i)' => Open(i) /\ (Given(i)' => Given(i)))
    <3>1. (Kept(i)' <=> Kept(i)) /\ (Open(i)' => Open(i))
      BY <1>1, <2>1 DEF Open, Pending, Kept, Waits
    <3>2. i # j => (Given(i)' <=> Given(i))
      BY <1>0, <1>1, <1>3 DEF Given
    <3>3. QED
      BY <2>3, <3>1, <3>2
  <2>5. QED
    BY <1>0, <1>1, <1>6, <2>2, <2>4, NobodyNew
<1>10. QED
  BY <1>7, <1>8, <1>9

LEMMA EndClaims ==
    ASSUME Core, Claims, NEW w \in Threads, EndWork(w)
    PROVE  Claims'
<1>0. Types /\ Places /\ LoaderTypes /\ Sound /\ Ahead \subseteq Jobs /\ None \notin Jobs
  BY ClaimsSay DEF Core
<1>1. /\ stage' = [stage EXCEPT ![w] = "begun"] /\ claim' = [claim EXCEPT ![w] = None]
      /\ UNCHANGED <<ahead, window, taker>>
      /\ pc[w] = "working" /\ result' = [result EXCEPT ![job[w]] = "answer"]
      /\ done' = [done EXCEPT ![job[w]] = TRUE]
  BY DEF EndWork, Answer
<1>2. job[w] \in Jobs /\ result[job[w]] # "unasked"
  <2>1. w \in Working
    BY <1>1 DEF Working, At
  <2>2. QED
    BY <1>0, <2>1 DEF Places, Placed, AtWork
<1>3. \A i \in Jobs : (Given(i)' => Given(i)) /\ (i \in Submitted => i \in Submitted')
  BY <1>0, <1>1, <1>2 DEF Types, Given, Submitted
<1>4. /\ \A v \in Threads : claim'[v] = claim[v] \/ claim'[v] = None
      /\ \A v \in Threads : stage'[v] = "waiting" => stage[v] = "waiting" /\ claim'[v] = claim[v]
  BY <1>0, <1>1 DEF LoaderTypes
<1>5. LoaderTypes' /\ Sound'
  BY <1>0, <1>1, <1>4 DEF LoaderTypes, Sound
<1>6. ASSUME NEW i \in Ahead PROVE (Kept(i)' <=> Kept(i)) /\ (Open(i)' => Open(i))
  BY <1>1, <1>4 DEF Open, Pending, Kept, Waits
<1>7. QED
  BY <1>0, <1>1, <1>3, <1>4, <1>5, <1>6, NobodyNew

-----------------------------------------------------------------------------
\* The pool's own steps.
LEMMA TakeAgainClaims ==
    ASSUME Core, Claims, NEW t \in Takers, TakeAgain(t), UNCHANGED loaderVars
    PROVE  Claims'
<1>0. /\ Types /\ LoaderTypes /\ Sound /\ Asking /\ (\A i \in Ahead : ClaimedOnce(i))
      /\ Ahead \subseteq Jobs /\ None \notin Jobs
  BY ClaimsSay DEF Core
<1>1. PICK j \in Ahead : j = taker[t].ticket /\ taker[t].at = "woken"
  BY <1>0 DEF TakeAgain, Sound
<1>2. TakeNow(t, j) /\ UNCHANGED <<done, ahead, window, stage, claim>> /\ j \in Jobs
  BY <1>0, <1>1 DEF TakeAgain, loaderVars
<1>3. ClaimedOnce(j) /\ Open(j) /\ ~Given(j)
  BY <1>0, <1>1 DEF ClaimedOnce, Open, Waits, Given
<1>4. PICK at \in {"got", "asleep"} :
        /\ taker' = [taker EXCEPT ![t] = [at |-> at, ticket |-> j]]
        /\ done[j] <=> at = "got"
        /\ \A i \in Jobs : result'[i] = IF i = j /\ done[j] THEN "none" ELSE result[i]
  BY <1>0, <1>2, <1>3 DEF TakeNow, Handed, Types, Given
<1>5. /\ taker'[t].at = at /\ taker'[t].ticket = j
      /\ \A s \in Takers : s # t => taker'[s] = taker[s]
  BY <1>0, <1>4 DEF Types
<1>6. \A s \in Takers : taker'[s].ticket = taker[s].ticket
  BY <1>1, <1>5
<1>7. LoaderTypes' /\ Sound'
  BY <1>0, <1>1, <1>2, <1>5 DEF LoaderTypes, Sound
<1>8. \A i \in Ahead, s \in Takers : Waits(s, i)' => Waits(s, i)
  BY <1>1, <1>5 DEF Waits
<1>9. ASSUME NEW i \in Ahead PROVE (Kept(i)' <=> Kept(i)) /\ (Open(i)' => Open(i))
  BY <1>2, <1>8 DEF Open, Pending, Kept
<1>10. done[j] => ~Open(j)'
  <2> SUFFICES ASSUME done[j] PROVE ~Open(j)'
    OBVIOUS
  <2>1. ~Pending(j) /\ (\A w \in Threads : claim[w] # j) /\ \A s \in Takers : Waits(s, j) => s = t
    BY <1>1, <1>3 DEF ClaimedOnce, Unclaimed, OneEach, Waits
  <2>2. ~Waits(t, j)'
    BY <1>4, <1>5 DEF Waits
  <2>3. QED
    BY <1>2, <1>8, <2>1, <2>2 DEF Open, Pending, Kept
<1>11. ASSUME NEW i \in Ahead PROVE (i \in Submitted => i \in Submitted') /\ (Open(i)' => (Given(i)' => Given(i)))
  <2>1. j \in Submitted
    BY <1>0, <1>1 DEF Asking
  <2>2. i \in Jobs /\ done' = done
    BY <1>0, <1>2
  <2>3. i \in Submitted => i \in Submitted'
    BY <1>4, <2>1, <2>2 DEF Submitted
  <2>4. CASE i = j /\ done[j]
    BY <1>10, <2>3, <2>4
  <2>5. CASE ~(i = j /\ done[j])
    <3>1. result'[i] = result[i]
      BY <1>4, <2>2, <2>5
    <3>2. QED
      BY <2>2, <2>3, <3>1 DEF Given
  <2>6. QED
    BY <2>4, <2>5
<1>12. QED
  BY <1>0, <1>2, <1>6, <1>7, <1>9, <1>11, NobodyNew

LEMMA PoolClaims ==
    ASSUME Core, Claims, UNCHANGED loaderVars,
           \/ \E j \in Jobs : NotifyOne(j)
           \/ \E w \in Threads : PoolThread(w) \/ WakeSpuriously(w)
           \/ Stop \/ NotifyAll \/ AnswerDropped \/ Join
           \/ LoopTurn \/ Over \/ UNCHANGED vars
    PROVE  Claims'
<1>0. Types /\ Places
  BY DEF Core
<1>1. CASE AnswerDropped
  <2>1. /\ dropped # <<>> /\ taker' = Woken(Head(dropped))
        /\ result' = [result EXCEPT ![Head(dropped)] = "error"]
        /\ done' = [done EXCEPT ![Head(dropped)] = TRUE]
    BY <1>1 DEF AnswerDropped
  <2>2. Head(dropped) \in Jobs
    BY <1>0, <2>1, TailOnce DEF Types, Places
  <2>3. \A i \in Jobs : (Given(i)' => Given(i)) /\ (i \in Submitted => i \in Submitted')
    BY <1>0, <2>1, <2>2 DEF Types, Given, Submitted
  <2>4. \A t \in Takers : /\ taker'[t].ticket = taker[t].ticket
                          /\ taker'[t].at = taker[t].at
                             \/ (taker[t].at = "asleep" /\ taker'[t].at = "woken")
    BY <2>1, WakingKeeps
  <2>5. QED
    BY <2>3, <2>4, PoolKeepsClaims
<1>2. CASE \E w \in Threads : NotifyTicket(w)
  <2>1. PICK w \in Threads : taker' = Woken(job[w]) /\ UNCHANGED <<done, result>>
    BY <1>2 DEF NotifyTicket, ticketVars
  <2>2. \A t \in Takers : /\ taker'[t].ticket = taker[t].ticket
                          /\ taker'[t].at = taker[t].at
                             \/ (taker[t].at = "asleep" /\ taker'[t].at = "woken")
    BY <2>1, WakingKeeps
  <2>3. \A i \in Jobs : (Given(i)' => Given(i)) /\ (i \in Submitted => i \in Submitted')
    BY <2>1 DEF Given, Submitted
  <2>4. QED
    BY <2>2, <2>3, PoolKeepsClaims
<1>3. CASE \/ \E j \in Jobs : NotifyOne(j)
           \/ \E w \in Threads : Arrive(w) \/ LookAgain(w) \/ Discount(w) \/ CallWake(w) \/ WakeSpuriously(w)
           \/ Stop \/ NotifyAll \/ Join \/ LoopTurn \/ Over \/ UNCHANGED vars
  <2>1. UNCHANGED <<taker, done, result>>
    BY <1>3 DEF NotifyOne, Arrive, LookAgain, WakeSpuriously, Discount, CallWake,
                Stop, NotifyAll, Join, LoopTurn, Over, vars, ticketVars
  <2>2. \A i \in Jobs : (Given(i)' => Given(i)) /\ (i \in Submitted => i \in Submitted')
    BY <2>1 DEF Given, Submitted
  <2>3. QED
    BY <2>1, <2>2, PoolKeepsClaims
<1>4. QED
  BY <1>1, <1>2, <1>3 DEF PoolThread

\* A step of the loader is a step of the pool, one of a thread that takes what it
\* claimed, or none of the pool's.
LEMMA LoaderStepIs ==
    ASSUME [LoaderNext]_allVars
    PROVE  [Next]_vars \/ \E w \in Threads : TakeAhead(w)
<1>1. CASE \E j \in Jobs : Prefetch(j) \/ FetchInBackground(j)
  BY <1>1 DEF Prefetch, FetchInBackground, Next
<1>2. CASE \E u \in Urls, t \in Takers : LoadSubresource(t, u)
  <2>1. PICK u \in Urls, t \in Takers : Take(t, ahead[u])
    BY <1>2 DEF LoadSubresource
  <2>2. ahead[u] \in Jobs
    BY <2>1 DEF Take, Submitted
  <2>3. QED
    BY <2>1, <2>2 DEF Next
<1>3. CASE \E w \in Threads : EndWork(w)
  BY <1>3 DEF EndWork, Next, WorkerStep
<1>4. CASE \/ \E j \in Jobs : NoteAhead(j) \/ BackgroundAsked(j)
           \/ \E u \in Urls : LetGo(u)
           \/ Loaded \/ \E w \in Threads : BeginWork(w)
           \/ UNCHANGED allVars
  BY <1>4 DEF NoteAhead, BackgroundAsked, LetGo, Loaded, BeginWork, allVars
<1>5. CASE /\ \/ \E j \in Jobs : NotifyOne(j)
              \/ \E w \in Threads : PoolThread(w) \/ WakeSpuriously(w)
              \/ window = "free" /\ Stop
              \/ NotifyAll \/ AnswerDropped \/ Join
              \/ \E t \in Takers : TakeAgain(t)
              \/ LoopTurn
              \/ Over
           /\ UNCHANGED loaderVars
  BY <1>5 DEF PoolThread, WorkerStep, Next
<1>6. QED
  BY <1>1, <1>2, <1>3, <1>4, <1>5 DEF LoaderNext

LEMMA StepClaims ==
    ASSUME Core, Tally, Claims, [LoaderNext]_allVars
    PROVE  Claims'
<1>1. CASE \E j \in Jobs : Prefetch(j) \/ NoteAhead(j) \/ FetchInBackground(j) \/ BackgroundAsked(j)
  BY <1>1, PrefetchClaims, NoteAheadClaims, WindowKeepsClaims
<1>2. CASE \E u \in Urls : LetGo(u) \/ \E t \in Takers : LoadSubresource(t, u)
  BY <1>2, LetGoClaims, LoadClaims
<1>3. CASE Loaded
  BY <1>3, WindowKeepsClaims
<1>4. CASE \E w \in Threads : BeginWork(w) \/ TakeAhead(w) \/ EndWork(w)
  BY <1>4, BeginClaims, TakeAheadKeeps, EndClaims
<1>5. CASE (\E t \in Takers : TakeAgain(t)) /\ UNCHANGED loaderVars
  BY <1>5, TakeAgainClaims
<1>6. CASE /\ \/ \E j \in Jobs : NotifyOne(j)
              \/ \E w \in Threads : PoolThread(w) \/ WakeSpuriously(w)
              \/ Stop \/ NotifyAll \/ AnswerDropped \/ Join \/ LoopTurn \/ Over \/ UNCHANGED vars
           /\ UNCHANGED loaderVars
  BY <1>6, PoolClaims
<1>7. QED
  BY <1>1, <1>2, <1>3, <1>4, <1>5, <1>6 DEF LoaderNext, allVars

LEMMA InitClaims == LoaderInit => Claims
<1> SUFFICES ASSUME LoaderInit PROVE Claims
  OBVIOUS
<1>1. Init /\ (\A u \in Urls : ahead[u] = None) /\ window = "free"
  BY DEF LoaderInit
<1>2. LoaderTypes /\ Sound
  BY <1>1 DEF LoaderInit, Init, LoaderTypes, Sound
<1>3. ASSUME NEW j \in Ahead PROVE ClaimedOnce(j)
  <2>1. j \in Jobs /\ j # None /\ j # "free" /\ UrlOf[j] \in Urls
    BY AheadAssumption, NoneAssumption, WindowAssumption, UrlAssumption
  <2>2. Unclaimed(j) /\ ~Pending(j) /\ ~Open(j) /\ OneEach(j)
    BY <1>1, <2>1 DEF LoaderInit, Init, Unclaimed, Pending, Kept, Open, OneEach, Waits
  <2>3. QED
    BY <2>2 DEF ClaimedOnce, Pending
<1>4. QED
  BY <1>2, <1>3 DEF Claims

-----------------------------------------------------------------------------
\* The invariant of the loader and the pool under it, for any number of threads,
\* takers, addresses and jobs.
THEOREM LoaderInvariant == LoaderSpec => []LInv
<1>1. LoaderInit => LInv
  BY InitCore, InitTally, InitClaims DEF LInv, LoaderInit
<1>2. LInv /\ [LoaderNext]_allVars => LInv'
  BY LoaderStepIs, StepCore, StepTallies, TakeAheadKeeps, StepClaims DEF LInv
<1>3. QED
  BY <1>1, <1>2, PTL DEF LoaderSpec

THEOREM LoaderTypesHold == LoaderSpec => []LoaderTypeOK
<1>1. LInv => LoaderTypeOK
  BY FullTypes DEF LInv, Tally, Counts, Claims, LoaderTypes, LoaderTypeOK
<1>2. QED
  BY <1>1, LoaderInvariant, PTL

\* What was asked for ahead of the page goes to one of those who want it, the
\* page's request or a background fetch, and no taker finds it gone.
THEOREM ClaimedByOne == LoaderSpec => []OneClaimant
<1>1. LInv => OneClaimant
  <2> SUFFICES ASSUME LInv, NEW j \in Ahead
               PROVE  LET takers == {t \in Takers : taker[t].ticket = j}
                          workers == {w \in Threads : claim[w] = j}
                      IN  /\ Cardinality(takers) + Cardinality(workers) <= 1
                          /\ takers \cup workers # {} => ahead[UrlOf[j]] # j
                          /\ \A t \in takers : taker[t].at # "empty"
    BY DEF OneClaimant
  <2> DEFINE takers == {t \in Takers : taker[t].ticket = j}
             workers == {w \in Threads : claim[w] = j}
  <2>1. Sound /\ ClaimedOnce(j) /\ OneEach(j)
    BY DEF LInv, Claims, ClaimedOnce
  <2>2. takers = {} \/ workers = {}
    BY <2>1 DEF OneEach
  <2>3. takers = {} \/ \E t \in takers : takers = {t}
    BY <2>1 DEF OneEach
  <2>4. workers = {} \/ \E w \in workers : workers = {w}
    BY <2>1 DEF OneEach
  <2>5. Cardinality(takers) + Cardinality(workers) <= 1
    <3>1. Cardinality(takers) \in {0, 1} /\ (takers = {} => Cardinality(takers) = 0)
      BY <2>3, FS_EmptySet, FS_Singleton
    <3>2. Cardinality(workers) \in {0, 1} /\ (workers = {} => Cardinality(workers) = 0)
      BY <2>4, FS_EmptySet, FS_Singleton
    <3>3. QED
      BY <2>2, <3>1, <3>2
  <2>6. takers \cup workers # {} => ahead[UrlOf[j]] # j
    BY <2>1 DEF ClaimedOnce, Pending, Kept, Unclaimed
  <2>7. QED
    BY <2>1, <2>5, <2>6 DEF Sound
<1>2. QED
  BY <1>1, LoaderInvariant, PTL

\* With background fetches waiting on the pool's own threads, the pool still
\* starts a thread for every job it may, and leaves none asleep over work.
THEOREM LoaderSpreadsWork == LoaderSpec => [](WorkIsSpread /\ NobodySleepsOverWork)
  BY LoaderInvariant, PTL DEF LInv, Tally

\* ... loses no job, and answers every one before it is gone.
THEOREM LoaderLosesNothing == LoaderSpec => [](NoJobLost /\ GoneMeansAnswered)
  BY LoaderInvariant, CorePlaces, CoreAnswers, PTL DEF LInv

\* A thread that takes what it claimed takes as Tickets lets a taker take.
LEMMA TakeAheadIsGive ==
    ASSUME Core, Tally, Claims, NEW w \in Threads, TakeAhead(w)
    PROVE  [Promise!Next]_TicketState
<1>0. Types /\ Results /\ LoaderTypes /\ Sound /\ (\A i \in Ahead : ClaimedOnce(i)) /\ Ahead \subseteq Jobs
  BY ClaimsSay
<1>1. PICK j \in Ahead : j = claim[w]
  BY <1>0 DEF Sound, LoaderTypes, TakeAhead
<1>2. j \in Jobs /\ done[j] /\ done' = done /\ result' = [result EXCEPT ![j] = "none"]
  BY <1>0, <1>1 DEF TakeAhead
<1>3. Open(j)
  BY <1>1 DEF TakeAhead, Open
<1>4. result[j] \in {"answer", "error"}
  BY <1>0, <1>2, <1>3 DEF ClaimedOnce, Results, Types
<1>5. \A i \in Jobs : result'[i] = IF i = j THEN "none" ELSE result[i]
  BY <1>0, <1>2 DEF Types
<1>6. TicketState[j] \in {"answer", "error"}
  BY <1>2, <1>4, TicketIs
<1>7. \A i \in Jobs : TicketState'[i] = IF i = j THEN "taken" ELSE TicketState[i]
  BY <1>2, <1>4, <1>5 DEF TicketState
<1>8. Promise!Give(j)
  BY <1>2, <1>6, <1>7, TicketsChange DEF Promise!Give
<1>9. QED
  BY <1>2, <1>8 DEF Promise!Next

\* The tickets keep their promise whoever claims them: asked, ended, given once.
THEOREM LoaderTicketsSafe == LoaderSpec => Promise!Init /\ [][Promise!Next]_TicketState
<1>1. LoaderInit => Promise!Init
  BY DEF LoaderInit, Init, Promise!Init, TicketState
<1>2. LInv /\ [LoaderNext]_allVars => [Promise!Next]_TicketState
  BY LoaderStepIs, StepIsTickets, TakeAheadIsGive DEF LInv
<1>3. QED
  BY <1>1, <1>2, LoaderInvariant, PTL DEF LoaderSpec
=============================================================================
