------------------------- MODULE Http2SessionProofs -------------------------
(***************************************************************************)
(* Proofs about Http2Session: the types of its state, its count of slots,  *)
(* that a dead session holds no stream, that no frame it owes is stranded, *)
(* the order of stream ids on the wire, which requests it lets go again,   *)
(* and, of servers that take back nothing they have granted, that neither  *)
(* their windows nor their limit are overrun.                              *)
(***************************************************************************)
EXTENDS Http2Session, FiniteSetTheorems, WellFoundedInduction, TLAPS

-----------------------------------------------------------------------------
(* The inductive invariant. *)

BeforeId == {"slot", "slotAsleep", "write", "locked"}
Flushing == {"flush", "flushing", "flushed"}
WithId == {"registered", "sending", "body", "chunk", "writing", "bodyOver", "wait"} \cup Flushing
RequestPlaces == BeforeId \cup WithId \cup {"done"}
ReaderPlaces == {"receive", "handled", "leave", "gone"} \cup Flushing
CloserPlaces == {"idle", "closing", "shutting", "closed"}
Places == RequestPlaces \cup ReaderPlaces \cup CloserPlaces
Backs == {"none", "wait", "body", "bodyOver", "receive", "leave"}

HoldingPlaces == {"locked", "registered", "sending", "flushing", "writing", "closing"}
SlotPlaces == {"write", "locked"}
WatchPlaces == {"handled", "flush", "flushed"}
Slotted == {r \in Requests : pc[r] \in SlotPlaces}
Outcomes == {"none", "Done", "Retry", "ProtocolFailure", "Failed"}

\* A thread at x that goes to b once it has flushed.
Fits(t, x, b) ==
    /\ t \in Requests => x \in RequestPlaces /\ (x \in Flushing => b \in {"wait", "body", "bodyOver"})
    /\ t = Reader =>
          x \in ReaderPlaces /\ (x \in {"handled"} \cup Flushing => b \in {"receive", "leave"})
    /\ t = Closer => x \in CloserPlaces

\* Where every thread is, and where it goes after a flush.
Stages ==
    /\ pc \in [Threads -> Places] /\ after \in [Threads -> Backs]
    /\ \A t \in Threads : Fits(t, pc[t], after[t])

\* A request has an id from its registration on, and a stream until it ends.
Streams ==
    /\ id \in [Requests -> Nat] /\ nextId \in Nat \ {0}
    /\ outcome \in [Requests -> Outcomes]
    /\ live = {r \in Requests : id[r] # 0 /\ outcome[r] = "none"}
    /\ \A r \in Requests :
          /\ pc[r] \in BeforeId => id[r] = 0 /\ outcome[r] = "none"
          /\ pc[r] \in WithId => id[r] # 0
          /\ pc[r] = "done" => outcome[r] # "none"

\* Who is writing holds the write lock, and nobody else does.
Holding ==
    /\ writer \in Threads \cup {None}
    /\ \A t \in Threads : writer = t <=> pc[t] \in HoldingPlaces

\* A session that died holds no stream; close() killed it.
Dead ==
    /\ dead \in BOOLEAN /\ goingAway \in BOOLEAN
    /\ dead => live = {}
    /\ pc[Closer] # "idle" => dead

\* Each slot is an open stream or is about to be one.
Slots == open = Cardinality(live) + Cardinality(Slotted)

SInv == Stages /\ Streams /\ Holding /\ Dead /\ Slots /\ NothingStranded

-----------------------------------------------------------------------------
(* The shape of a step: one thread moves, and wakes those waiting for a    *)
(* slot.                                                                   *)

Moved(t, x) ==
    /\ pc' \in [Threads -> Places] /\ pc'[t] = x
    /\ \A u \in Threads \ {t} :
          pc'[u] = pc[u] \/ (u \in Requests /\ pc[u] = "slotAsleep" /\ pc'[u] = "slot")

\* It takes the write lock, lets go of it, or leaves it as it is.
LocksTo(t, x) ==
    \/ writer' = writer /\ (x \in HoldingPlaces <=> pc[t] \in HoldingPlaces)
    \/ writer = None /\ writer' = t /\ x \in HoldingPlaces
    \/ pc[t] \in HoldingPlaces /\ writer' = None /\ x \notin HoldingPlaces

\* Where it goes after a flush is its own business.
Returns(t, x) ==
    /\ after' \in [Threads -> Backs]
    /\ \A u \in Threads \ {t} : after'[u] = after[u]
    /\ Fits(t, x, after'[t])

Shape(t, x) == Moved(t, x) /\ LocksTo(t, x) /\ Returns(t, x)

\* Only requests wait for a slot.
LEMMA SleepersAreRequests ==
    ASSUME Stages, NEW u \in Threads, pc[u] = "slotAsleep"
    PROVE  u \in Requests
BY RequestsAssumption, ThreadsAssumption
DEF Stages, Fits, Threads, ReaderPlaces, CloserPlaces, Flushing

\* One thread moves alone, or wakes the others as it moves.
LEMMA MovesOne ==
    ASSUME Stages, NEW t \in Threads, NEW x \in Places, pc' = [pc EXCEPT ![t] = x]
    PROVE  Moved(t, x)
BY DEF Stages, Moved

LEMMA MovesAndWakes ==
    ASSUME Stages, NEW t \in Threads, NEW x \in Places, pc' = [Notified EXCEPT ![t] = x]
    PROVE  Moved(t, x)
<1>1. "slot" \in Places BY DEF Places, RequestPlaces, BeforeId
<1>2. Notified \in [Threads -> Places] BY <1>1 DEF Notified, Stages
<1>3. \A u \in Threads : Notified[u] = pc[u] \/ (pc[u] = "slotAsleep" /\ Notified[u] = "slot")
  BY DEF Notified
<1>4. QED BY <1>2, <1>3, SleepersAreRequests DEF Moved

\* A step of that shape keeps the places and the write lock in order.
LEMMA ShapeKeeps ==
    ASSUME Stages, Holding, NEW t \in Threads, NEW x \in Places, Shape(t, x)
    PROVE  Stages' /\ Holding'
<1>1. \A u \in Threads : Fits(u, pc'[u], after'[u])
  <2> SUFFICES ASSUME NEW u \in Threads PROVE Fits(u, pc'[u], after'[u]) OBVIOUS
  <2>1. CASE u = t BY <2>1 DEF Shape, Moved, Returns
  <2>2. CASE u # t /\ pc'[u] = pc[u] BY <2>2 DEF Shape, Moved, Returns, Stages
  <2>3. CASE u # t /\ u \in Requests /\ pc'[u] = "slot"
    BY <2>3, RequestsAssumption DEF Fits, RequestPlaces, BeforeId, Flushing
  <2>4. QED BY <2>1, <2>2, <2>3 DEF Shape, Moved
<1>2. Stages' BY <1>1 DEF Stages, Shape, Moved, Returns
<1>3. None \notin Threads BY RequestsAssumption, ThreadsAssumption DEF Threads
<1>4. \A u \in Threads \ {t} : pc'[u] \in HoldingPlaces <=> pc[u] \in HoldingPlaces
  BY DEF Shape, Moved, HoldingPlaces
<1>5. pc'[t] = x BY DEF Shape, Moved
<1>6. Holding'
  <2>1. CASE writer' = writer /\ (x \in HoldingPlaces <=> pc[t] \in HoldingPlaces)
    BY <1>4, <1>5, <2>1 DEF Holding
  <2>2. CASE writer = None /\ writer' = t /\ x \in HoldingPlaces
    BY <1>3, <1>4, <1>5, <2>2 DEF Holding
  <2>3. CASE pc[t] \in HoldingPlaces /\ writer' = None /\ x \notin HoldingPlaces
    BY <1>3, <1>4, <1>5, <2>3 DEF Holding
  <2>4. QED BY <2>1, <2>2, <2>3 DEF Shape, LocksTo
<1>7. QED BY <1>2, <1>6

\* What the reader owes has somebody to send it, if it had before and the step
\* leaves it so.
LEMMA StillWatched ==
    ASSUME NothingStranded, NEW t \in Threads, NEW x, Moved(t, x),
           \/ dead' \/ goingAway' \/ output' = <<>> \/ writer' # None \/ x \in WatchPlaces
           \/ /\ output' = output /\ writer' = writer /\ dead' = dead /\ goingAway' = goingAway
              /\ pc[t] \notin WatchPlaces
    PROVE  NothingStranded'
<1>1. \A u \in Threads \ {t} : pc[u] \in WatchPlaces => pc'[u] \in WatchPlaces
  BY DEF Moved, WatchPlaces
<1>2. CASE dead' \/ goingAway' \/ output' = <<>> \/ writer' # None
  BY <1>2 DEF NothingStranded
<1>3. CASE x \in WatchPlaces
  BY <1>3 DEF NothingStranded, Moved, WatchPlaces
<1>4. CASE /\ output' = output /\ writer' = writer /\ dead' = dead /\ goingAway' = goingAway
           /\ pc[t] \notin WatchPlaces
  BY <1>1, <1>4 DEF NothingStranded, WatchPlaces
<1>5. QED BY <1>2, <1>3, <1>4

-----------------------------------------------------------------------------
(* What becomes of the streams. *)

\* The thread has an id after the step if it had one, a result if it is done,
\* and a slot if it had one.
Stays(t, x) ==
    t \in Requests => /\ x \in BeforeId => pc[t] \in BeforeId
                      /\ x \in WithId => pc[t] \in WithId
                      /\ x = "done" => outcome'[t] # "none"
                      /\ x \in SlotPlaces <=> pc[t] \in SlotPlaces

\* Streams end: in the order of the step, none of them in an outcome it had.
Ends(D) ==
    /\ DOMAIN D \subseteq live
    /\ \A r \in DOMAIN D : D[r] \in Outcomes \ {"none"}
    /\ EndStreams(D)

LEMMA PlacesApart ==
    /\ BeforeId \cap WithId = {} /\ "done" \notin BeforeId \cup WithId
    /\ SlotPlaces \subseteq BeforeId /\ RequestPlaces = BeforeId \cup WithId \cup {"done"}
    /\ "slotAsleep" \in BeforeId \ SlotPlaces /\ "slot" \in BeforeId \ SlotPlaces
BY DEF BeforeId, WithId, Flushing, SlotPlaces, RequestPlaces

LEMMA SlotsStay ==
    ASSUME NEW t \in Threads, NEW x, Moved(t, x), Stays(t, x)
    PROVE  Slotted' = Slotted
<1>1. \A r \in Requests : pc'[r] \in SlotPlaces <=> pc[r] \in SlotPlaces
  BY PlacesApart DEF Moved, Stays, Threads
<1>2. QED BY <1>1 DEF Slotted

\* A step that leaves the streams as they are.
LEMMA StreamsStay ==
    ASSUME Streams, Slots, NEW t \in Threads, NEW x, Moved(t, x), Stays(t, x),
           UNCHANGED <<live, id, outcome, open, nextId>>
    PROVE  Streams' /\ Slots'
<1>1. Slots' BY SlotsStay DEF Slots
<1>2. ASSUME NEW r \in Requests
      PROVE  /\ pc'[r] \in BeforeId => pc[r] \in BeforeId
             /\ pc'[r] \in WithId => pc[r] \in WithId
             /\ pc'[r] = "done" => pc[r] = "done" \/ outcome'[r] # "none"
  BY PlacesApart DEF Moved, Stays, Threads
<1>3. Streams' BY <1>2 DEF Streams
<1>4. QED BY <1>1, <1>3

LEMMA StreamsFinite ==
    ASSUME Streams
    PROVE  /\ IsFiniteSet(live) /\ IsFiniteSet(Slotted) /\ live \subseteq Requests
           /\ Cardinality(live) \in Nat /\ Cardinality(Slotted) \in Nat
<1>1. live \subseteq Requests /\ Slotted \subseteq Requests BY DEF Streams, Slotted
<1>2. IsFiniteSet(live) /\ IsFiniteSet(Slotted) BY <1>1, RequestsAssumption, FS_Subset
<1>3. QED BY <1>1, <1>2, FS_CardinalityType

\* A step that ends some.
LEMMA StreamsEnd ==
    ASSUME Streams, Slots, NEW t \in Threads, NEW x, Moved(t, x), Stays(t, x),
           NEW D, Ends(D), UNCHANGED <<id, nextId>>
    PROVE  Streams' /\ Slots' /\ live' \subseteq live
<1>1. Slots'
  <2>1. Cardinality(live \ DOMAIN D) = Cardinality(live) - Cardinality(live \cap DOMAIN D)
    BY StreamsFinite, FS_Difference
  <2>2. live \cap DOMAIN D = DOMAIN D BY DEF Ends
  <2>3. Cardinality(DOMAIN D) \in Nat
    BY StreamsFinite, FS_Subset, FS_CardinalityType DEF Ends
  <2>4. live' = live \ DOMAIN D /\ open' = open - Cardinality(DOMAIN D) BY DEF Ends, EndStreams
  <2>5. QED BY <2>1, <2>2, <2>3, <2>4, SlotsStay, StreamsFinite DEF Slots
<1>2. \A r \in Requests : outcome'[r] = IF r \in DOMAIN D THEN D[r] ELSE outcome[r]
  BY DEF Ends, EndStreams
<1>3. outcome' \in [Requests -> Outcomes] BY DEF Ends, EndStreams, Streams
<1>4. ASSUME NEW r \in Requests
      PROVE  /\ pc'[r] \in BeforeId => pc[r] \in BeforeId /\ outcome'[r] = outcome[r]
             /\ pc'[r] \in WithId => pc[r] \in WithId
             /\ pc'[r] = "done" => pc[r] = "done" \/ outcome'[r] # "none"
             /\ outcome[r] # "none" => outcome'[r] # "none"
  <2>1. pc'[r] \in BeforeId => pc[r] \in BeforeId BY PlacesApart DEF Moved, Stays, Threads
  <2>2. pc[r] \in BeforeId => r \notin DOMAIN D BY DEF Ends, Streams
  <2>3. pc'[r] \in WithId => pc[r] \in WithId BY PlacesApart DEF Moved, Stays, Threads
  <2>4. pc'[r] = "done" => pc[r] = "done" \/ outcome'[r] # "none"
    BY PlacesApart DEF Moved, Stays, Threads
  <2>5. outcome[r] # "none" => outcome'[r] # "none" BY <1>2 DEF Ends, Streams
  <2>6. QED BY <1>2, <2>1, <2>2, <2>3, <2>4, <2>5
<1>5. live' = {r \in Requests : id'[r] # 0 /\ outcome'[r] = "none"}
  <2>1. live' = live \ DOMAIN D BY DEF Ends, EndStreams
  <2>2. \A r \in Requests : r \in live \ DOMAIN D <=> id[r] # 0 /\ outcome'[r] = "none"
    BY <1>2 DEF Ends, Streams
  <2>3. QED BY <2>1, <2>2, StreamsFinite
<1>6. Streams' BY <1>3, <1>4, <1>5 DEF Streams
<1>7. QED BY <1>1, <1>6 DEF Ends, EndStreams

\* A session ends with its streams, and never comes back.
LEMMA DeadStays ==
    ASSUME Dead, NEW t \in Threads, NEW x, Moved(t, x), t = Closer => dead',
           dead' \in BOOLEAN, goingAway' \in BOOLEAN, dead => dead',
           dead' => live' = {} \/ (dead /\ live' \subseteq live)
    PROVE  Dead'
<1>1. pc'[Closer] # "idle" => dead'
  BY RequestsAssumption DEF Moved, Dead, Threads
<1>2. QED BY <1>1 DEF Dead

\* A step that changes neither the streams nor the session.
LEMMA QuietStep ==
    ASSUME SInv, NEW t \in Threads, NEW x \in Places, Shape(t, x), Stays(t, x), t = Closer => dead,
           UNCHANGED <<live, id, outcome, open, nextId, dead, goingAway>>,
           \/ dead \/ output' = <<>> \/ writer' # None \/ x \in WatchPlaces
           \/ output' = output /\ writer' = writer /\ pc[t] \notin WatchPlaces
    PROVE  SInv'
<1>1. Moved(t, x) BY DEF Shape
<1>2. Stages' /\ Holding' BY ShapeKeeps DEF SInv
<1>3. Streams' /\ Slots' BY <1>1, StreamsStay DEF SInv
<1>4. Dead' BY <1>1, DeadStays DEF SInv, Dead
<1>5. NothingStranded' BY <1>1, StillWatched DEF SInv
<1>6. QED BY <1>2, <1>3, <1>4, <1>5 DEF SInv

-----------------------------------------------------------------------------
(* The steps of a request that leave the streams as they are. *)

LEMMA RequestIsThread ==
    ASSUME NEW r \in Requests
    PROVE  r \in Threads /\ r # Reader /\ r # Closer /\ r # None
BY RequestsAssumption DEF Threads

\* A request that moves alone within its stay on the session.
LEMMA RequestShape ==
    ASSUME Stages, NEW r \in Requests, NEW x \in RequestPlaces,
           pc' = [pc EXCEPT ![r] = x] \/ pc' = [Notified EXCEPT ![r] = x],
           LocksTo(r, x),
           \/ after' = after /\ (x \in Flushing => pc[r] \in Flushing)
           \/ \E b \in {"wait", "body", "bodyOver"} : after' = [after EXCEPT ![r] = b]
    PROVE  Shape(r, x)
<1>1. Moved(r, x) BY RequestIsThread, MovesOne, MovesAndWakes DEF Places
<1>2. Returns(r, x)
  <2>1. CASE after' = after /\ (x \in Flushing => pc[r] \in Flushing)
    BY <2>1, RequestIsThread DEF Returns, Fits, Stages
  <2>2. CASE \E b \in {"wait", "body", "bodyOver"} : after' = [after EXCEPT ![r] = b]
    BY <2>2, RequestIsThread DEF Returns, Fits, Stages, Backs
  <2>3. QED BY <2>1, <2>2
<1>3. QED BY <1>1, <1>2 DEF Shape

LEMMA LockWriteKeeps ==
    ASSUME SInv, NEW r \in Requests, LockWrite(r)
    PROVE  SInv'
<1>1. LocksTo(r, "locked") BY RequestIsThread DEF LockWrite, WriteLockFree, LocksTo, HoldingPlaces, writeVars
<1>2. Shape(r, "locked")
  BY <1>1, RequestShape DEF LockWrite, WriteLockFree, SInv, Places, RequestPlaces, ReaderPlaces, CloserPlaces, BeforeId, WithId, Flushing, SlotPlaces, WatchPlaces, HoldingPlaces, writeVars
<1>3. Stays(r, "locked")
  BY DEF LockWrite, WriteLockFree, Stays, SInv, Streams, Ended, Places, RequestPlaces, ReaderPlaces, CloserPlaces, BeforeId, WithId, Flushing, SlotPlaces, WatchPlaces, HoldingPlaces, streamVars, writeVars
<1>4. QED
  BY <1>2, <1>3, RequestIsThread, QuietStep
  DEF LockWrite, WriteLockFree, Places, RequestPlaces, ReaderPlaces, CloserPlaces, BeforeId, WithId, Flushing, SlotPlaces, WatchPlaces, HoldingPlaces, streamVars, sessionVars, writeVars

LEMMA TakeAndEncodeKeeps ==
    ASSUME SInv, NEW r \in Requests, TakeAndEncode(r)
    PROVE  SInv'
<1>1. LocksTo(r, "sending") BY RequestIsThread DEF TakeAndEncode, LocksTo, HoldingPlaces, writeVars
<1>2. Shape(r, "sending")
  BY <1>1, RequestShape DEF TakeAndEncode, SInv, Places, RequestPlaces, ReaderPlaces, CloserPlaces, BeforeId, WithId, Flushing, SlotPlaces, WatchPlaces, HoldingPlaces, writeVars
<1>3. Stays(r, "sending")
  BY DEF TakeAndEncode, Stays, SInv, Streams, Ended, Places, RequestPlaces, ReaderPlaces, CloserPlaces, BeforeId, WithId, Flushing, SlotPlaces, WatchPlaces, HoldingPlaces, streamVars, writeVars
<1>4. QED
  BY <1>2, <1>3, RequestIsThread, QuietStep
  DEF TakeAndEncode, Places, RequestPlaces, ReaderPlaces, CloserPlaces, BeforeId, WithId, Flushing, SlotPlaces, WatchPlaces, HoldingPlaces, streamVars, sessionVars, writeVars

LEMMA SendHeadersKeeps ==
    ASSUME SInv, NEW r \in Requests, SendHeaders(r)
    PROVE  SInv'
<1>1. LocksTo(r, "flush") BY RequestIsThread DEF SendHeaders, LocksTo, HoldingPlaces, writeVars
<1>2. Shape(r, "flush")
  BY <1>1, RequestShape DEF SendHeaders, SInv, Places, RequestPlaces, ReaderPlaces, CloserPlaces, BeforeId, WithId, Flushing, SlotPlaces, WatchPlaces, HoldingPlaces, writeVars
<1>3. Stays(r, "flush")
  BY DEF SendHeaders, Stays, SInv, Streams, Ended, Places, RequestPlaces, ReaderPlaces, CloserPlaces, BeforeId, WithId, Flushing, SlotPlaces, WatchPlaces, HoldingPlaces, streamVars, writeVars
<1>4. QED
  BY <1>2, <1>3, RequestIsThread, QuietStep
  DEF SendHeaders, Places, RequestPlaces, ReaderPlaces, CloserPlaces, BeforeId, WithId, Flushing, SlotPlaces, WatchPlaces, HoldingPlaces, streamVars, sessionVars, writeVars

LEMMA ReserveChunkKeeps ==
    ASSUME SInv, NEW r \in Requests, ReserveChunk(r)
    PROVE  SInv'
<1>1. LocksTo(r, "chunk") BY RequestIsThread DEF ReserveChunk, LocksTo, HoldingPlaces, writeVars
<1>2. Shape(r, "chunk")
  BY <1>1, RequestShape DEF ReserveChunk, SInv, Places, RequestPlaces, ReaderPlaces, CloserPlaces, BeforeId, WithId, Flushing, SlotPlaces, WatchPlaces, HoldingPlaces, writeVars
<1>3. Stays(r, "chunk")
  BY DEF ReserveChunk, Stays, SInv, Streams, Ended, Places, RequestPlaces, ReaderPlaces, CloserPlaces, BeforeId, WithId, Flushing, SlotPlaces, WatchPlaces, HoldingPlaces, streamVars, writeVars
<1>4. QED
  BY <1>2, <1>3, RequestIsThread, QuietStep
  DEF ReserveChunk, Places, RequestPlaces, ReaderPlaces, CloserPlaces, BeforeId, WithId, Flushing, SlotPlaces, WatchPlaces, HoldingPlaces, streamVars, sessionVars, writeVars

LEMMA TakeAndWriteKeeps ==
    ASSUME SInv, NEW r \in Requests, TakeAndWrite(r)
    PROVE  SInv'
<1>1. LocksTo(r, "writing") BY RequestIsThread DEF TakeAndWrite, Acquire, WriteLockFree, LocksTo, HoldingPlaces, writeVars
<1>2. Shape(r, "writing")
  BY <1>1, RequestShape DEF TakeAndWrite, Acquire, WriteLockFree, SInv, Places, RequestPlaces, ReaderPlaces, CloserPlaces, BeforeId, WithId, Flushing, SlotPlaces, WatchPlaces, HoldingPlaces, writeVars
<1>3. Stays(r, "writing")
  BY DEF TakeAndWrite, Acquire, WriteLockFree, Stays, SInv, Streams, Ended, Places, RequestPlaces, ReaderPlaces, CloserPlaces, BeforeId, WithId, Flushing, SlotPlaces, WatchPlaces, HoldingPlaces, streamVars, writeVars
<1>4. QED
  BY <1>2, <1>3, RequestIsThread, QuietStep
  DEF TakeAndWrite, Acquire, WriteLockFree, Places, RequestPlaces, ReaderPlaces, CloserPlaces, BeforeId, WithId, Flushing, SlotPlaces, WatchPlaces, HoldingPlaces, streamVars, sessionVars, writeVars

LEMMA SendDataKeeps ==
    ASSUME SInv, NEW r \in Requests, SendData(r)
    PROVE  SInv'
<1>1. LocksTo(r, "flush") BY RequestIsThread DEF SendData, LocksTo, HoldingPlaces, writeVars
<1>2. Shape(r, "flush")
  BY <1>1, RequestShape DEF SendData, SInv, Places, RequestPlaces, ReaderPlaces, CloserPlaces, BeforeId, WithId, Flushing, SlotPlaces, WatchPlaces, HoldingPlaces, writeVars
<1>3. Stays(r, "flush")
  BY DEF SendData, Stays, SInv, Streams, Ended, Places, RequestPlaces, ReaderPlaces, CloserPlaces, BeforeId, WithId, Flushing, SlotPlaces, WatchPlaces, HoldingPlaces, streamVars, writeVars
<1>4. QED
  BY <1>2, <1>3, RequestIsThread, QuietStep
  DEF SendData, Places, RequestPlaces, ReaderPlaces, CloserPlaces, BeforeId, WithId, Flushing, SlotPlaces, WatchPlaces, HoldingPlaces, streamVars, sessionVars, writeVars

LEMMA BodyOverKeeps ==
    ASSUME SInv, NEW r \in Requests, BodyOver(r)
    PROVE  SInv'
<1>1. LocksTo(r, "bodyOver") BY RequestIsThread DEF BodyOver, LocksTo, HoldingPlaces, writeVars
<1>2. Shape(r, "bodyOver")
  BY <1>1, RequestShape DEF BodyOver, SInv, Places, RequestPlaces, ReaderPlaces, CloserPlaces, BeforeId, WithId, Flushing, SlotPlaces, WatchPlaces, HoldingPlaces, writeVars
<1>3. Stays(r, "bodyOver")
  BY DEF BodyOver, Stays, SInv, Streams, Ended, Places, RequestPlaces, ReaderPlaces, CloserPlaces, BeforeId, WithId, Flushing, SlotPlaces, WatchPlaces, HoldingPlaces, streamVars, writeVars
<1>4. QED
  BY <1>2, <1>3, RequestIsThread, QuietStep
  DEF BodyOver, Places, RequestPlaces, ReaderPlaces, CloserPlaces, BeforeId, WithId, Flushing, SlotPlaces, WatchPlaces, HoldingPlaces, streamVars, sessionVars, writeVars

LEMMA ReturnKeeps ==
    ASSUME SInv, NEW r \in Requests, Return(r)
    PROVE  SInv'
<1>1. LocksTo(r, "done") BY RequestIsThread DEF Return, LocksTo, HoldingPlaces, writeVars
<1>2. Shape(r, "done")
  BY <1>1, RequestShape DEF Return, SInv, Places, RequestPlaces, ReaderPlaces, CloserPlaces, BeforeId, WithId, Flushing, SlotPlaces, WatchPlaces, HoldingPlaces, writeVars
<1>3. Stays(r, "done")
  BY DEF Return, Stays, SInv, Streams, Ended, Places, RequestPlaces, ReaderPlaces, CloserPlaces, BeforeId, WithId, Flushing, SlotPlaces, WatchPlaces, HoldingPlaces, streamVars, writeVars
<1>4. QED
  BY <1>2, <1>3, RequestIsThread, QuietStep
  DEF Return, Places, RequestPlaces, ReaderPlaces, CloserPlaces, BeforeId, WithId, Flushing, SlotPlaces, WatchPlaces, HoldingPlaces, streamVars, sessionVars, writeVars

LEMMA CloseOurSideKeeps ==
    ASSUME SInv, NEW r \in Requests, CloseOurSide(r)
    PROVE  SInv'
<1>1. ASSUME NEW x \in {"flush", "wait"}, pc' = [pc EXCEPT ![r] = x], pc[r] = "bodyOver",
             \/ x = "flush" /\ after' = [after EXCEPT ![r] = "wait"]
             \/ x = "wait" /\ after' = after /\ output' = output,
             UNCHANGED <<writer, buffer, streamVars, sessionVars>>
      PROVE  SInv'
  <2>1. LocksTo(r, x) BY <1>1 DEF LocksTo, HoldingPlaces
  <2>2. Shape(r, x) BY <1>1, <2>1, RequestShape DEF SInv, Places, RequestPlaces, ReaderPlaces, CloserPlaces, BeforeId, WithId, Flushing, SlotPlaces, WatchPlaces, HoldingPlaces
  <2>3. Stays(r, x) BY <1>1 DEF Stays, Places, RequestPlaces, ReaderPlaces, CloserPlaces, BeforeId, WithId, Flushing, SlotPlaces, WatchPlaces, HoldingPlaces
  <2>4. QED
    BY <1>1, <2>2, <2>3, RequestIsThread, QuietStep DEF Places, RequestPlaces, ReaderPlaces, CloserPlaces, BeforeId, WithId, Flushing, SlotPlaces, WatchPlaces, HoldingPlaces, streamVars, sessionVars
<1>2. CASE pc' = [pc EXCEPT ![r] = "flush"] BY <1>1, <1>2 DEF CloseOurSide
<1>3. CASE pc' = [pc EXCEPT ![r] = "wait"] BY <1>1, <1>3 DEF CloseOurSide
<1>4. QED BY <1>2, <1>3 DEF CloseOurSide

-----------------------------------------------------------------------------
(* The write lock, for a request and for the reader. *)

Flushers == Requests \cup {Reader}

\* Where a flush may take a thread: back to what it was doing.
LEMMA FlushShape ==
    ASSUME Stages, NEW t \in Flushers, NEW x, pc[t] \in Flushing, x \in Flushing \/ x = after[t],
           pc' = [pc EXCEPT ![t] = x], after' = after, LocksTo(t, x)
    PROVE  Shape(t, x) /\ x \in Places /\ t \in Threads /\ t # Closer
<1>1. t \in Threads /\ t # Closer /\ (t \in Requests \/ t = Reader)
  BY RequestsAssumption, ThreadsAssumption DEF Flushers, Threads
<1>2. Fits(t, pc[t], after[t]) BY <1>1 DEF Stages
<1>3. x \in Places /\ Fits(t, x, after[t])
  BY <1>1, <1>2, RequestsAssumption DEF Fits, Places, RequestPlaces, ReaderPlaces, CloserPlaces, BeforeId, WithId, Flushing, SlotPlaces, WatchPlaces, HoldingPlaces
<1>4. Moved(t, x) BY <1>1, <1>3, MovesOne
<1>5. Returns(t, x) BY <1>3 DEF Returns, Stages
<1>6. QED BY <1>1, <1>3, <1>4, <1>5 DEF Shape

LEMMA FlushStays ==
    ASSUME Stages, NEW t \in Flushers, NEW x, pc[t] \in Flushing, x \in Flushing \/ x = after[t]
    PROVE  Stays(t, x)
<1>1. SUFFICES ASSUME t \in Requests PROVE Stays(t, x) BY DEF Stays
<1>2. Fits(t, pc[t], after[t]) BY <1>1, RequestIsThread DEF Stages
<1>3. QED BY <1>1, <1>2 DEF Stays, Fits, Places, RequestPlaces, ReaderPlaces, CloserPlaces, BeforeId, WithId, Flushing, SlotPlaces, WatchPlaces, HoldingPlaces

LEMMA FlushKeeps ==
    ASSUME SInv, NEW t \in Flushers, FlushStep(t)
    PROVE  SInv'
<1>1. ASSUME NEW x, pc[t] \in Flushing, x \in Flushing \/ x = after[t],
             pc' = [pc EXCEPT ![t] = x], after' = after, LocksTo(t, x),
             UNCHANGED <<streamVars, sessionVars>>,
             \/ output' = <<>> \/ writer' # None \/ x \in WatchPlaces
      PROVE  SInv'
  <2>1. Shape(t, x) /\ x \in Places /\ t \in Threads /\ t # Closer BY <1>1, FlushShape DEF SInv
  <2>2. Stays(t, x) BY <1>1, FlushStays DEF SInv
  <2>3. QED BY <1>1, <2>1, <2>2, QuietStep DEF streamVars, sessionVars
<1>2. Fits(t, pc[t], after[t]) /\ (t \in Requests \/ t = Reader)
  BY RequestsAssumption DEF SInv, Stages, Flushers, Threads
<1>3. CASE Flush(t)
  <2>1. CASE Acquire(t, <<>>, "flushing") /\ UNCHANGED after
    <3>1. LocksTo(t, "flushing") BY <2>1 DEF Acquire, WriteLockFree, LocksTo, HoldingPlaces
    <3>2. QED BY <1>1, <1>3, <2>1, <3>1 DEF Flush, Acquire, Flushing
  <2>2. CASE ~WriteLockFree /\ pc' = [pc EXCEPT ![t] = after[t]] /\ UNCHANGED writeVars
    <3>1. pc[t] = "flush" /\ after[t] \notin HoldingPlaces
      BY <1>2, <1>3 DEF Flush, Fits, Flushing, HoldingPlaces
    <3>2. LocksTo(t, after[t]) BY <2>2, <3>1 DEF LocksTo, HoldingPlaces, writeVars
    <3>3. UNCHANGED <<streamVars, sessionVars>> BY <1>3 DEF Flush
    <3>4. after' = after /\ writer' # None BY <2>2 DEF WriteLockFree, writeVars
    <3>5. pc[t] \in Flushing BY <3>1 DEF Flushing
    <3>6. PICK x : x = after[t] OBVIOUS
    <3>7. QED BY <1>1, <2>2, <3>2, <3>3, <3>4, <3>5, <3>6
  <2>3. QED BY <1>3, <2>1, <2>2 DEF Flush
<1>4. CASE FlushSend(t)
  <2>1. LocksTo(t, "flushed") BY <1>4 DEF FlushSend, LocksTo, HoldingPlaces
  <2>2. QED BY <1>1, <1>4, <2>1 DEF FlushSend, LookedAgain, Flushing, WatchPlaces
<1>5. CASE FlushLook(t)
  <2>1. pc[t] = "flushed" /\ after[t] \notin HoldingPlaces
    BY <1>2, <1>5 DEF FlushLook, Fits, Flushing, HoldingPlaces
  <2>2. CASE output = <<>> /\ pc' = [pc EXCEPT ![t] = after[t]]
    <3>1. LocksTo(t, after[t]) BY <1>5, <2>1 DEF FlushLook, LocksTo, HoldingPlaces, writeVars
    <3>2. UNCHANGED <<streamVars, sessionVars>> /\ after' = after /\ output' = <<>>
      BY <1>5, <2>2 DEF FlushLook, writeVars
    <3>3. pc[t] \in Flushing BY <2>1 DEF Flushing
    <3>4. PICK x : x = after[t] OBVIOUS
    <3>5. QED BY <1>1, <2>2, <3>1, <3>2, <3>3, <3>4
  <2>3. CASE output # <<>> /\ pc' = [pc EXCEPT ![t] = "flush"]
    <3>1. LocksTo(t, "flush") BY <1>5, <2>1 DEF FlushLook, LocksTo, HoldingPlaces, writeVars
    <3>2. QED BY <1>1, <1>5, <2>1, <2>3, <3>1 DEF FlushLook, Flushing, WatchPlaces, writeVars
  <2>4. QED BY <1>5, <2>2, <2>3 DEF FlushLook
<1>6. QED BY <1>3, <1>4, <1>5 DEF FlushStep

-----------------------------------------------------------------------------
(* The reader and close(), where the streams stay as they are. *)

LEMMA OthersAreThreads ==
    /\ Reader \in Threads /\ Closer \in Threads /\ Reader # Closer
    /\ Reader \notin Requests /\ Closer \notin Requests
BY RequestsAssumption, ThreadsAssumption DEF Threads

LEMMA ReaderShape ==
    ASSUME Stages, NEW x \in ReaderPlaces,
           pc' = [pc EXCEPT ![Reader] = x] \/ pc' = [Notified EXCEPT ![Reader] = x],
           LocksTo(Reader, x),
           \/ after' = after /\ (x \in WatchPlaces \cup Flushing => pc[Reader] \in WatchPlaces \cup Flushing)
           \/ \E b \in {"receive", "leave"} : after' = [after EXCEPT ![Reader] = b]
    PROVE  Shape(Reader, x)
<1>1. Moved(Reader, x) BY OthersAreThreads, MovesOne, MovesAndWakes DEF Places
<1>2. Returns(Reader, x)
  <2>1. CASE after' = after /\ (x \in WatchPlaces \cup Flushing => pc[Reader] \in WatchPlaces \cup Flushing)
    BY <2>1, OthersAreThreads DEF Returns, Fits, Stages, WatchPlaces, Flushing
  <2>2. CASE \E b \in {"receive", "leave"} : after' = [after EXCEPT ![Reader] = b]
    BY <2>2, OthersAreThreads DEF Returns, Fits, Stages, Backs
  <2>3. QED BY <2>1, <2>2
<1>3. QED BY <1>1, <1>2 DEF Shape

LEMMA CloserShape ==
    ASSUME Stages, NEW x \in CloserPlaces,
           pc' = [pc EXCEPT ![Closer] = x] \/ pc' = [Notified EXCEPT ![Closer] = x],
           LocksTo(Closer, x), after' = after
    PROVE  Shape(Closer, x)
<1>1. Moved(Closer, x) BY OthersAreThreads, MovesOne, MovesAndWakes DEF Places
<1>2. Returns(Closer, x) BY OthersAreThreads DEF Returns, Fits, Stages
<1>3. QED BY <1>1, <1>2 DEF Shape

LEMMA ReaderNotifiesKeeps ==
    ASSUME SInv, ReaderNotifies
    PROVE  SInv'
<1>1. LocksTo(Reader, "flush") BY OthersAreThreads DEF ReaderNotifies, LocksTo, HoldingPlaces, writeVars
<1>2. Shape(Reader, "flush") BY <1>1, ReaderShape DEF ReaderNotifies, SInv, Places, RequestPlaces, ReaderPlaces, CloserPlaces, BeforeId, WithId, Flushing, SlotPlaces, WatchPlaces, HoldingPlaces, writeVars
<1>3. Stays(Reader, "flush") BY OthersAreThreads DEF Stays
<1>4. QED
  BY <1>2, <1>3, OthersAreThreads, QuietStep
  DEF ReaderNotifies, Places, RequestPlaces, ReaderPlaces, CloserPlaces, BeforeId, WithId, Flushing, SlotPlaces, WatchPlaces, HoldingPlaces, streamVars, sessionVars, writeVars

LEMMA ReaderLeavesKeeps ==
    ASSUME SInv, ReaderLeaves
    PROVE  SInv'
<1>1. LocksTo(Reader, "gone") BY OthersAreThreads DEF ReaderLeaves, LocksTo, HoldingPlaces, writeVars
<1>2. Shape(Reader, "gone") BY <1>1, ReaderShape DEF ReaderLeaves, SInv, Places, RequestPlaces, ReaderPlaces, CloserPlaces, BeforeId, WithId, Flushing, SlotPlaces, WatchPlaces, HoldingPlaces, writeVars
<1>3. Stays(Reader, "gone") BY OthersAreThreads DEF Stays
<1>4. QED
  BY <1>2, <1>3, OthersAreThreads, QuietStep
  DEF ReaderLeaves, Places, RequestPlaces, ReaderPlaces, CloserPlaces, BeforeId, WithId, Flushing, SlotPlaces, WatchPlaces, HoldingPlaces, streamVars, sessionVars, writeVars

LEMMA ReceiveDeadKeeps ==
    ASSUME SInv, ReceiveDead
    PROVE  SInv'
<1>1. LocksTo(Reader, "handled") BY OthersAreThreads DEF ReceiveDead, LocksTo, HoldingPlaces, writeVars
<1>2. Shape(Reader, "handled") BY <1>1, ReaderShape DEF ReceiveDead, SInv, Places, RequestPlaces, ReaderPlaces, CloserPlaces, BeforeId, WithId, Flushing, SlotPlaces, WatchPlaces, HoldingPlaces, writeVars
<1>3. Stays(Reader, "handled") BY OthersAreThreads DEF Stays
<1>4. QED
  BY <1>2, <1>3, OthersAreThreads, QuietStep
  DEF ReceiveDead, Places, RequestPlaces, ReaderPlaces, CloserPlaces, BeforeId, WithId, Flushing, SlotPlaces, WatchPlaces, HoldingPlaces, streamVars, sessionVars, writeVars

LEMMA CloseSendsKeeps ==
    ASSUME SInv, CloseSends
    PROVE  SInv'
<1>1. LocksTo(Closer, "shutting") BY OthersAreThreads DEF CloseSends, LocksTo, HoldingPlaces, writeVars
<1>2. Shape(Closer, "shutting") BY <1>1, CloserShape DEF CloseSends, SInv, Places, RequestPlaces, ReaderPlaces, CloserPlaces, BeforeId, WithId, Flushing, SlotPlaces, WatchPlaces, HoldingPlaces, writeVars
<1>3. Stays(Closer, "shutting") BY OthersAreThreads DEF Stays
<1>4. dead BY DEF CloseSends, SInv, Dead
<1>5. UNCHANGED <<live, id, outcome, open, nextId, dead, goingAway>>
  BY DEF CloseSends, streamVars, sessionVars
<1>6. "shutting" \in Places BY DEF Places, CloserPlaces
<1>7. QED BY <1>2, <1>3, <1>4, <1>5, <1>6, OthersAreThreads, QuietStep

LEMMA CloseShutsKeeps ==
    ASSUME SInv, CloseShuts
    PROVE  SInv'
<1>1. LocksTo(Closer, "closed") BY OthersAreThreads DEF CloseShuts, LocksTo, HoldingPlaces, writeVars
<1>2. Shape(Closer, "closed") BY <1>1, CloserShape DEF CloseShuts, SInv, Places, RequestPlaces, ReaderPlaces, CloserPlaces, BeforeId, WithId, Flushing, SlotPlaces, WatchPlaces, HoldingPlaces, writeVars
<1>3. Stays(Closer, "closed") BY OthersAreThreads DEF Stays
<1>4. dead BY DEF CloseShuts, SInv, Dead
<1>5. QED
  BY <1>2, <1>3, <1>4, OthersAreThreads, QuietStep
  DEF CloseShuts, Places, RequestPlaces, ReaderPlaces, CloserPlaces, BeforeId, WithId, Flushing, SlotPlaces, WatchPlaces, HoldingPlaces, streamVars, sessionVars, writeVars

-----------------------------------------------------------------------------
(* The steps of a request that change the streams. *)

\* Slots and streams, one more or one less.
LEMMA SlotTaken ==
    ASSUME Streams, NEW r \in Requests, pc[r] = "slot", Moved(r, "write")
    PROVE  Cardinality(Slotted') = Cardinality(Slotted) + 1
<1>1. Slotted' = Slotted \cup {r} BY DEF Moved, Slotted, SlotPlaces, Threads
<1>2. r \notin Slotted BY DEF Slotted, SlotPlaces
<1>3. QED BY <1>1, <1>2, StreamsFinite, FS_AddElement

LEMMA SlotLeft ==
    ASSUME Streams, NEW r \in Requests, NEW x, pc[r] = "locked", x \notin SlotPlaces, Moved(r, x)
    PROVE  Cardinality(Slotted') = Cardinality(Slotted) - 1
<1>1. Slotted' = Slotted \ {r} BY DEF Moved, Slotted, SlotPlaces, Threads
<1>2. r \in Slotted BY DEF Slotted, SlotPlaces
<1>3. QED BY <1>1, <1>2, StreamsFinite, FS_RemoveElement

\* What a request is told when it is refused.
LEMMA RefusalIsOutcome == Refusal \in Outcomes \ {"none"}
BY DEF Refusal, Outcomes

\* A request without an id is refused: no stream changes.
LEMMA RefusedStreams ==
    ASSUME Streams, NEW r \in Requests, pc[r] \in BeforeId, Moved(r, "done"),
           outcome' = [outcome EXCEPT ![r] = Refusal], UNCHANGED <<live, id, nextId>>
    PROVE  Streams'
<1>1. id[r] = 0 BY DEF Streams
<1>2. outcome' \in [Requests -> Outcomes] /\ outcome'[r] # "none"
  BY RefusalIsOutcome DEF Streams
<1>3. \A s \in Requests \ {r} : outcome'[s] = outcome[s] BY DEF Streams
<1>4. live' = {s \in Requests : id'[s] # 0 /\ outcome'[s] = "none"}
  BY <1>1, <1>2, <1>3 DEF Streams
<1>5. \A s \in Requests :
        /\ pc'[s] \in BeforeId => s # r /\ pc[s] \in BeforeId
        /\ pc'[s] \in WithId => s # r /\ pc[s] \in WithId
        /\ pc'[s] = "done" => s = r \/ pc[s] = "done"
  BY PlacesApart DEF Moved, Threads
<1>6. QED BY <1>2, <1>3, <1>4, <1>5 DEF Streams

LEMMA SlotKeeps ==
    ASSUME SInv, NEW r \in Requests, Slot(r)
    PROVE  SInv'
<1>1. ASSUME NEW x \in {"done", "write", "slotAsleep"}, pc' = [pc EXCEPT ![r] = x]
      PROVE  Shape(r, x) /\ Moved(r, x) /\ x \in Places
  <2>1. LocksTo(r, x) BY DEF Slot, LocksTo, HoldingPlaces, writeVars
  <2>2. Shape(r, x)
    BY <1>1, <2>1, RequestShape DEF Slot, SInv, Places, RequestPlaces, ReaderPlaces, CloserPlaces, BeforeId, WithId, Flushing, SlotPlaces, WatchPlaces, HoldingPlaces, writeVars
  <2>3. QED BY <2>2 DEF Shape, Places, RequestPlaces, ReaderPlaces, CloserPlaces, BeforeId, WithId, Flushing, SlotPlaces, WatchPlaces, HoldingPlaces
<1>2. ASSUME NEW x \in {"done", "write", "slotAsleep"}, pc' = [pc EXCEPT ![r] = x]
      PROVE  Stages' /\ Holding' /\ Dead' /\ NothingStranded'
  <2>1. Shape(r, x) /\ Moved(r, x) /\ x \in Places BY <1>1, <1>2
  <2>2. Stages' /\ Holding' BY <2>1, RequestIsThread, ShapeKeeps DEF SInv
  <2>3. Dead' BY <2>1, RequestIsThread, DeadStays DEF Slot, SInv, Dead, sessionVars
  <2>4. pc[r] \notin WatchPlaces BY DEF Slot, WatchPlaces
  <2>5. NothingStranded' BY <2>1, <2>4, RequestIsThread, StillWatched DEF Slot, SInv, sessionVars, writeVars
  <2>6. QED BY <2>2, <2>3, <2>5
<1>3. CASE outcome' = [outcome EXCEPT ![r] = Refusal] /\ pc' = [pc EXCEPT ![r] = "done"] /\ UNCHANGED open
  <2>1. Moved(r, "done") BY <1>1, <1>3
  <2>2. pc[r] \in BeforeId /\ UNCHANGED <<live, id, nextId>> BY DEF Slot, BeforeId
  <2>3. Streams' BY <1>3, <2>1, <2>2, RefusedStreams DEF SInv
  <2>4. Slotted' = Slotted BY <2>1 DEF Moved, Slotted, SlotPlaces, Slot, Threads
  <2>5. Slots' BY <1>3, <2>2, <2>4 DEF SInv, Slots
  <2>6. QED BY <1>2, <1>3, <2>3, <2>5 DEF SInv
<1>4. CASE open' = open + 1 /\ pc' = [pc EXCEPT ![r] = "write"] /\ UNCHANGED outcome
  <2>1. Moved(r, "write") BY <1>1, <1>4
  <2>2. pc[r] = "slot" /\ UNCHANGED <<live, id, nextId, outcome>> BY <1>4 DEF Slot
  <2>3. \A s \in Requests :
          /\ pc'[s] \in BeforeId => pc[s] \in BeforeId
          /\ pc'[s] \in WithId => pc[s] \in WithId
          /\ pc'[s] = "done" => pc[s] = "done"
    BY <2>1, <2>2, PlacesApart DEF Moved, Threads, BeforeId, WithId, Flushing
  <2>4. Streams' BY <2>2, <2>3 DEF SInv, Streams
  <2>5. Cardinality(Slotted') = Cardinality(Slotted) + 1 BY <2>1, <2>2, SlotTaken DEF SInv
  <2>6. Slots' BY <1>4, <2>2, <2>5, StreamsFinite DEF SInv, Slots
  <2>7. QED BY <1>2, <1>4, <2>4, <2>6 DEF SInv
<1>5. CASE pc' = [pc EXCEPT ![r] = "slotAsleep"] /\ UNCHANGED <<open, outcome>>
  <2>1. Moved(r, "slotAsleep") BY <1>1, <1>5
  <2>2. pc[r] = "slot" /\ UNCHANGED <<live, id, nextId, outcome, open>> BY <1>5 DEF Slot
  <2>3. Stays(r, "slotAsleep") BY <2>2 DEF Stays, BeforeId, WithId, Flushing, SlotPlaces
  <2>4. Streams' /\ Slots' BY <2>1, <2>2, <2>3, RequestIsThread, StreamsStay DEF SInv
  <2>5. QED BY <1>2, <1>5, <2>4 DEF SInv
<1>6. QED BY <1>3, <1>4, <1>5 DEF Slot

LEMMA UnregisteredKeeps ==
    ASSUME SInv, NEW r \in Requests, Unregistered(r)
    PROVE  SInv'
<1>1. pc[r] = "locked" /\ writer' = None BY DEF Unregistered
<1>2. LocksTo(r, "done") BY <1>1 DEF LocksTo, HoldingPlaces
<1>3. Shape(r, "done")
  BY <1>1, <1>2, RequestShape DEF Unregistered, Refuse, SInv, Places, RequestPlaces, ReaderPlaces, CloserPlaces, BeforeId, WithId, Flushing, SlotPlaces, WatchPlaces, HoldingPlaces
<1>4. Moved(r, "done") /\ "done" \in Places BY <1>3 DEF Shape, Places, RequestPlaces
<1>5. Stages' /\ Holding' BY <1>3, <1>4, RequestIsThread, ShapeKeeps DEF SInv
<1>6. UNCHANGED <<live, id, nextId, dead>> /\ open' = open - 1 BY DEF Unregistered, SlotReturned
<1>7. Streams'
  BY <1>1, <1>4, <1>6, RefusedStreams DEF Unregistered, Refuse, SInv, BeforeId
<1>8. Cardinality(Slotted') = Cardinality(Slotted) - 1
  BY <1>1, <1>4, SlotLeft DEF SInv, SlotPlaces
<1>9. Slots' BY <1>6, <1>8, StreamsFinite DEF SInv, Slots
<1>10. goingAway' \in BOOLEAN /\ (dead' \/ goingAway')
  <2>1. goingAway' = (goingAway \/ OutOfIds) /\ (dead \/ goingAway \/ OutOfIds) /\ dead' = dead
    BY <1>6 DEF Unregistered, GoneSince
  <2>2. goingAway' \in BOOLEAN BY <2>1
  <2>3. dead' \/ goingAway' BY <2>1, Zenon
  <2>4. QED BY <2>2, <2>3
<1>11. Dead' BY <1>4, <1>6, <1>10, RequestIsThread, DeadStays DEF SInv, Dead
<1>12. NothingStranded' BY <1>4, <1>10, RequestIsThread, StillWatched DEF SInv
<1>13. QED BY <1>5, <1>7, <1>9, <1>11, <1>12 DEF SInv

LEMMA RegisterKeeps ==
    ASSUME SInv, NEW r \in Requests, Register(r)
    PROVE  SInv'
<1>1. pc[r] = "locked" /\ ~dead BY DEF Register, GoneSince
<1>2. LocksTo(r, "registered") BY <1>1 DEF Register, LocksTo, HoldingPlaces, writeVars
<1>3. Shape(r, "registered")
  BY <1>1, <1>2, RequestShape DEF Register, SInv, Places, RequestPlaces, ReaderPlaces, CloserPlaces, BeforeId, WithId, Flushing, SlotPlaces, WatchPlaces, HoldingPlaces, writeVars
<1>4. Moved(r, "registered") /\ "registered" \in Places
  BY <1>3 DEF Shape, Places, RequestPlaces, WithId
<1>5. Stages' /\ Holding' BY <1>3, <1>4, RequestIsThread, ShapeKeeps DEF SInv
<1>6. /\ id' = [id EXCEPT ![r] = nextId] /\ nextId' = nextId + 1
      /\ live' = live \cup {r} /\ UNCHANGED <<outcome, open, output, dead, goingAway, writer>>
  BY DEF Register, sessionVars, writeVars
<1>7. id[r] = 0 /\ outcome[r] = "none" BY <1>1 DEF SInv, Streams, BeforeId
<1>8. Streams'
  <2>1. id' \in [Requests -> Nat] /\ nextId' \in Nat \ {0} /\ id'[r] # 0
    BY <1>6 DEF SInv, Streams
  <2>2. \A s \in Requests \ {r} : id'[s] = id[s] BY <1>6 DEF SInv, Streams
  <2>3. live' = {s \in Requests : id'[s] # 0 /\ outcome'[s] = "none"}
    BY <1>6, <1>7, <2>1, <2>2 DEF SInv, Streams
  <2>4. \A s \in Requests :
          /\ pc'[s] \in BeforeId => s # r /\ pc[s] \in BeforeId
          /\ pc'[s] \in WithId => s = r \/ pc[s] \in WithId
          /\ pc'[s] = "done" => pc[s] = "done"
    BY <1>4, PlacesApart DEF Moved, Threads, BeforeId, WithId, Flushing
  <2>5. QED BY <1>6, <2>1, <2>2, <2>3, <2>4 DEF SInv, Streams
<1>9. Slots'
  <2>1. Cardinality(Slotted') = Cardinality(Slotted) - 1
    BY <1>1, <1>4, SlotLeft DEF SInv, SlotPlaces
  <2>2. r \notin live BY <1>7 DEF SInv, Streams
  <2>3. Cardinality(live') = Cardinality(live) + 1
    BY <1>6, <2>2, StreamsFinite, FS_AddElement DEF SInv
  <2>4. QED BY <1>6, <2>1, <2>3, StreamsFinite DEF SInv, Slots
<1>10. Dead' BY <1>1, <1>4, <1>6, RequestIsThread, DeadStays DEF SInv, Dead
<1>11. pc[r] \notin WatchPlaces BY <1>1 DEF WatchPlaces
<1>12. NothingStranded' BY <1>4, <1>6, <1>11, RequestIsThread, StillWatched DEF SInv
<1>13. QED BY <1>5, <1>8, <1>9, <1>10, <1>12 DEF SInv

LEMMA StallKeeps ==
    ASSUME SInv, NEW r \in Requests, Stall(r)
    PROVE  SInv'
<1>1. pc[r] \in {"body", "wait"} /\ outcome[r] = "none" BY DEF Stall, Timed, Ended
<1>2. LocksTo(r, "flush") BY <1>1 DEF Stall, LocksTo, HoldingPlaces
<1>3. Shape(r, "flush") BY <1>1, <1>2, RequestShape DEF Stall, SInv, Places, RequestPlaces, ReaderPlaces, CloserPlaces, BeforeId, WithId, Flushing, SlotPlaces, WatchPlaces, HoldingPlaces
<1>4. Moved(r, "flush") /\ "flush" \in Places
  BY <1>3 DEF Shape, Places, RequestPlaces, WithId, Flushing
<1>5. Stages' /\ Holding' BY <1>3, <1>4, RequestIsThread, ShapeKeeps DEF SInv
<1>6. Stays(r, "flush") BY <1>1 DEF Stays, BeforeId, WithId, Flushing, SlotPlaces
<1>7. r \in live BY <1>1 DEF SInv, Streams, WithId
<1>8. Ends([x \in {r} |-> "Failed"]) BY <1>7 DEF Stall, Ends, Outcomes
<1>9. UNCHANGED <<id, nextId, dead, goingAway>> BY DEF Stall, sessionVars
<1>10. PICK D : D = [x \in {r} |-> "Failed"] OBVIOUS
<1>11. Streams' /\ Slots' /\ live' \subseteq live
  BY <1>4, <1>6, <1>8, <1>9, <1>10, RequestIsThread, StreamsEnd DEF SInv
<1>12. Dead' BY <1>4, <1>9, <1>11, RequestIsThread, DeadStays DEF SInv, Dead
<1>13. NothingStranded' BY <1>4, RequestIsThread, StillWatched DEF SInv, WatchPlaces
<1>14. QED BY <1>5, <1>11, <1>12, <1>13 DEF SInv

-----------------------------------------------------------------------------
(* The reader's frames, and the ends of a session. *)

\* The streams after a step that may end some of them.
LEMMA StreamsAfter ==
    ASSUME Streams, Slots, NEW t \in Threads, NEW x, Moved(t, x), Stays(t, x),
           NEW D, Ends(D) \/ UNCHANGED <<live, open, outcome>>, UNCHANGED <<id, nextId>>
    PROVE  Streams' /\ Slots' /\ live' \subseteq live
<1>1. CASE Ends(D) BY <1>1, StreamsEnd
<1>2. CASE UNCHANGED <<live, open, outcome>> BY <1>2, StreamsStay
<1>3. QED BY <1>1, <1>2

\* A frame handled, and the streams it ended.
LEMMA HandledKeeps ==
    ASSUME SInv, Receiving, NEW fatal \in BOOLEAN, Handled(fatal), goingAway' \in BOOLEAN,
           fatal => live' = {}, NEW D, Ends(D) \/ UNCHANGED <<live, open, outcome>>
    PROVE  SInv'
<1>1. /\ pc[Reader] = "receive" /\ ~dead /\ pc' = [pc EXCEPT ![Reader] = "handled"]
      /\ UNCHANGED <<writer, id, nextId>>
      /\ \E b \in {"receive", "leave"} : after' = [after EXCEPT ![Reader] = b]
  BY DEF Receiving, Handled
<1>2. LocksTo(Reader, "handled") BY <1>1 DEF LocksTo, HoldingPlaces
<1>3. Shape(Reader, "handled") BY <1>1, <1>2, ReaderShape DEF SInv, ReaderPlaces
<1>4. Moved(Reader, "handled") /\ "handled" \in Places BY <1>3 DEF Shape, Places, ReaderPlaces
<1>5. Stages' /\ Holding' BY <1>3, <1>4, OthersAreThreads, ShapeKeeps DEF SInv
<1>6. Stays(Reader, "handled") BY OthersAreThreads DEF Stays
<1>7. Streams' /\ Slots' BY <1>1, <1>4, <1>6, OthersAreThreads, StreamsAfter DEF SInv
<1>8. dead' = (fatal \/ (goingAway' /\ live' = {})) BY DEF Handled
<1>9. dead' \in BOOLEAN /\ (dead' => live' = {}) BY <1>8
<1>10. Dead' BY <1>1, <1>4, <1>9, OthersAreThreads, DeadStays DEF SInv
<1>11. NothingStranded' BY <1>4, OthersAreThreads, StillWatched DEF SInv, WatchPlaces
<1>12. QED BY <1>5, <1>7, <1>10, <1>11 DEF SInv

\* What becomes of a stream whose connection ends is an outcome.
LEMMA UnansweredIsOutcome ==
    ASSUME NEW r, NEW broken
    PROVE  Unanswered(r, broken) \in Outcomes \ {"none"}
BY DEF Unanswered, Outcomes

\* Every stream ends when the session does.
LEMMA AllEnd ==
    ASSUME Streams, NEW broken, EndStreams(AllUnanswered(broken))
    PROVE  Ends(AllUnanswered(broken)) /\ live' = {}
<1>1. DOMAIN AllUnanswered(broken) = live BY DEF AllUnanswered
<1>2. \A r \in live : AllUnanswered(broken)[r] \in Outcomes \ {"none"}
  BY UnansweredIsOutcome DEF AllUnanswered
<1>3. QED BY <1>1, <1>2 DEF Ends, EndStreams

\* One stream ends.
LEMMA OneEnds ==
    ASSUME NEW r \in live, NEW o \in Outcomes \ {"none"}, EndStreams([x \in {r} |-> o])
    PROVE  Ends([x \in {r} |-> o])
BY DEF Ends

LEMMA ResetIsOutcome ==
    ASSUME NEW r, NEW code \in {"refused", "http11", "broken", "other"}
    PROVE  ResetOutcome(r, code) \in Outcomes \ {"none"}
BY UnansweredIsOutcome DEF ResetOutcome, Outcomes

LEMMA ReceiveKeeps ==
    ASSUME SInv, Receive
    PROVE  SInv'
<1>1. goingAway \in BOOLEAN /\ Streams BY DEF SInv, Dead
<1>2. ASSUME NEW s \in Settings, NewSettings(s) PROVE SInv'
  <2>1. Receiving /\ Handled(FALSE) /\ UNCHANGED <<live, open, outcome, goingAway>>
    BY <1>2 DEF NewSettings
  <2>2. QED BY <1>1, <2>1, HandledKeeps
<1>3. CASE Ping
  <2>1. Receiving /\ Handled(FALSE) /\ UNCHANGED <<live, open, outcome, goingAway>>
    BY <1>3 DEF Ping
  <2>2. QED BY <1>1, <2>1, HandledKeeps
<1>4. ASSUME NEW r \in Requests \cup {None}, WindowUpdate(r) PROVE SInv'
  <2>1. Receiving /\ Handled(FALSE) /\ UNCHANGED <<live, open, outcome, goingAway>>
    BY <1>4 DEF WindowUpdate
  <2>2. QED BY <1>1, <2>1, HandledKeeps
<1>5. ASSUME NEW r \in Requests, NEW end \in BOOLEAN, Response(r, end) PROVE SInv'
  <2>1. Receiving /\ Handled(FALSE) /\ UNCHANGED goingAway BY <1>5 DEF Response
  <2>2. PICK D : D = [x \in {r} |-> "Done"] OBVIOUS
  <2>3. Ends(D) \/ UNCHANGED <<live, open, outcome>>
    <3>1. CASE end /\ r \in live BY <1>5, <2>2, <3>1, OneEnds DEF Response, Outcomes
    <3>2. CASE ~(end /\ r \in live) BY <1>5, <3>2 DEF Response
    <3>3. QED BY <3>1, <3>2
  <2>4. QED BY <1>1, <2>1, <2>3, HandledKeeps
<1>6. ASSUME NEW r \in Requests, StreamError(r) PROVE SInv'
  <2>1. Receiving /\ Handled(FALSE) /\ UNCHANGED goingAway BY <1>6 DEF StreamError
  <2>2. PICK D : D = [x \in {r} |-> "Failed"] OBVIOUS
  <2>3. Ends(D) BY <1>6, <2>2, OneEnds DEF StreamError, Outcomes
  <2>4. QED BY <1>1, <2>1, <2>3, HandledKeeps
<1>7. ASSUME NEW r \in Requests, NEW code \in {"refused", "http11", "broken", "other"},
             ServerReset(r, code)
      PROVE  SInv'
  <2>1. Receiving /\ Handled(FALSE) /\ UNCHANGED goingAway BY <1>7 DEF ServerReset
  <2>2. PICK D : D = [x \in {r} |-> ResetOutcome(r, code)] OBVIOUS
  <2>3. Ends(D) \/ UNCHANGED <<live, open, outcome>>
    <3>1. CASE r \in live
      <4>1. PICK o : o = ResetOutcome(r, code) OBVIOUS
      <4>2. o \in Outcomes \ {"none"} BY <4>1, ResetIsOutcome
      <4>3. EndStreams([x \in {r} |-> ResetOutcome(r, code)]) BY <1>7, <3>1 DEF ServerReset
      <4>4. [x \in {r} |-> ResetOutcome(r, code)] = [x \in {r} |-> o] BY <4>1
      <4>5. QED BY <2>2, <3>1, <4>2, <4>3, <4>4, OneEnds
    <3>2. CASE r \notin live BY <1>7, <3>2 DEF ServerReset
    <3>3. QED BY <3>1, <3>2
  <2>4. QED BY <1>1, <2>1, <2>3, HandledKeeps
<1>8. ASSUME NEW last, NEW broken \in BOOLEAN, PeerGoaway(last, broken) PROVE SInv'
  <2>1. Receiving /\ Handled(FALSE) /\ goingAway' \in BOOLEAN BY <1>8 DEF PeerGoaway
  <2>2. PICK o : o = IF broken THEN "ProtocolFailure" ELSE "Retry" OBVIOUS
  <2>3. PICK S : S = Past(GoawayLast(last)) OBVIOUS
  <2>4. PICK D : D = [r \in S |-> o] OBVIOUS
  <2>5. EndStreams(D)
    BY <1>8, <2>2, <2>3, <2>4 DEF PeerGoaway
  <2>6. DOMAIN D = S /\ S \subseteq live BY <2>3, <2>4 DEF Past
  <2>7. \A r \in S : D[r] \in Outcomes \ {"none"} BY <2>2, <2>4 DEF Outcomes
  <2>8. Ends(D) BY <2>5, <2>6, <2>7 DEF Ends
  <2>9. QED BY <1>1, <2>1, <2>8, HandledKeeps
<1>9. CASE ConnectionError
  <2>1. Receiving /\ Handled(TRUE) /\ UNCHANGED goingAway /\ EndStreams(AllUnanswered(TRUE))
    BY <1>9 DEF ConnectionError
  <2>2. Ends(AllUnanswered(TRUE)) /\ live' = {} BY <1>1, <2>1, AllEnd
  <2>3. PICK D : D = AllUnanswered(TRUE) OBVIOUS
  <2>4. Ends(D) BY <2>2, <2>3
  <2>5. QED BY <1>1, <2>1, <2>2, <2>4, HandledKeeps
<1>10. QED BY <1>2, <1>3, <1>4, <1>5, <1>6, <1>7, <1>8, <1>9 DEF Receive

\* The end of the session from one of its sides: nobody holds a stream.
LEMMA SessionEnds ==
    ASSUME SInv, dead', UNCHANGED <<id, nextId, goingAway>>, NEW broken,
           IF dead THEN UNCHANGED <<live, open, outcome>> ELSE EndStreams(AllUnanswered(broken)),
           NEW t \in Threads, NEW x, Moved(t, x), t \notin Requests, dead' \in BOOLEAN
    PROVE  Streams' /\ Slots' /\ Dead' /\ NothingStranded'
<1>1. Stays(t, x) BY DEF Stays
<1>2. PICK D : D = AllUnanswered(broken) OBVIOUS
<1>3. (Ends(D) /\ live' = {}) \/ (dead /\ UNCHANGED <<live, open, outcome>>)
  BY <1>2, AllEnd DEF SInv
<1>4. Streams' /\ Slots' BY <1>1, <1>3, StreamsAfter DEF SInv
<1>5. Dead' BY <1>3, DeadStays DEF SInv, Dead
<1>6. NothingStranded' BY StillWatched DEF SInv
<1>7. QED BY <1>4, <1>5, <1>6

LEMMA LostKeeps ==
    ASSUME SInv, Lost
    PROVE  SInv'
<1>1. /\ pc[Reader] = "receive" /\ dead' = TRUE /\ UNCHANGED <<writer, id, nextId, goingAway>>
      /\ IF dead THEN UNCHANGED <<live, open, outcome>>
         ELSE EndStreams(AllUnanswered(protocolFailure'))
      /\ pc' = [pc EXCEPT ![Reader] = "handled"]
      /\ \E b \in {"receive", "leave"} : after' = [after EXCEPT ![Reader] = b]
  BY DEF Lost
<1>2. LocksTo(Reader, "handled") BY <1>1 DEF LocksTo, HoldingPlaces
<1>3. Shape(Reader, "handled") BY <1>1, <1>2, ReaderShape DEF SInv, ReaderPlaces
<1>4. Moved(Reader, "handled") /\ "handled" \in Places BY <1>3 DEF Shape, Places, ReaderPlaces
<1>5. Stages' /\ Holding' BY <1>3, <1>4, OthersAreThreads, ShapeKeeps DEF SInv
<1>6. PICK broken : broken = protocolFailure' OBVIOUS
<1>7. Streams' /\ Slots' /\ Dead' /\ NothingStranded'
  BY <1>1, <1>4, <1>6, OthersAreThreads, SessionEnds
<1>8. QED BY <1>5, <1>7 DEF SInv

LEMMA CloseKeeps ==
    ASSUME SInv, Close
    PROVE  SInv'
<1>1. /\ pc[Closer] = "idle" /\ dead' = TRUE /\ UNCHANGED <<after, id, nextId, goingAway>>
      /\ IF dead THEN UNCHANGED <<live, open, outcome>> ELSE EndStreams(AllUnanswered(FALSE))
  BY DEF Close
<1>2. PICK x \in {"closing", "shutting"} : pc' = [pc EXCEPT ![Closer] = x] /\ LocksTo(Closer, x)
  <2>1. CASE writer = None
    BY <1>1, <2>1 DEF Close, Acquire, LocksTo, HoldingPlaces
  <2>2. CASE writer # None
    BY <1>1, <2>2 DEF Close, LocksTo, HoldingPlaces
  <2>3. QED BY <2>1, <2>2
<1>3. Shape(Closer, x) BY <1>1, <1>2, CloserShape DEF SInv, CloserPlaces
<1>4. Moved(Closer, x) /\ x \in Places BY <1>3 DEF Shape, Places, CloserPlaces
<1>5. Stages' /\ Holding' BY <1>3, <1>4, OthersAreThreads, ShapeKeeps DEF SInv
<1>6. Streams' /\ Slots' /\ Dead' /\ NothingStranded'
  BY <1>1, <1>4, OthersAreThreads, SessionEnds
<1>7. QED BY <1>5, <1>6 DEF SInv

-----------------------------------------------------------------------------
LEMMA StructureInit == Init => SInv
<1> SUFFICES ASSUME Init PROVE SInv OBVIOUS
<1>1. Stages
  BY OthersAreThreads, RequestIsThread DEF Init, Stages, Fits, Backs, Places, RequestPlaces, ReaderPlaces, CloserPlaces, BeforeId, WithId, Flushing, SlotPlaces, WatchPlaces, HoldingPlaces
<1>2. Streams
  BY OthersAreThreads, RequestIsThread DEF Init, Streams, Outcomes, Places, RequestPlaces, ReaderPlaces, CloserPlaces, BeforeId, WithId, Flushing, SlotPlaces, WatchPlaces, HoldingPlaces
<1>3. Holding
  BY OthersAreThreads, RequestsAssumption, ThreadsAssumption DEF Init, Holding, HoldingPlaces, Threads
<1>4. Dead BY OthersAreThreads DEF Init, Dead
<1>5. Slots
  <2>1. Slotted = {} BY OthersAreThreads, RequestIsThread DEF Init, Slotted, SlotPlaces
  <2>2. QED BY <2>1, FS_EmptySet DEF Init, Slots
<1>6. NothingStranded BY DEF Init, NothingStranded
<1>7. QED BY <1>1, <1>2, <1>3, <1>4, <1>5, <1>6 DEF SInv

LEMMA StructureStutters ==
    ASSUME SInv, UNCHANGED <<pc, writeVars, streamVars, dead, goingAway, output>>
    PROVE  SInv'
<1>1. UNCHANGED <<pc, writer, after, live, id, outcome, open, nextId, dead, goingAway, output>>
  BY DEF writeVars, streamVars
<1>2. Stages' /\ Streams' /\ Holding'
  BY <1>1 DEF SInv, Stages, Streams, Holding
<1>3. Dead' /\ NothingStranded' BY <1>1 DEF SInv, Dead, NothingStranded
<1>4. Slots' BY <1>1 DEF SInv, Slots, Slotted
<1>5. QED BY <1>2, <1>3, <1>4 DEF SInv

LEMMA StructureKept == SInv /\ [Next]_vars => SInv'
<1> SUFFICES ASSUME SInv, [Next]_vars PROVE SInv' OBVIOUS
<1>1. ASSUME NEW r \in Requests, RequestStep(r) PROVE SInv'
  BY <1>1, SlotKeeps, LockWriteKeeps, UnregisteredKeeps, RegisterKeeps, TakeAndEncodeKeeps,
     SendHeadersKeeps, ReserveChunkKeeps, TakeAndWriteKeeps, SendDataKeeps, BodyOverKeeps,
     CloseOurSideKeeps, StallKeeps, ReturnKeeps, FlushKeeps
  DEF RequestStep, Flushers
<1>2. CASE FlushStep(Reader) BY <1>2, FlushKeeps DEF Flushers
<1>3. ASSUME NEW r \in Requests, Act(r) PROVE SInv'
  BY <1>3, StructureStutters DEF Act, sessionVars
<1>4. CASE ConnectionFails BY <1>4, StructureStutters DEF ConnectionFails, sessionVars
<1>5. CASE UNCHANGED vars BY <1>5, StructureStutters DEF vars, sessionVars
<1>6. QED
  BY <1>1, <1>2, <1>3, <1>4, <1>5, ReceiveKeeps, ReceiveDeadKeeps, LostKeeps,
     ReaderNotifiesKeeps, ReaderLeavesKeeps, CloseKeeps, CloseSendsKeeps, CloseShutsKeeps
  DEF Next, Over

\* The structure of a session holds throughout.
THEOREM SessionInvariant == Spec => []SInv
<1>1. QED BY StructureInit, StructureKept, PTL DEF Spec

\* m_open never loses a slot nor gives one back twice, whichever way a request
\* leaves exchange() or the reader ends its stream.
THEOREM SlotsCounted == Spec => []SlotsAreCounted
<1>1. SInv => SlotsAreCounted BY DEF SInv, Slots, Slotted, SlotPlaces, SlotsAreCounted
<1>2. QED BY <1>1, SessionInvariant, PTL

\* A session that has died holds no stream open, so nobody is left to a timeout.
THEOREM DeadIsEmpty == Spec => []DeadHasNoStreams
<1>1. SInv => DeadHasNoStreams BY DEF SInv, Dead, Streams, DeadHasNoStreams, Ended
<1>2. QED BY <1>1, SessionInvariant, PTL

\* While the session takes requests, whatever the reader queued has a thread on
\* its way to send it.
THEOREM NothingIsStranded == Spec => []NothingStranded
<1>1. SInv => NothingStranded BY DEF SInv
<1>2. QED BY <1>1, SessionInvariant, PTL

-----------------------------------------------------------------------------
(* Amounts: the windows, and what has gone of each body. *)

Speaks == [limit: Nat, window: Nat, frame: Nat \ {0}]

\* What is taken from the windows and not yet written is part of the body.
Amounts ==
    /\ settings \in Speaks /\ sendWindow \in Nat /\ streamWindow \in [Requests -> Int]
    /\ at \in [Requests -> Nat] /\ reserved \in [Requests -> Nat]
    /\ \A r \in Requests : at[r] + reserved[r] <= BodySize

LEMMA SmallerIsSmaller ==
    ASSUME NEW a \in Nat, NEW b \in Nat
    PROVE  Smaller(a, b) \in Nat /\ Smaller(a, b) <= a /\ Smaller(a, b) <= b
BY DEF Smaller

\* A chunk fits what is left of the body and the window of the connection.
LEMMA ChunkFits ==
    ASSUME Amounts, NEW r \in Requests, Left(r) > 0, Ready(r)
    PROVE  /\ Chunk(r) \in Nat /\ Chunk(r) <= sendWindow
           /\ at[r] + Chunk(r) <= BodySize
<1>1. at[r] \in Nat /\ BodySize \in Nat BY BoundsAssumption DEF Amounts
<1>2. Left(r) = BodySize - at[r] BY <1>1 DEF Left
<1>3. Left(r) \in Nat /\ sendWindow \in Nat /\ streamWindow[r] \in Nat /\ settings.frame \in Nat
  BY <1>1, <1>2 DEF Amounts, Ready, Speaks
<1>4. PICK a : a = Smaller(Left(r), sendWindow) OBVIOUS
<1>5. PICK b : b = Smaller(streamWindow[r], settings.frame) OBVIOUS
<1>6. a \in Nat /\ a <= Left(r) /\ a <= sendWindow /\ b \in Nat
  BY <1>3, <1>4, <1>5, SmallerIsSmaller
<1>7. Chunk(r) = Smaller(a, b) BY <1>4, <1>5 DEF Chunk
<1>8. Chunk(r) \in Nat /\ Chunk(r) <= a BY <1>6, <1>7, SmallerIsSmaller
<1>9. QED BY <1>1, <1>2, <1>3, <1>6, <1>8

LEMMA AmountsKept ==
    ASSUME SInv, Amounts, [Next]_vars
    PROVE  Amounts'
<1> USE SettingsAssumption
<1>1. CASE UNCHANGED <<settings, windowVars>> BY <1>1 DEF Amounts, windowVars
<1>2. ASSUME NEW r \in Requests, RequestStep(r) PROVE Amounts'
  <2>1. CASE Register(r)
    <3>1. UNCHANGED <<settings, sendWindow, reserved, at>>
          /\ streamWindow' = [streamWindow EXCEPT ![r] = settings.window]
      BY <2>1 DEF Register, sessionVars
    <3>2. settings.window \in Int BY DEF Amounts, Speaks
    <3>3. QED BY <3>1, <3>2 DEF Amounts
  <2>2. CASE ReserveChunk(r)
    <3>1. PICK c : c = Chunk(r) OBVIOUS
    <3>2. c \in Nat /\ c <= sendWindow /\ at[r] + c <= BodySize
      BY <2>2, <3>1, ChunkFits DEF ReserveChunk
    <3>3. /\ UNCHANGED <<settings, at>> /\ sendWindow' = sendWindow - c
          /\ streamWindow' = [streamWindow EXCEPT ![r] = @ - c]
          /\ reserved' = [reserved EXCEPT ![r] = c]
      BY <2>2, <3>1 DEF ReserveChunk, sessionVars
    <3>4. QED BY <3>2, <3>3 DEF Amounts
  <2>3. CASE SendData(r)
    <3>1. /\ UNCHANGED <<settings, sendWindow, streamWindow>>
          /\ reserved' = [reserved EXCEPT ![r] = 0]
          /\ at' = [at EXCEPT ![r] = IF shut THEN @ ELSE @ + reserved[r]]
      BY <2>3 DEF SendData, sessionVars
    <3>2. at' \in [Requests -> Nat] /\ at'[r] <= at[r] + reserved[r] BY <3>1 DEF Amounts
    <3>3. \A s \in Requests \ {r} : at'[s] = at[s] /\ reserved'[s] = reserved[s]
      BY <3>1 DEF Amounts
    <3>4. reserved' \in [Requests -> Nat] /\ reserved'[r] = 0 BY <3>1 DEF Amounts
    <3>5. \A s \in Requests : at'[s] + reserved'[s] <= BodySize
      BY <3>2, <3>3, <3>4, BoundsAssumption DEF Amounts
    <3>6. QED BY <3>1, <3>2, <3>4, <3>5 DEF Amounts
  <2>4. CASE FlushStep(r)
    BY <1>1, <2>4 DEF FlushStep, Flush, FlushSend, FlushLook, sessionVars
  <2>5. CASE \/ Slot(r) \/ LockWrite(r) \/ Unregistered(r) \/ TakeAndEncode(r) \/ SendHeaders(r)
            \/ TakeAndWrite(r) \/ BodyOver(r) \/ CloseOurSide(r) \/ Stall(r) \/ Return(r)
    BY <1>1, <2>5
    DEF Slot, LockWrite, Unregistered, TakeAndEncode, SendHeaders, TakeAndWrite, BodyOver,
        CloseOurSide, Stall, Return, sessionVars
  <2>6. QED BY <1>2, <2>1, <2>2, <2>3, <2>4, <2>5 DEF RequestStep
<1>3. ASSUME NEW s \in Settings, NewSettings(s) PROVE Amounts'
  <2>1. /\ UNCHANGED <<sendWindow, at, reserved>> /\ settings' = s
        /\ streamWindow' = [r \in Requests |->
              IF r \in live THEN streamWindow[r] + (s.window - settings.window) ELSE streamWindow[r]]
    BY <1>3 DEF NewSettings, Handled
  <2>2. s \in Speaks /\ settings.window \in Int /\ s.window \in Int BY DEF Amounts, Speaks
  <2>3. QED BY <2>1, <2>2 DEF Amounts
<1>4. ASSUME NEW r \in Requests \cup {None}, WindowUpdate(r) PROVE Amounts'
  <2>1. UNCHANGED <<settings, at, reserved>> BY <1>4 DEF WindowUpdate, Handled
  <2>2. CASE r = None
    <3>1. sendWindow' = sendWindow + 1 /\ UNCHANGED streamWindow BY <1>4, <2>2 DEF WindowUpdate
    <3>2. QED BY <2>1, <3>1 DEF Amounts
  <2>3. CASE r # None
    <3>1. /\ streamWindow' = [streamWindow EXCEPT ![r] = IF r \in live THEN @ + 1 ELSE @]
          /\ UNCHANGED sendWindow
      BY <1>4, <2>3 DEF WindowUpdate
    <3>2. r \in Requests /\ streamWindow[r] \in Int BY <2>3 DEF Amounts
    <3>3. streamWindow' \in [Requests -> Int] BY <3>1, <3>2 DEF Amounts
    <3>4. QED BY <2>1, <3>1, <3>3 DEF Amounts
  <2>4. QED BY <2>2, <2>3
<1>5. CASE Receive
  <2>1. ASSUME NEW r \in Requests, NEW end \in BOOLEAN, Response(r, end) PROVE Amounts'
    BY <1>1, <2>1 DEF Response, Handled, windowVars
  <2>2. ASSUME NEW r \in Requests, StreamError(r) PROVE Amounts'
    BY <1>1, <2>2 DEF StreamError, Handled, windowVars
  <2>3. ASSUME NEW r \in Requests, NEW code, ServerReset(r, code) PROVE Amounts'
    BY <1>1, <2>3 DEF ServerReset, Handled, windowVars
  <2>4. ASSUME NEW last, NEW broken, PeerGoaway(last, broken) PROVE Amounts'
    BY <1>1, <2>4 DEF PeerGoaway, Handled, windowVars
  <2>5. CASE Ping \/ ConnectionError
    BY <1>1, <2>5 DEF Ping, ConnectionError, Handled, windowVars
  <2>6. QED BY <1>3, <1>4, <1>5, <2>1, <2>2, <2>3, <2>4, <2>5 DEF Receive
<1>6. CASE FlushStep(Reader)
  BY <1>1, <1>6 DEF FlushStep, Flush, FlushSend, FlushLook, sessionVars
<1>7. CASE \/ ReceiveDead \/ Lost \/ ConnectionFails \/ ReaderNotifies \/ ReaderLeaves
          \/ Close \/ CloseSends \/ CloseShuts
  BY <1>1, <1>7
  DEF ReceiveDead, Lost, ConnectionFails, ReaderNotifies, ReaderLeaves, Close, CloseSends,
      CloseShuts, sessionVars
<1>8. ASSUME NEW r \in Requests, Act(r) PROVE Amounts' BY <1>1, <1>8 DEF Act, sessionVars
<1>9. CASE UNCHANGED vars BY <1>1, <1>9 DEF vars, sessionVars
<1>10. QED BY <1>2, <1>5, <1>6, <1>7, <1>8, <1>9 DEF Next, Over

-----------------------------------------------------------------------------
(* What a list of frames does to the server's streams.  Sent is a          *)
(* recursive function; what it computes follows from the least prefix at   *)
(* which it would not hold.                                                *)

\* Any set of naturals that is not empty has a least member.
LEMMA NatMin ==
    ASSUME NEW T \in SUBSET Nat, T # {}
    PROVE  \E x \in T : \A y \in T : x <= y
<1> DEFINE R == OpToRel(<, Nat)
<1>1. IsWellFoundedOn(R, Nat) BY NatLessThanWellFounded
<1>2. \A x, y \in Nat : <<y, x>> \in R <=> y < x BY DEF OpToRel
<1> HIDE DEF R
<1>3. PICK x \in T : \A y \in T : ~ (<<y, x>> \in R) BY <1>1, WFMin
<1>4. ASSUME NEW y \in T PROVE x <= y
  <2>1. ~(<<y, x>> \in R) /\ x \in Nat /\ y \in Nat BY <1>3
  <2>2. ~(y < x) BY <2>1, <1>2
  <2>3. QED BY <2>1, <2>2
<1>5. QED BY <1>4

\* The server after each prefix of a list of frames.
Prefixes(h, p, fs, n) == h = [i \in 0..n |-> IF i = 0 THEN p ELSE Received(h[i - 1], fs[i])]

LEMMA PrefixesExist ==
    ASSUME NEW p, NEW fs, NEW n \in Nat
    PROVE  \E h : Prefixes(h, p, fs, n)
<1> DEFINE T == {m \in Nat : ~ \E h : Prefixes(h, p, fs, m)}
<1>1. SUFFICES ASSUME T # {} PROVE FALSE OBVIOUS
<1>2. PICK m \in T : \A y \in T : m <= y BY <1>1, NatMin
<1>3. m # 0
  <2>1. SUFFICES ASSUME m = 0 PROVE FALSE OBVIOUS
  <2>2. PICK h : h = [i \in 0..0 |-> p] OBVIOUS
  <2>3. Prefixes(h, p, fs, 0) BY <2>2 DEF Prefixes
  <2>4. QED BY <2>1, <2>3
<1>4. m - 1 \in Nat /\ m - 1 \notin T BY <1>2, <1>3
<1>5. PICK g : Prefixes(g, p, fs, m - 1) BY <1>4
<1>6. PICK q : q = Received(g[m - 1], fs[m]) OBVIOUS
<1>7. PICK h : h = [i \in 0..m |-> IF i = m THEN q ELSE g[i]] OBVIOUS
<1>8. \A i \in 0..m - 1 : g[i] = IF i = 0 THEN p ELSE Received(g[i - 1], fs[i])
  BY <1>4, <1>5 DEF Prefixes
<1>9. \A i \in 0..m - 1 : h[i] = g[i] BY <1>4, <1>7
<1>10. h[m] = q BY <1>4, <1>7
<1>11. \A i \in 0..m : h[i] = IF i = 0 THEN p ELSE Received(h[i - 1], fs[i])
  <2> SUFFICES ASSUME NEW i \in 0..m PROVE h[i] = IF i = 0 THEN p ELSE Received(h[i - 1], fs[i]) OBVIOUS
  <2>1. CASE i = m
    <3>1. m - 1 \in 0..m - 1 BY <1>4
    <3>2. h[m - 1] = g[m - 1] BY <3>1, <1>9
    <3>3. QED BY <2>1, <3>2, <1>3, <1>6, <1>10
  <2>2. CASE i # m /\ i # 0
    <3>1. i \in 0..m - 1 /\ i - 1 \in 0..m - 1 BY <2>2, <1>4
    <3>2. h[i] = g[i] /\ h[i - 1] = g[i - 1] BY <3>1, <1>9
    <3>3. QED BY <2>2, <3>1, <3>2, <1>8
  <2>3. CASE i # m /\ i = 0
    <3>1. i \in 0..m - 1 BY <2>3, <1>4
    <3>2. QED BY <2>3, <3>1, <1>8, <1>9
  <2>4. QED BY <2>1, <2>2, <2>3
<1>12. h = [i \in 0..m |-> h[i]] BY <1>7
<1>13. Prefixes(h, p, fs, m) BY <1>11, <1>12 DEF Prefixes
<1>14. QED BY <1>13, <1>2


\* Frames that are about a stream, and lists of frames about streams of S.
StreamKinds == {"HEADERS", "DATA", "RST_STREAM"}
OtherKinds == {"GOAWAY", "PING", "SETTINGS"}
FramesOn(S) ==
    [kind: StreamKinds, r: S, n: Int, end: BOOLEAN, says: {None}]
      \cup [kind: OtherKinds, r: {None}, n: Int, end: BOOLEAN, says: Settings \cup {None}]
About(f, r) == f.kind \in StreamKinds /\ f.r = r

StreamStates == {"idle", "open", "ended", "reset"}
PeerOk(p) == "stream" \in DOMAIN p /\ p.stream \in [Requests -> StreamStates]

\* A frame opens the stream it is about, and no frame makes one idle again.
LEMMA ReceivedOpens ==
    ASSUME NEW p, PeerOk(p), NEW f \in FramesOn(Requests)
    PROVE  /\ PeerOk(Received(p, f))
           /\ \A s \in Requests :
                 Received(p, f).stream[s] # "idle" <=> p.stream[s] # "idle" \/ About(f, s)
<1>1. CASE f.kind = "HEADERS"
  <2>1. f.r \in Requests BY <1>1 DEF FramesOn, StreamKinds, OtherKinds
  <2>2. Received(p, f) = [p EXCEPT !.stream[f.r] = IF f.end THEN "ended" ELSE "open",
                      !.room[f.r] = p.acked.window,
                      !.crowded = @ \/ Cardinality(Counted(p)) >= p.acked.limit]
    BY <1>1 DEF Received
  <2>3. DOMAIN Received(p, f) = DOMAIN p BY <2>2
  <2>4. Received(p, f).stream = [p.stream EXCEPT ![f.r] = IF f.end THEN "ended" ELSE "open"]
    BY <2>2 DEF PeerOk
  <2>5. QED BY <1>1, <2>1, <2>3, <2>4 DEF PeerOk, StreamStates, About, StreamKinds
<1>2. CASE f.kind = "DATA"
  <2>1. f.r \in Requests BY <1>2 DEF FramesOn, StreamKinds, OtherKinds
  <2>2. Received(p, f) = [p EXCEPT
                      !.stream[f.r] = IF @ = "reset" THEN @ ELSE IF f.end THEN "ended" ELSE "open",
                      !.room[f.r] = @ - f.n, !.allRoom = @ - f.n,
                      !.overrun = @ \/ f.n > p.room[f.r] \/ f.n > p.allRoom]
    BY <1>2 DEF Received
  <2>3. DOMAIN Received(p, f) = DOMAIN p BY <2>2
  <2>4. Received(p, f).stream =
          [p.stream EXCEPT ![f.r] = IF @ = "reset" THEN @ ELSE IF f.end THEN "ended" ELSE "open"]
    BY <2>2 DEF PeerOk
  <2>5. QED BY <1>2, <2>1, <2>3, <2>4 DEF PeerOk, StreamStates, About, StreamKinds
<1>3. CASE f.kind = "RST_STREAM"
  <2>1. f.r \in Requests BY <1>3 DEF FramesOn, StreamKinds, OtherKinds
  <2>2. Received(p, f) = [p EXCEPT !.stream[f.r] = "reset"] BY <1>3 DEF Received
  <2>3. DOMAIN Received(p, f) = DOMAIN p BY <2>2
  <2>4. Received(p, f).stream = [p.stream EXCEPT ![f.r] = "reset"] BY <2>2 DEF PeerOk
  <2>5. QED BY <1>3, <2>1, <2>3, <2>4 DEF PeerOk, StreamStates, About, StreamKinds
<1>4. CASE f.kind \in OtherKinds
  <2>1. f.kind \notin StreamKinds BY <1>4 DEF StreamKinds, OtherKinds
  <2>2. DOMAIN Received(p, f) = DOMAIN p /\ Received(p, f).stream = p.stream
    <3>1. CASE f.kind = "SETTINGS"
      <4>1. Received(p, f) =
              [p EXCEPT !.room = [r \in Requests |-> @[r] + (f.says.window - p.acked.window)],
                        !.acked = f.says]
        BY <3>1 DEF Received
      <4>2. QED BY <4>1 DEF PeerOk
    <3>2. CASE f.kind # "SETTINGS" BY <1>4, <3>2 DEF Received, OtherKinds
    <3>3. QED BY <3>1, <3>2
  <2>3. QED BY <2>1, <2>2 DEF PeerOk, About
<1>5. f.kind \in StreamKinds \cup OtherKinds BY DEF FramesOn
<1>6. QED BY <1>1, <1>2, <1>3, <1>4, <1>5 DEF StreamKinds

\* So does a list of frames.
LEMMA PrefixesOpen ==
    ASSUME NEW p, PeerOk(p), NEW fs \in Seq(FramesOn(Requests)), NEW h,
           Prefixes(h, p, fs, Len(fs))
    PROVE  \A i \in 0..Len(fs) :
             /\ PeerOk(h[i])
             /\ \A s \in Requests :
                   h[i].stream[s] # "idle" <=>
                     p.stream[s] # "idle" \/ \E j \in 1..i : About(fs[j], s)
<1> DEFINE Met(i, s) == \E j \in 1..i : About(fs[j], s)
           Right(i) == /\ PeerOk(h[i])
                       /\ \A s \in Requests :
                             h[i].stream[s] # "idle" <=> p.stream[s] # "idle" \/ Met(i, s)
           T == {i \in 0..Len(fs) : ~ Right(i)}
<1>1. SUFFICES ASSUME T # {} PROVE FALSE OBVIOUS
<1>2. Len(fs) \in Nat OBVIOUS
<1>3. T \in SUBSET Nat BY <1>2
<1> HIDE DEF Right
<1>4. PICK m \in T : \A y \in T : m <= y BY <1>1, <1>3, NatMin
<1>5. m \in 0..Len(fs) /\ ~ Right(m) BY <1>4
<1>6. \A i \in 0..Len(fs) : h[i] = IF i = 0 THEN p ELSE Received(h[i - 1], fs[i])
  BY <1>2 DEF Prefixes
<1>7. CASE m = 0
  <2>1. h[0] = p BY <1>2, <1>6
  <2>2. \A s \in Requests : ~ Met(0, s) OBVIOUS
  <2>3. Right(0) BY <2>1, <2>2 DEF Right
  <2>4. QED BY <1>5, <1>7, <2>3
<1>8. CASE m # 0
  <2>1. m - 1 \in 0..Len(fs) /\ m \in 1..Len(fs) BY <1>2, <1>5, <1>8
  <2>2. m - 1 \notin T BY <1>3, <1>4, <2>1
  <2>3. Right(m - 1) BY <2>1, <2>2
  <2>4. fs[m] \in FramesOn(Requests) BY <2>1
  <2>5. h[m] = Received(h[m - 1], fs[m]) BY <1>5, <1>6, <1>8
  <2>6. PeerOk(h[m - 1]) BY <2>3 DEF Right
  <2>7. PeerOk(h[m]) BY <2>4, <2>5, <2>6, ReceivedOpens
  <2>8. ASSUME NEW s \in Requests
        PROVE  h[m].stream[s] # "idle" <=> p.stream[s] # "idle" \/ Met(m, s)
    <3>1. h[m].stream[s] # "idle" <=> h[m - 1].stream[s] # "idle" \/ About(fs[m], s)
      BY <2>4, <2>5, <2>6, ReceivedOpens
    <3>2. h[m - 1].stream[s] # "idle" <=> p.stream[s] # "idle" \/ Met(m - 1, s)
      BY <2>3 DEF Right
    <3>3. Met(m, s) <=> Met(m - 1, s) \/ About(fs[m], s)
      <4>1. \A j \in 1..m : j \in 1..m - 1 \/ j = m BY <2>1
      <4>2. (1..m - 1) \subseteq 1..m /\ m \in 1..m BY <2>1
      <4>3. QED BY <4>1, <4>2, Zenon
    <3>4. QED BY <3>1, <3>2, <3>3, Zenon
  <2>9. Right(m) BY <2>7, <2>8 DEF Right
  <2>10. QED BY <1>5, <2>9
<1>9. QED BY <1>7, <1>8

\* What send_all hands to the server opens the streams its frames are about.
LEMMA SentOpens ==
    ASSUME PeerOk(peer), NEW t, buffer[t] \in Seq(FramesOn(Requests)), ~shut
    PROVE  /\ PeerOk(Sent(t))
           /\ \A s \in Requests :
                 Sent(t).stream[s] # "idle" <=>
                   Opened(s) \/ \E j \in 1..Len(buffer[t]) : About(buffer[t][j], s)
<1> DEFINE frames == buffer[t]
           upto[n \in 0..Len(frames)] ==
               IF n = 0 THEN peer ELSE Received(upto[n - 1], frames[n])
<1>1. Len(frames) \in Nat OBVIOUS
<1>2. \E h : Prefixes(h, peer, frames, Len(frames)) BY <1>1, PrefixesExist
<1>3. \E h : h = [n \in 0..Len(frames) |->
                    IF n = 0 THEN peer ELSE Received(h[n - 1], frames[n])]
  BY <1>2 DEF Prefixes
<1>4. upto = [n \in 0..Len(frames) |-> IF n = 0 THEN peer ELSE Received(upto[n - 1], frames[n])]
  BY <1>3
<1>5. Prefixes(upto, peer, frames, Len(frames)) BY <1>4 DEF Prefixes
<1>6. Sent(t) = upto[Len(frames)] BY DEF Sent
<1>7. PICK h : h = upto OBVIOUS
<1>8. PICK fs : fs = frames OBVIOUS
<1>9. fs \in Seq(FramesOn(Requests)) /\ Prefixes(h, peer, fs, Len(fs)) BY <1>5, <1>7, <1>8
<1>10. Len(fs) \in 0..Len(fs) BY <1>9
<1>11. /\ PeerOk(h[Len(fs)])
       /\ \A s \in Requests :
             h[Len(fs)].stream[s] # "idle" <=>
               peer.stream[s] # "idle" \/ \E j \in 1..Len(fs) : About(fs[j], s)
  BY <1>9, <1>10, PrefixesOpen
<1>12. Sent(t) = h[Len(fs)] BY <1>6, <1>7, <1>8
<1>13. QED BY <1>8, <1>11, <1>12 DEF Opened

-----------------------------------------------------------------------------
(* The wire: ids, and the streams the server has seen open. *)

Numbered == {r \in Requests : id[r] # 0}
Opening == {"registered", "sending"}

\* Ids are given in order, each once, to the holder of the write lock.
Ids ==
    /\ nextId - 1 = Cardinality(Numbered) /\ nextId <= MaxId + 1
    /\ \A r \in Requests : id[r] < nextId
    /\ \A r, s \in Requests : id[r] # 0 /\ id[r] = id[s] => r = s
    /\ \A r \in Requests : pc[r] \in Opening => id[r] = nextId - 1

\* Every frame on its way is about a request with an id, and while the
\* connection is up the only one the server has not seen is the one whose
\* HEADERS its thread is about to write.
Wire ==
    /\ output \in Seq(FramesOn(Numbered)) /\ buffer \in [Threads -> Seq(FramesOn(Numbered))]
    /\ PeerOk(peer)
    /\ \A r \in Requests : Opened(r) => id[r] # 0
    /\ \A r \in Requests : id[r] # 0 => shut \/ Opened(r) \/ pc[r] \in Opening
    /\ \A r \in Requests : pc[r] = "sending" => \E i \in 1..Len(buffer[r]) : About(buffer[r][i], r)

WInv == SInv /\ Amounts /\ Ids /\ Wire /\ IdsRiseOnTheWire

LEMMA FramesGrow ==
    ASSUME NEW S, NEW T, S \subseteq T
    PROVE  Seq(FramesOn(S)) \subseteq Seq(FramesOn(T))
<1>1. FramesOn(S) \subseteq FramesOn(T) BY DEF FramesOn
<1>2. QED BY <1>1

LEMMA FramesTyped ==
    ASSUME NEW S
    PROVE  /\ Goaway \in FramesOn(S) /\ Pong \in FramesOn(S)
           /\ \A s \in Settings : Ack(s) \in FramesOn(S)
           /\ \A r \in S : Headers(r) \in FramesOn(S) /\ Rst(r) \in FramesOn(S)
           /\ \A r \in S, n \in Int, end \in BOOLEAN : Data(r, n, end) \in FramesOn(S)
<1>1. Goaway \in FramesOn(S) /\ Pong \in FramesOn(S)
  BY DEF Goaway, Pong, Frame, FramesOn, OtherKinds
<1>2. ASSUME NEW s \in Settings PROVE Ack(s) \in FramesOn(S)
  <2> DEFINE Others == [kind: OtherKinds, r: {None}, n: Int, end: BOOLEAN, says: Settings \cup {None}]
  <2>1. PICK f : f = Frame("SETTINGS", None, 0, FALSE) OBVIOUS
  <2>2. f \in Others BY <2>1 DEF Frame, OtherKinds
  <2>3. [f EXCEPT !.says = s] \in Others BY <2>2
  <2>4. QED BY <2>1, <2>3 DEF Ack, FramesOn
<1>3. ASSUME NEW r \in S PROVE Headers(r) \in FramesOn(S) /\ Rst(r) \in FramesOn(S)
  <2>1. PICK end \in BOOLEAN : end = (r \notin Uploads) OBVIOUS
  <2>2. Headers(r) = [kind |-> "HEADERS", r |-> r, n |-> 0, end |-> end, says |-> None]
    BY <2>1 DEF Headers, Frame
  <2>3. QED BY <2>2 DEF Rst, Frame, FramesOn, StreamKinds
<1>4. ASSUME NEW r \in S, NEW n \in Int, NEW end \in BOOLEAN PROVE Data(r, n, end) \in FramesOn(S)
  BY DEF Data, Frame, FramesOn, StreamKinds
<1>5. QED BY <1>1, <1>2, <1>3, <1>4

\* The streams the server has seen are the same after the step.
PeerSame == PeerOk(peer') /\ \A r \in Requests : peer'.stream[r] # "idle" <=> peer.stream[r] # "idle"

\* A step that gives no id and opens no stream.
LEMMA WireStays ==
    ASSUME Ids, Wire, IdsRiseOnTheWire, NEW t \in Threads, NEW x, Moved(t, x),
           pc[t] \notin Opening, x \notin Opening, UNCHANGED <<id, nextId>>, PeerSame, shut => shut',
           \/ output' \in {output, <<>>}
           \/ \E f \in FramesOn(Numbered) : output' = Append(output, f),
           \/ buffer' = buffer
           \/ \E own \in Seq(FramesOn(Numbered)) : buffer' = [buffer EXCEPT ![t] = output \o own]
    PROVE  Ids' /\ Wire' /\ IdsRiseOnTheWire'
<1>1. Numbered' = Numbered BY DEF Numbered
<1>2. \A r \in Requests : (pc'[r] \in Opening <=> pc[r] \in Opening)
                         /\ (pc'[r] = "sending" => pc[r] = "sending" /\ r # t)
  BY DEF Moved, Threads, Opening
<1>3. Ids' BY <1>1, <1>2 DEF Ids
<1>4. \A r \in Requests : Opened(r)' <=> Opened(r) BY DEF PeerSame, Opened
<1>5. IdsRiseOnTheWire' BY <1>4 DEF IdsRiseOnTheWire
<1>6. output' \in Seq(FramesOn(Numbered))
  <2>1. output \in Seq(FramesOn(Numbered)) /\ <<>> \in Seq(FramesOn(Numbered)) BY DEF Wire
  <2>2. \A f \in FramesOn(Numbered) : Append(output, f) \in Seq(FramesOn(Numbered)) BY <2>1
  <2>3. QED BY <2>1, <2>2
<1>7. buffer' \in [Threads -> Seq(FramesOn(Numbered))]
  <2>1. \A own \in Seq(FramesOn(Numbered)) : output \o own \in Seq(FramesOn(Numbered))
    BY DEF Wire
  <2>2. QED BY <2>1 DEF Wire
<1>8. ASSUME NEW r \in Requests, pc'[r] = "sending"
      PROVE  \E i \in 1..Len(buffer'[r]) : About(buffer'[r][i], r)
  <2>1. pc[r] = "sending" /\ r # t /\ r \in Threads BY <1>2, <1>8 DEF Threads
  <2>2. buffer'[r] = buffer[r] BY <2>1 DEF Wire
  <2>3. QED BY <2>1, <2>2 DEF Wire
<1>9. Wire'
  <2>1. \A r \in Requests : id'[r] # 0 => shut' \/ Opened(r)' \/ pc'[r] \in Opening
    BY <1>2, <1>4 DEF Wire
  <2>2. \A r \in Requests : Opened(r)' => id'[r] # 0 BY <1>4 DEF Wire
  <2>3. QED BY <1>1, <1>6, <1>7, <1>8, <2>1, <2>2 DEF Wire, PeerSame
<1>10. QED BY <1>3, <1>5, <1>9

LEMMA SamePeer ==
    ASSUME Wire, peer' = peer
    PROVE  PeerSame
BY DEF Wire, PeerSame

\* A write: it opens every stream there is, or the connection has gone.
LEMMA WriteOpens ==
    ASSUME SInv, Ids, Wire, IdsRiseOnTheWire, NEW t \in Threads, NEW x, Moved(t, x),
           pc[t] \in HoldingPlaces, pc[t] # "registered", x \notin Opening,
           peer' = Sent(t), buffer' = [buffer EXCEPT ![t] = <<>>],
           UNCHANGED <<id, nextId, output, shut>>
    PROVE  Ids' /\ Wire' /\ IdsRiseOnTheWire'
<1>1. Numbered' = Numbered BY DEF Numbered
<1>2. \A r \in Requests : pc'[r] \in Opening => pc[r] \in Opening /\ r # t
  BY DEF Moved, Threads, Opening
<1>3. Ids' BY <1>1, <1>2 DEF Ids
<1>4. \A r \in Requests : pc[r] \in Opening => r = t
  BY DEF SInv, Holding, Threads, Opening, HoldingPlaces
<1>5. buffer[t] \in Seq(FramesOn(Requests))
  <2>1. Numbered \subseteq Requests BY DEF Numbered
  <2>2. QED BY <2>1, FramesGrow DEF Wire
<1>6. output' \in Seq(FramesOn(Numbered)) /\ buffer' \in [Threads -> Seq(FramesOn(Numbered))]
  BY DEF Wire
<1>7. \A r \in Requests : pc'[r] # "sending" BY <1>2, <1>4 DEF Opening
<1>8. CASE shut
  <2>1. peer' = peer BY <1>8 DEF Sent
  <2>2. \A r \in Requests : Opened(r)' <=> Opened(r) BY <2>1 DEF Opened
  <2>3. Wire' BY <1>1, <1>6, <1>7, <1>8, <2>1, <2>2 DEF Wire
  <2>4. IdsRiseOnTheWire' BY <2>2 DEF IdsRiseOnTheWire
  <2>5. QED BY <1>3, <2>3, <2>4
<1>9. CASE ~shut
  <2>1. /\ PeerOk(peer')
        /\ \A s \in Requests :
              Opened(s)' <=> Opened(s) \/ \E j \in 1..Len(buffer[t]) : About(buffer[t][j], s)
    BY <1>5, <1>9, SentOpens DEF Wire, Opened
  <2>2. ASSUME NEW s \in Requests, Opened(s)' PROVE id[s] # 0
    <3>1. CASE Opened(s) BY <3>1 DEF Wire
    <3>2. CASE \E j \in 1..Len(buffer[t]) : About(buffer[t][j], s)
      <4>1. PICK j \in 1..Len(buffer[t]) : About(buffer[t][j], s) BY <3>2
      <4>2. buffer[t][j] \in FramesOn(Numbered) BY <4>1 DEF Wire
      <4>3. s \in Numbered BY <4>1, <4>2 DEF About, FramesOn, StreamKinds, OtherKinds
      <4>4. QED BY <4>3 DEF Numbered
    <3>3. QED BY <2>1, <2>2, <3>1, <3>2
  <2>3. ASSUME NEW s \in Requests, id[s] # 0 PROVE Opened(s)'
    <3>1. CASE pc[s] \in Opening
      <4>1. s = t /\ pc[s] = "sending" BY <1>4, <3>1 DEF Opening
      <4>2. \E j \in 1..Len(buffer[t]) : About(buffer[t][j], s) BY <4>1 DEF Wire
      <4>3. QED BY <2>1, <4>2
    <3>2. CASE pc[s] \notin Opening BY <1>9, <2>1, <2>3, <3>2 DEF Wire
    <3>3. QED BY <3>1, <3>2
  <2>4. Wire' BY <1>1, <1>6, <1>7, <2>1, <2>2, <2>3 DEF Wire
  <2>5. IdsRiseOnTheWire'
    <3>1. \A s \in Requests : 0 < id'[s] => Opened(s)' BY <2>3 DEF SInv, Streams
    <3>2. QED BY <3>1 DEF IdsRiseOnTheWire
  <2>6. QED BY <1>3, <2>4, <2>5
<1>10. QED BY <1>8, <1>9

WireNext == Ids' /\ Wire' /\ IdsRiseOnTheWire'

\* A thread that moves and leaves the server as it is.
LEMMA QuietWire ==
    ASSUME WInv, NEW t \in Threads, NEW x \in Places,
           pc' = [pc EXCEPT ![t] = x] \/ pc' = [Notified EXCEPT ![t] = x],
           pc[t] \notin Opening, x \notin Opening, UNCHANGED <<id, nextId, peer>>, shut => shut',
           \/ output' \in {output, <<>>}
           \/ \E f \in FramesOn(Numbered) : output' = Append(output, f),
           \/ buffer' = buffer
           \/ \E own \in Seq(FramesOn(Numbered)) : buffer' = [buffer EXCEPT ![t] = output \o own]
    PROVE  WireNext
<1>1. Moved(t, x) BY MovesOne, MovesAndWakes DEF WInv, SInv
<1>2. PeerSame BY SamePeer DEF WInv
<1>3. QED BY <1>1, <1>2, WireStays DEF WInv, WireNext

\* A request past its registration has an id to put on its frames.
LEMMA NumberedThen ==
    ASSUME SInv, NEW r \in Requests, pc[r] \in WithId
    PROVE  r \in Numbered
BY DEF SInv, Streams, Numbered

LEMMA RequestWire ==
    ASSUME WInv, NEW r \in Requests,
           \/ Slot(r) \/ LockWrite(r) \/ Unregistered(r) \/ ReserveChunk(r) \/ BodyOver(r) \/ Return(r)
    PROVE  WireNext
<1>1. UNCHANGED <<id, nextId, peer, shut, output, buffer>>
  BY DEF Slot, LockWrite, Unregistered, ReserveChunk, BodyOver, Return, writeVars, streamVars
<1>2. pc[r] \in {"slot", "write", "locked", "body", "wait"}
  BY DEF Slot, LockWrite, Unregistered, ReserveChunk, BodyOver, Return
<1>3. PICK x \in {"done", "write", "slotAsleep", "locked", "chunk", "bodyOver"} :
        pc' = [pc EXCEPT ![r] = x] \/ pc' = [Notified EXCEPT ![r] = x]
  BY DEF Slot, LockWrite, Unregistered, Refuse, ReserveChunk, BodyOver, Return
<1>4. x \in Places /\ x \notin Opening /\ pc[r] \notin Opening BY <1>2 DEF Places, RequestPlaces, BeforeId, WithId, Flushing, Opening
<1>5. QED BY <1>1, <1>3, <1>4, RequestIsThread, QuietWire

LEMMA ResetWire ==
    ASSUME WInv, NEW r \in Requests, CloseOurSide(r) \/ Stall(r)
    PROVE  WireNext
<1>1. UNCHANGED <<id, nextId, peer, shut, buffer>> BY DEF CloseOurSide, Stall, streamVars
<1>2. pc[r] \in {"bodyOver", "body", "wait"} BY DEF CloseOurSide, Stall, Timed
<1>3. PICK x \in {"flush", "wait"} : pc' = [pc EXCEPT ![r] = x] \/ pc' = [Notified EXCEPT ![r] = x]
  BY DEF CloseOurSide, Stall
<1>4. x \in Places /\ x \notin Opening /\ pc[r] \notin Opening /\ pc[r] \in WithId
  BY <1>2 DEF Places, RequestPlaces, BeforeId, WithId, Flushing, Opening
<1>5. Rst(r) \in FramesOn(Numbered) BY <1>4, NumberedThen, FramesTyped DEF WInv
<1>6. output' = output \/ output' = Append(output, Rst(r)) BY DEF CloseOurSide, Stall, GiveUpAloud
<1>7. QED BY <1>1, <1>3, <1>4, <1>5, <1>6, RequestIsThread, QuietWire

LEMMA DataWire ==
    ASSUME WInv, NEW r \in Requests, TakeAndWrite(r)
    PROVE  WireNext
<1>1. /\ UNCHANGED <<id, nextId, peer, shut>> /\ output' = <<>> /\ pc[r] = "chunk"
      /\ pc' = [pc EXCEPT ![r] = "writing"]
      /\ buffer' = [buffer EXCEPT ![r] = output \o <<Data(r, reserved[r], reserved[r] = Left(r))>>]
  BY DEF TakeAndWrite, Acquire, Taken, streamVars
<1>2. PICK end \in BOOLEAN : end = (reserved[r] = Left(r)) OBVIOUS
<1>3. r \in Numbered BY <1>1, NumberedThen DEF WInv, WithId
<1>4. reserved[r] \in Int BY DEF WInv, Amounts
<1>5. Data(r, reserved[r], end) \in FramesOn(Numbered) BY <1>3, <1>4, FramesTyped
<1>6. <<Data(r, reserved[r], end)>> \in Seq(FramesOn(Numbered)) BY <1>5
<1>7. "writing" \in Places /\ "writing" \notin Opening /\ pc[r] \notin Opening BY <1>1 DEF Places, RequestPlaces, BeforeId, WithId, Flushing, Opening
<1>8. QED BY <1>1, <1>2, <1>6, <1>7, RequestIsThread, QuietWire

LEMMA WriteWire ==
    ASSUME WInv, NEW t \in Threads, NEW x \in Places, x \notin Opening,
           pc[t] \in HoldingPlaces, pc[t] # "registered", pc' = [pc EXCEPT ![t] = x],
           peer' = Sent(t), buffer' = [buffer EXCEPT ![t] = <<>>],
           UNCHANGED <<id, nextId, output, shut>>
    PROVE  WireNext
<1>1. Moved(t, x) BY MovesOne DEF WInv, SInv
<1>2. QED BY <1>1, WriteOpens DEF WInv, WireNext

LEMMA SendWire ==
    ASSUME WInv, NEW r \in Requests, SendHeaders(r) \/ SendData(r)
    PROVE  WireNext
<1>1. /\ pc[r] \in {"sending", "writing"} /\ pc' = [pc EXCEPT ![r] = "flush"]
      /\ peer' = Sent(r) /\ buffer' = [buffer EXCEPT ![r] = <<>>]
      /\ UNCHANGED <<id, nextId, output, shut>>
  BY DEF SendHeaders, SendData, streamVars
<1>2. /\ "flush" \in Places /\ "flush" \notin Opening /\ pc[r] # "registered"
      /\ pc[r] \in HoldingPlaces
  BY <1>1 DEF Places, RequestPlaces, BeforeId, WithId, Flushing, Opening, HoldingPlaces
<1>3. QED BY <1>1, <1>2, RequestIsThread, WriteWire

LEMMA CloserWrites ==
    ASSUME WInv, CloseSends
    PROVE  WireNext
<1>1. /\ pc[Closer] = "closing" /\ pc' = [pc EXCEPT ![Closer] = "shutting"]
      /\ peer' = Sent(Closer) /\ buffer' = [buffer EXCEPT ![Closer] = <<>>]
      /\ UNCHANGED <<id, nextId, output, shut>>
  BY DEF CloseSends, streamVars
<1>2. /\ "shutting" \in Places /\ "shutting" \notin Opening /\ pc[Closer] # "registered"
      /\ pc[Closer] \in HoldingPlaces
  BY <1>1 DEF Places, RequestPlaces, BeforeId, WithId, Flushing, Opening, CloserPlaces, HoldingPlaces
<1>3. QED BY <1>1, <1>2, OthersAreThreads, WriteWire

LEMMA FlushWire ==
    ASSUME WInv, NEW t \in Flushers, FlushStep(t)
    PROVE  WireNext
<1>1. t \in Threads /\ (t \in Requests \/ t = Reader) BY OthersAreThreads DEF Flushers, Threads
<1>2. pc[t] \in Flushing /\ UNCHANGED <<id, nextId, shut>>
  BY DEF FlushStep, Flush, FlushSend, FlushLook, Flushing, streamVars
<1>3. Fits(t, pc[t], after[t]) BY <1>1 DEF WInv, SInv, Stages
<1>4. /\ pc[t] \notin Opening /\ after[t] \in Places /\ after[t] \notin Opening
      /\ Flushing \subseteq Places /\ Flushing \cap Opening = {}
  BY <1>1, <1>2, <1>3 DEF Fits, Places, RequestPlaces, BeforeId, WithId, Flushing, Opening, ReaderPlaces
<1>5. CASE FlushSend(t)
  <2>1. /\ pc[t] = "flushing" /\ pc' = [pc EXCEPT ![t] = "flushed"] /\ peer' = Sent(t)
        /\ buffer' = [buffer EXCEPT ![t] = <<>>] /\ output' = output
    BY <1>5 DEF FlushSend, LookedAgain
  <2>2. /\ "flushed" \in Places /\ "flushed" \notin Opening /\ pc[t] # "registered"
        /\ pc[t] \in HoldingPlaces
    BY <1>4, <2>1 DEF Flushing, HoldingPlaces
  <2>3. QED BY <1>1, <1>2, <2>1, <2>2, WriteWire
<1>6. CASE Flush(t) \/ FlushLook(t)
  <2>1. peer' = peer BY <1>6 DEF Flush, FlushLook
  <2>2. PICK x \in Flushing \cup {after[t]} : pc' = [pc EXCEPT ![t] = x]
    BY <1>6 DEF Flush, FlushLook, Acquire, Flushing
  <2>3. /\ output' \in {output, <<>>}
        /\ buffer' = buffer \/ buffer' = [buffer EXCEPT ![t] = output \o <<>>]
    BY <1>6 DEF Flush, FlushLook, Acquire, Taken, writeVars
  <2>4. <<>> \in Seq(FramesOn(Numbered)) OBVIOUS
  <2>5. x \in Places /\ x \notin Opening BY <1>4
  <2>6. QED BY <1>1, <1>2, <1>4, <2>1, <2>2, <2>3, <2>4, <2>5, QuietWire
<1>7. QED BY <1>5, <1>6 DEF FlushStep

LEMMA RegisterWire ==
    ASSUME WInv, NEW r \in Requests, Register(r)
    PROVE  WireNext
<1>1. /\ pc[r] = "locked" /\ nextId <= MaxId /\ id' = [id EXCEPT ![r] = nextId]
      /\ nextId' = nextId + 1 /\ pc' = [pc EXCEPT ![r] = "registered"]
      /\ UNCHANGED <<output, buffer, peer, shut>>
  BY BoundsAssumption DEF Register, GoneSince, OutOfIds, WInv, SInv, Streams, writeVars
<1>2. id[r] = 0 /\ id \in [Requests -> Nat] /\ nextId \in Nat \ {0}
  BY <1>1 DEF WInv, SInv, Streams, BeforeId
<1>3. \A s \in Requests \ {r} : id'[s] = id[s] /\ pc'[s] = pc[s]
  BY <1>1, <1>2, RequestIsThread DEF WInv, SInv, Stages
<1>4. id'[r] = nextId /\ pc'[r] = "registered"
  BY <1>1, <1>2, RequestIsThread DEF WInv, SInv, Stages
<1>5. \A s \in Requests \ {r} : pc[s] \notin Opening
  BY <1>1, RequestIsThread DEF WInv, SInv, Holding, HoldingPlaces, Opening
<1>6. Numbered' = Numbered \cup {r} /\ r \notin Numbered
  BY <1>2, <1>3, <1>4 DEF Numbered
<1>7. Cardinality(Numbered') = Cardinality(Numbered) + 1
  <2>1. Numbered \subseteq Requests BY DEF Numbered
  <2>2. IsFiniteSet(Numbered) BY <2>1, RequestsAssumption, FS_Subset
  <2>3. QED BY <1>6, <2>2, FS_AddElement
<1>8. Ids'
  <2>1. \A s \in Requests : id'[s] < nextId' BY <1>1, <1>2, <1>3, <1>4 DEF WInv, Ids
  <2>2. \A s, u \in Requests : id'[s] # 0 /\ id'[s] = id'[u] => s = u
    BY <1>2, <1>3, <1>4 DEF WInv, Ids
  <2>3. \A s \in Requests : pc'[s] \in Opening => id'[s] = nextId' - 1
    BY <1>1, <1>2, <1>3, <1>4, <1>5
  <2>4. nextId' - 1 = Cardinality(Numbered') /\ nextId' <= MaxId + 1
    BY <1>1, <1>2, <1>7, BoundsAssumption DEF WInv, Ids
  <2>5. QED BY <2>1, <2>2, <2>3, <2>4 DEF Ids
<1>9. \A s \in Requests : Opened(s)' <=> Opened(s) BY <1>1 DEF Opened
<1>10. ~ Opened(r) BY <1>2 DEF WInv, Wire
<1>11. Wire'
  <2>1. output' \in Seq(FramesOn(Numbered')) /\ buffer' \in [Threads -> Seq(FramesOn(Numbered'))]
    <3>1. Seq(FramesOn(Numbered)) \subseteq Seq(FramesOn(Numbered')) BY <1>6, FramesGrow
    <3>2. QED BY <1>1, <3>1 DEF WInv, Wire
  <2>2. \A s \in Requests : Opened(s)' => id'[s] # 0 BY <1>3, <1>9, <1>10 DEF WInv, Wire
  <2>3. \A s \in Requests : id'[s] # 0 => shut' \/ Opened(s)' \/ pc'[s] \in Opening
    BY <1>1, <1>3, <1>4, <1>5, <1>9 DEF WInv, Wire, Opening
  <2>4. \A s \in Requests : pc'[s] # "sending" BY <1>3, <1>4, <1>5 DEF Opening
  <2>5. QED BY <1>1, <2>1, <2>2, <2>3, <2>4 DEF WInv, Wire
<1>12. IdsRiseOnTheWire'
  <2> SUFFICES ASSUME NEW s \in Requests, NEW u \in Requests,
                      0 < id'[s], id'[s] < id'[u], Opened(u)'
               PROVE  Opened(s)'
    BY DEF IdsRiseOnTheWire
  <2>1. u # r /\ Opened(u) BY <1>9, <1>10
  <2>2. s # r BY <1>2, <1>3, <1>4, <2>1 DEF WInv, Ids
  <2>3. QED BY <1>3, <1>9, <2>1, <2>2 DEF WInv, IdsRiseOnTheWire
<1>13. QED BY <1>8, <1>11, <1>12 DEF WireNext

LEMMA EncodeWire ==
    ASSUME WInv, NEW r \in Requests, TakeAndEncode(r)
    PROVE  WireNext
<1>1. /\ pc[r] = "registered" /\ buffer' = [buffer EXCEPT ![r] = output \o <<Headers(r)>>]
      /\ output' = <<>> /\ pc' = [pc EXCEPT ![r] = "sending"]
      /\ UNCHANGED <<id, nextId, peer, shut>>
  BY DEF TakeAndEncode, HeadersLast, streamVars
<1>2. r \in Numbered BY <1>1, NumberedThen DEF WInv, WithId
<1>3. Headers(r) \in FramesOn(Numbered) BY <1>2, FramesTyped
<1>4. PICK f \in FramesOn(Numbered) : f = Headers(r) BY <1>3
<1>5. \A s \in Requests \ {r} : pc'[s] = pc[s] BY <1>1, RequestIsThread DEF WInv, SInv, Stages
<1>6. pc'[r] = "sending" BY <1>1, RequestIsThread DEF WInv, SInv, Stages
<1>7. Numbered' = Numbered BY <1>1 DEF Numbered
<1>8. \A s \in Requests : pc'[s] \in Opening => pc[s] \in Opening
  BY <1>1, <1>5, <1>6 DEF Opening
<1>9. Ids' BY <1>1, <1>7, <1>8 DEF WInv, Ids
<1>10. \A s \in Requests : Opened(s)' <=> Opened(s) BY <1>1 DEF Opened
<1>11. IdsRiseOnTheWire' BY <1>1, <1>10 DEF WInv, IdsRiseOnTheWire
<1>12. PICK q : q = output \o <<f>> OBVIOUS
<1>13. q \in Seq(FramesOn(Numbered)) /\ Len(q) = Len(output) + 1 /\ q[Len(output) + 1] = f
  BY <1>12 DEF WInv, Wire
<1>14. buffer' = [buffer EXCEPT ![r] = q] BY <1>1, <1>4, <1>12
<1>15. About(f, r) BY <1>4 DEF Headers, Frame, About, StreamKinds
<1>16. \A s \in Requests : pc'[s] = "sending" => \E i \in 1..Len(buffer'[s]) : About(buffer'[s][i], s)
  <2>1. buffer'[r] = q BY <1>14, RequestIsThread DEF WInv, Wire
  <2>2. Len(output) \in Nat BY DEF WInv, Wire
  <2>3. Len(q) \in 1..Len(q) /\ q[Len(q)] = f BY <1>13, <2>2
  <2>4. \E i \in 1..Len(buffer'[r]) : About(buffer'[r][i], r) BY <1>15, <2>1, <2>3
  <2>5. \A s \in Requests \ {r} : pc'[s] # "sending"
    BY <1>1, <1>5, RequestIsThread DEF WInv, SInv, Holding, HoldingPlaces
  <2>6. QED BY <2>4, <2>5
<1>17. Wire'
  <2>1. output' \in Seq(FramesOn(Numbered)) /\ buffer' \in [Threads -> Seq(FramesOn(Numbered))]
    <3>1. buffer \in [Threads -> Seq(FramesOn(Numbered))] BY DEF WInv, Wire
    <3>2. <<>> \in Seq(FramesOn(Numbered)) OBVIOUS
    <3>3. QED BY <1>1, <1>13, <1>14, <3>1, <3>2
  <2>2. \A s \in Requests : id'[s] # 0 => shut' \/ Opened(s)' \/ pc'[s] \in Opening
    BY <1>1, <1>5, <1>6, <1>10 DEF WInv, Wire, Opening
  <2>3. QED BY <1>1, <1>7, <1>10, <1>16, <2>1, <2>2 DEF WInv, Wire
<1>18. QED BY <1>9, <1>11, <1>17 DEF WireNext

\* A frame the reader handles opens nothing: what the server says of a stream,
\* it says of one it has seen.
LEMMA HandledWire ==
    ASSUME WInv, NEW fatal, Receiving, Handled(fatal), PeerSame,
           output' = output \/ \E f \in FramesOn(Numbered) : output' = Append(output, f)
    PROVE  WireNext
<1>1. /\ pc[Reader] = "receive" /\ pc' = [pc EXCEPT ![Reader] = "handled"]
      /\ UNCHANGED <<id, nextId, buffer, shut>>
  BY DEF Receiving, Handled
<1>2. "handled" \in Places /\ "handled" \notin Opening /\ pc[Reader] \notin Opening
  BY <1>1 DEF Places, RequestPlaces, ReaderPlaces, CloserPlaces, BeforeId, WithId, Flushing, Opening
<1>3. Moved(Reader, "handled") BY <1>1, <1>2, OthersAreThreads, MovesOne DEF WInv, SInv
<1>4. QED BY <1>1, <1>2, <1>3, OthersAreThreads, WireStays DEF WInv, WireNext

LEMMA PeerOpen ==
    ASSUME WInv
    PROVE  PeerOk(peer) /\ \A r \in Requests : Opened(r) => r \in Numbered
BY DEF WInv, Wire, Numbered

LEMMA ReceiveWire ==
    ASSUME WInv, Receive
    PROVE  WireNext
<1>1. Wire BY DEF WInv
<1>2. ASSUME NEW s \in Settings, NewSettings(s) PROVE WireNext
  <2>1. Receiving /\ Handled(FALSE) /\ peer' = peer /\ output' = Append(output, Ack(s))
    BY <1>2 DEF NewSettings
  <2>2. Ack(s) \in FramesOn(Numbered) BY FramesTyped
  <2>3. QED BY <1>1, <2>1, <2>2, SamePeer, HandledWire
<1>3. CASE Ping
  <2>1. Receiving /\ Handled(FALSE) /\ peer' = peer /\ output' = Append(output, Pong)
    BY <1>3 DEF Ping
  <2>2. Pong \in FramesOn(Numbered) BY FramesTyped
  <2>3. QED BY <1>1, <2>1, <2>2, SamePeer, HandledWire
<1>4. ASSUME NEW r \in Requests \cup {None}, WindowUpdate(r) PROVE WireNext
  <2>1. Receiving /\ Handled(FALSE) /\ output' = output BY <1>4 DEF WindowUpdate
  <2>2. peer' = IF r = None THEN [peer EXCEPT !.allRoom = @ + 1] ELSE [peer EXCEPT !.room[r] = @ + 1]
    BY <1>4 DEF WindowUpdate
  <2>3. DOMAIN peer' = DOMAIN peer /\ peer'.stream = peer.stream BY <2>2, PeerOpen DEF PeerOk
  <2>4. PeerSame BY <2>3, PeerOpen DEF PeerOk, PeerSame
  <2>5. QED BY <2>1, <2>4, HandledWire
<1>5. ASSUME NEW r \in Requests, NEW end \in BOOLEAN, Response(r, end) PROVE WireNext
  <2>1. Receiving /\ Handled(FALSE) /\ peer' = peer /\ output' = output BY <1>5 DEF Response
  <2>2. QED BY <1>1, <2>1, SamePeer, HandledWire
<1>6. ASSUME NEW r \in Requests, StreamError(r) PROVE WireNext
  <2>1. /\ Receiving /\ Handled(FALSE) /\ peer' = peer /\ output' = Append(output, Rst(r))
        /\ r \in live
    BY <1>6 DEF StreamError
  <2>2. r \in Numbered BY <2>1 DEF WInv, SInv, Streams, Numbered
  <2>3. Rst(r) \in FramesOn(Numbered) BY <2>2, FramesTyped
  <2>4. QED BY <1>1, <2>1, <2>3, SamePeer, HandledWire
<1>7. ASSUME NEW r \in Requests, NEW code, ServerReset(r, code) PROVE WireNext
  <2>1. /\ Receiving /\ Handled(FALSE) /\ output' = output /\ Opened(r)
        /\ peer' = [peer EXCEPT !.stream[r] = "reset"]
    BY <1>7 DEF ServerReset
  <2>2. DOMAIN peer' = DOMAIN peer /\ peer'.stream = [peer.stream EXCEPT ![r] = "reset"]
    BY <2>1, PeerOpen DEF PeerOk
  <2>3. PeerSame BY <2>1, <2>2, PeerOpen DEF PeerOk, PeerSame, Opened, StreamStates
  <2>4. QED BY <2>1, <2>3, HandledWire
<1>8. ASSUME NEW last, NEW broken, PeerGoaway(last, broken) PROVE WireNext
  <2>1. Receiving /\ Handled(FALSE) /\ peer' = peer /\ output' = output BY <1>8 DEF PeerGoaway
  <2>2. QED BY <1>1, <2>1, SamePeer, HandledWire
<1>9. CASE ConnectionError
  <2>1. Receiving /\ Handled(TRUE) /\ peer' = peer /\ output' = Append(output, Goaway)
    BY <1>9 DEF ConnectionError
  <2>2. Goaway \in FramesOn(Numbered) BY FramesTyped
  <2>3. QED BY <1>1, <2>1, <2>2, SamePeer, HandledWire
<1>10. QED BY <1>2, <1>3, <1>4, <1>5, <1>6, <1>7, <1>8, <1>9 DEF Receive

LEMMA SessionWire ==
    ASSUME WInv, ReceiveDead \/ Lost \/ ReaderNotifies \/ ReaderLeaves \/ CloseShuts
    PROVE  WireNext
<1>1. UNCHANGED <<id, nextId, peer, output, buffer>> /\ (shut => shut')
  BY DEF ReceiveDead, Lost, ReaderNotifies, ReaderLeaves, CloseShuts, writeVars, streamVars
<1>2. PICK t \in {Reader, Closer}, x \in {"handled", "flush", "gone", "closed"} :
        /\ pc' = [pc EXCEPT ![t] = x] \/ pc' = [Notified EXCEPT ![t] = x]
        /\ pc[t] \in {"receive", "handled", "leave", "shutting"}
  BY DEF ReceiveDead, Lost, ReaderNotifies, ReaderLeaves, CloseShuts
<1>3. x \in Places /\ x \notin Opening /\ pc[t] \notin Opening BY <1>2 DEF Places, RequestPlaces, ReaderPlaces, CloserPlaces, BeforeId, WithId, Flushing, Opening
<1>4. QED BY <1>1, <1>2, <1>3, OthersAreThreads, QuietWire

LEMMA CloseWire ==
    ASSUME WInv, Close
    PROVE  WireNext
<1>1. UNCHANGED <<id, nextId, peer, shut>> /\ pc[Closer] = "idle" BY DEF Close
<1>2. PICK x \in {"closing", "shutting"} : pc' = [pc EXCEPT ![Closer] = x]
  BY DEF Close, Acquire
<1>3. x \in Places /\ x \notin Opening /\ pc[Closer] \notin Opening BY <1>1 DEF Places, RequestPlaces, ReaderPlaces, CloserPlaces, BeforeId, WithId, Flushing, Opening
<1>4. Goaway \in FramesOn(Numbered) BY FramesTyped
<1>5. <<>> \in Seq(FramesOn(Numbered)) /\ <<Goaway>> \in Seq(FramesOn(Numbered)) BY <1>4
<1>6. /\ output' \in {output, <<>>}
      /\ \/ buffer' = buffer
         \/ \E own \in Seq(FramesOn(Numbered)) : buffer' = [buffer EXCEPT ![Closer] = output \o own]
  <2>1. CASE writer = None
    <3>1. output' = <<>> BY <2>1 DEF Close, Acquire
    <3>2. PICK own : /\ own = IF dead THEN <<>> ELSE <<Goaway>>
                     /\ buffer' = [buffer EXCEPT ![Closer] = output \o own]
      BY <2>1 DEF Close, Acquire, Taken
    <3>3. own \in Seq(FramesOn(Numbered)) BY <1>5, <3>2
    <3>4. QED BY <3>1, <3>2, <3>3
  <2>2. CASE writer # None BY <2>2 DEF Close
  <2>3. QED BY <2>1, <2>2
<1>7. QED BY <1>1, <1>2, <1>3, <1>6, OthersAreThreads, QuietWire

\* A step that is only the network's or the server's own.
LEMMA WireStutters ==
    ASSUME WInv, UNCHANGED <<pc, id, nextId, peer, output, buffer>>, shut => shut'
    PROVE  WireNext
<1>1. Numbered' = Numbered BY DEF Numbered
<1>2. Ids' BY <1>1 DEF WInv, Ids
<1>3. \A r \in Requests : Opened(r)' <=> Opened(r) BY DEF Opened
<1>4. Wire' BY <1>1, <1>3 DEF WInv, Wire
<1>5. IdsRiseOnTheWire' BY <1>3 DEF WInv, IdsRiseOnTheWire
<1>6. QED BY <1>2, <1>4, <1>5 DEF WireNext

LEMMA WireInit == Init => WInv
<1> SUFFICES ASSUME Init PROVE WInv OBVIOUS
<1>1. SInv BY StructureInit
<1>2. Amounts BY SettingsAssumption, BoundsAssumption DEF Init, Amounts, Speaks
<1>3. Numbered = {} BY DEF Init, Numbered
<1>4. Ids
  <2>1. nextId = 1 /\ \A r \in Requests : id[r] = 0 /\ pc[r] = "slot"
    BY RequestIsThread DEF Init
  <2>2. QED BY <1>3, <2>1, FS_EmptySet, BoundsAssumption DEF Ids, Opening
<1>5. \A r \in Requests : ~ Opened(r) BY DEF Init, Opened
<1>6. Wire
  <2>1. PeerOk(peer) BY DEF Init, PeerOk, StreamStates
  <2>2. output \in Seq(FramesOn(Numbered)) /\ buffer \in [Threads -> Seq(FramesOn(Numbered))]
    BY DEF Init
  <2>3. \A r \in Requests : id[r] = 0 /\ pc[r] = "slot" BY RequestIsThread DEF Init
  <2>4. QED BY <1>5, <2>1, <2>2, <2>3 DEF Wire
<1>7. IdsRiseOnTheWire BY <1>5 DEF IdsRiseOnTheWire
<1>8. QED BY <1>1, <1>2, <1>4, <1>6, <1>7 DEF WInv

LEMMA WireKept == WInv /\ [Next]_vars => WInv'
<1> SUFFICES ASSUME WInv, [Next]_vars PROVE WInv' OBVIOUS
<1>1. SInv' BY StructureKept DEF WInv
<1>2. Amounts' BY AmountsKept DEF WInv
<1>3. WireNext
  <2>1. ASSUME NEW r \in Requests, RequestStep(r) PROVE WireNext
    BY <2>1, RequestWire, RegisterWire, EncodeWire, SendWire, DataWire, ResetWire, FlushWire
    DEF RequestStep, Flushers
  <2>2. CASE FlushStep(Reader) BY <2>2, FlushWire DEF Flushers
  <2>3. ASSUME NEW r \in Requests, Act(r) PROVE WireNext
    BY <2>3, WireStutters DEF Act, streamVars, writeVars
  <2>4. CASE ConnectionFails BY <2>4, WireStutters DEF ConnectionFails, streamVars, writeVars
  <2>5. CASE UNCHANGED vars BY <2>5, WireStutters DEF vars, streamVars, writeVars
  <2>6. QED
    BY <2>1, <2>2, <2>3, <2>4, <2>5, ReceiveWire, SessionWire, CloseWire, CloserWrites
    DEF Next, Over
<1>4. QED BY <1>1, <1>2, <1>3 DEF WInv, WireNext

\* What is on the wire is in order throughout.
THEOREM WireInvariant == Spec => []WInv
<1>1. QED BY WireInit, WireKept, PTL DEF Spec

\* The server sees streams open in the order of their ids, whoever writes and
\* wherever a connection goes down.
THEOREM IdsRise == Spec => []IdsRiseOnTheWire
<1>1. WInv => IdsRiseOnTheWire BY DEF WInv
<1>2. QED BY <1>1, WireInvariant, PTL

\* The state keeps its types: the window of the connection never goes below
\* zero, no more of a body goes than there is, and no more slots are taken than
\* there are requests.
THEOREM SessionTypes == Spec => []TypeOK
<1>1. WInv => TypeOK
  <2> SUFFICES ASSUME WInv PROVE TypeOK OBVIOUS
  <2>1. SInv /\ Stages /\ Streams /\ Holding /\ Slots /\ Amounts /\ Ids BY DEF WInv, SInv
  <2>2. open \in 0..Cardinality(Requests)
    <3>1. live \cap Slotted = {}
      BY <2>1, PlacesApart DEF Streams, Slotted
    <3>2. /\ IsFiniteSet(live) /\ IsFiniteSet(Slotted) /\ live \cup Slotted \subseteq Requests
          /\ Cardinality(live) \in Nat /\ Cardinality(Slotted) \in Nat
      BY <2>1, StreamsFinite DEF Slotted
    <3>3. Cardinality(live \cup Slotted) =
            Cardinality(live) + Cardinality(Slotted) - Cardinality(live \cap Slotted)
      BY <3>2, FS_Union
    <3>4. Cardinality(live \cap Slotted) = 0 BY <3>1, FS_EmptySet
    <3>5. Cardinality(live \cup Slotted) <= Cardinality(Requests)
      BY <3>2, RequestsAssumption, FS_Subset
    <3>6. Cardinality(Requests) \in Nat BY RequestsAssumption, FS_CardinalityType
    <3>7. open = Cardinality(live) + Cardinality(Slotted) BY <2>1 DEF Slots
    <3>8. QED BY <3>2, <3>3, <3>4, <3>5, <3>6, <3>7
  <2>3. id \in [Requests -> 0..MaxId] /\ nextId \in 1..MaxId + 1
    <3>1. id \in [Requests -> Nat] /\ nextId \in Nat \ {0} BY <2>1 DEF Streams
    <3>2. nextId <= MaxId + 1 /\ \A r \in Requests : id[r] < nextId BY <2>1 DEF Ids
    <3>3. QED BY <3>1, <3>2, BoundsAssumption
  <2>4. at \in [Requests -> 0..BodySize]
    <3>1. \A r \in Requests : at[r] \in 0..BodySize
      BY <2>1, BoundsAssumption DEF Amounts
    <3>2. QED BY <2>1, <3>1 DEF Amounts
  <2>5. writer \in Threads \cup {None} /\ live \subseteq Requests /\ sendWindow \in Nat
    BY <2>1 DEF Holding, Streams, Amounts
  <2>6. outcome \in [Requests -> {"none", "Done", "Retry", "ProtocolFailure", "Failed"}]
    BY <2>1 DEF Streams, Outcomes
  <2>7. QED BY <2>2, <2>3, <2>4, <2>5, <2>6 DEF TypeOK
<1>2. QED BY <1>1, WireInvariant, PTL

-----------------------------------------------------------------------------
(* Which requests may go again.  A session that runs out of ids goes away  *)
(* with m_goaway_last at 0, and the server's first GOAWAY then ends every  *)
(* stream as one that was never processed: what follows is about sessions  *)
(* that have an id for each of their requests.                             *)

IdsSuffice == Cardinality(Requests) <= MaxId

\* The server keeps its word: it acts on what it has seen, and never on what
\* it said it would not.
Word ==
    /\ acted \subseteq Requests /\ acted \cap forsworn = {}
    /\ \A r \in acted : Opened(r)
    /\ goawayLast \in Nat
    /\ goingAway => \A r \in Requests : id[r] = 0 \/ id[r] > goawayLast => r \in forsworn

\* Why a request may go again: doing it twice does no harm, the server never
\* will, it was never sent, or the server never said it speaks HTTP/2.
Excused(r) == r \in Replayable \/ r \in forsworn \/ id[r] = 0 \/ (dead /\ ~settingsReceived)
Told == \A r \in Requests : Resent(r) => Excused(r)

RInv == WInv /\ Word /\ Told

\* A request without an id still finds one.
LEMMA IdsAreLeft ==
    ASSUME IdsSuffice, WInv, NEW r \in Requests, id[r] = 0
    PROVE  ~ OutOfIds
<1>1. Numbered \subseteq Requests \ {r} BY DEF Numbered
<1>2. IsFiniteSet(Requests \ {r}) /\ Cardinality(Requests \ {r}) = Cardinality(Requests) - 1
  BY RequestsAssumption, FS_RemoveElement
<1>3. Cardinality(Numbered) <= Cardinality(Requests \ {r}) BY <1>1, <1>2, FS_Subset
<1>4. IsFiniteSet(Numbered) BY <1>1, <1>2, FS_Subset
<1>5. Cardinality(Numbered) \in Nat /\ Cardinality(Requests) \in Nat
  BY <1>4, RequestsAssumption, FS_CardinalityType
<1>6. nextId - 1 = Cardinality(Numbered) /\ nextId \in Nat BY DEF WInv, Ids, SInv, Streams
<1>7. nextId <= MaxId BY <1>2, <1>3, <1>5, <1>6, BoundsAssumption DEF IdsSuffice
<1>8. QED BY <1>6, <1>7, BoundsAssumption DEF OutOfIds

\* A stream the server has seen it has seen for good.
LEMMA OpenedByWrite ==
    ASSUME WInv, NEW t \in Threads, peer' = Sent(t), NEW r \in Requests, Opened(r)
    PROVE  Opened(r)'
<1>1. CASE shut BY <1>1 DEF Sent, Opened
<1>2. CASE ~shut
  <2>1. Numbered \subseteq Requests BY DEF Numbered
  <2>2. buffer[t] \in Seq(FramesOn(Requests)) BY <2>1, FramesGrow DEF WInv, Wire
  <2>3. Sent(t).stream[r] # "idle" BY <1>2, <2>2, SentOpens DEF WInv, Wire
  <2>4. QED BY <2>3 DEF Opened
<1>3. QED BY <1>1, <1>2

LEMMA OpenedStays ==
    ASSUME WInv, [Next]_vars, NEW r \in Requests, Opened(r)
    PROVE  Opened(r)'
<1>1. CASE peer' = peer BY <1>1 DEF Opened
<1>2. ASSUME NEW s \in Requests, RequestStep(s) PROVE Opened(r)'
  <2>1. CASE SendHeaders(s) \/ SendData(s) \/ FlushSend(s)
    <3>1. peer' = Sent(s) BY <2>1 DEF SendHeaders, SendData, FlushSend
    <3>2. QED BY <3>1, RequestIsThread, OpenedByWrite
  <2>2. CASE ~ (SendHeaders(s) \/ SendData(s) \/ FlushSend(s))
    BY <1>1, <1>2, <2>2
    DEF RequestStep, Slot, LockWrite, Unregistered, Register, TakeAndEncode, ReserveChunk,
        TakeAndWrite, BodyOver, CloseOurSide, Stall, Return, FlushStep, Flush, FlushLook
  <2>3. QED BY <2>1, <2>2
<1>3. CASE FlushStep(Reader)
  <2>1. CASE FlushSend(Reader) BY <2>1, OthersAreThreads, OpenedByWrite DEF FlushSend
  <2>2. CASE Flush(Reader) \/ FlushLook(Reader) BY <1>1, <2>2 DEF Flush, FlushLook
  <2>3. QED BY <1>3, <2>1, <2>2 DEF FlushStep
<1>4. CASE Receive
  <2>1. ASSUME NEW s \in Requests \cup {None}, WindowUpdate(s) PROVE Opened(r)'
    <3>1. peer' = IF s = None THEN [peer EXCEPT !.allRoom = @ + 1] ELSE [peer EXCEPT !.room[s] = @ + 1]
      BY <2>1 DEF WindowUpdate
    <3>2. peer'.stream = peer.stream BY <3>1, PeerOpen DEF PeerOk
    <3>3. QED BY <3>2 DEF Opened
  <2>2. ASSUME NEW s \in Requests, NEW code, ServerReset(s, code) PROVE Opened(r)'
    <3>1. peer' = [peer EXCEPT !.stream[s] = "reset"] BY <2>2 DEF ServerReset
    <3>2. peer'.stream = [peer.stream EXCEPT ![s] = "reset"] BY <3>1, PeerOpen DEF PeerOk
    <3>3. QED BY <3>2, PeerOpen DEF Opened, PeerOk
  <2>3. CASE ~ \/ \E s \in Requests \cup {None} : WindowUpdate(s)
               \/ \E s \in Requests, code \in {"refused", "http11", "broken", "other"} : ServerReset(s, code)
    BY <1>1, <1>4, <2>3
    DEF Receive, NewSettings, Ping, Response, StreamError, PeerGoaway, ConnectionError
  <2>4. QED BY <2>1, <2>2, <2>3
<1>5. CASE CloseSends BY <1>5, OthersAreThreads, OpenedByWrite DEF CloseSends
<1>6. CASE \/ ReceiveDead \/ Lost \/ ConnectionFails \/ ReaderNotifies \/ ReaderLeaves
          \/ Close \/ CloseShuts
  BY <1>1, <1>6 DEF ReceiveDead, Lost, ConnectionFails, ReaderNotifies, ReaderLeaves, Close, CloseShuts
<1>7. ASSUME NEW s \in Requests, Act(s) PROVE Opened(r)' BY <1>1, <1>7 DEF Act
<1>8. CASE UNCHANGED vars BY <1>1, <1>8 DEF vars
<1>9. QED BY <1>2, <1>3, <1>4, <1>5, <1>6, <1>7, <1>8 DEF Next, Over

\* The server says nothing new.
LEMMA WordStays ==
    ASSUME RInv, [Next]_vars, UNCHANGED <<acted, forsworn, goingAway, goawayLast, id>>
    PROVE  Word'
<1>1. \A r \in acted : Opened(r)' BY OpenedStays DEF RInv, Word
<1>2. QED BY <1>1 DEF RInv, Word

\* A request told to go again has its reason, and it stays.
LEMMA ToldStays ==
    ASSUME RInv, forsworn \subseteq forsworn',
           \A r \in Requests : Resent(r) /\ id[r] = 0 => id'[r] = 0,
           dead /\ ~settingsReceived => dead' /\ ~settingsReceived',
           \A r \in Requests : Resent(r)' => Resent(r) \/ Excused(r)'
    PROVE  Told'
<1>1. \A r \in Requests : Resent(r) => Excused(r)' BY DEF RInv, Told, Excused
<1>2. QED BY <1>1 DEF Told

\* A step that leaves the server's word, the results and the session alone.
LEMMA ReplayQuiet ==
    ASSUME RInv, [Next]_vars,
           UNCHANGED <<acted, forsworn, goingAway, goawayLast, id, outcome, settingsReceived>>,
           dead => dead'
    PROVE  Word' /\ Told'
<1>1. Word' BY WordStays
<1>2. Told' BY ToldStays DEF Resent
<1>3. QED BY <1>1, <1>2

\* A request refused before it had an id was never sent.
LEMMA ReplayRefused ==
    ASSUME RInv, [Next]_vars, NEW r \in Requests, id[r] = 0,
           UNCHANGED <<acted, forsworn, goingAway, goawayLast, id, dead, settingsReceived>>,
           \A s \in Requests \ {r} : outcome'[s] = outcome[s]
    PROVE  Word' /\ Told'
<1>1. Word' BY WordStays
<1>2. \A s \in Requests : Resent(s)' => Resent(s) \/ Excused(s)' BY DEF Resent, Excused
<1>3. Told' BY <1>2, ToldStays
<1>4. QED BY <1>1, <1>3

\* Some streams end, each told what the step may tell it.
LEMMA ToldEnds ==
    ASSUME RInv, NEW D, EndStreams(D), forsworn \subseteq forsworn', id' = id,
           dead /\ ~settingsReceived => dead' /\ ~settingsReceived',
           \A r \in DOMAIN D : D[r] \in {"Retry", "ProtocolFailure"} => Excused(r)'
    PROVE  Told'
<1>1. \A r \in Requests : outcome'[r] = IF r \in DOMAIN D THEN D[r] ELSE outcome[r]
  BY DEF EndStreams
<1>2. \A r \in Requests : Resent(r)' => Resent(r) \/ Excused(r)' BY <1>1 DEF Resent
<1>3. QED BY <1>2, ToldStays

\* unanswered() has only those go again for which it does no harm, or whose
\* server has not spoken HTTP/2.
LEMMA UnansweredExcused ==
    ASSUME NEW r, NEW broken, Unanswered(r, broken) \in {"Retry", "ProtocolFailure"}
    PROVE  r \in Replayable \/ ~settingsReceived
BY DEF Unanswered

LEMMA ReplayRequest ==
    ASSUME IdsSuffice, RInv, [Next]_vars, NEW r \in Requests, RequestStep(r)
    PROVE  Word' /\ Told'
<1>1. WInv /\ Streams /\ Word BY DEF RInv, WInv, SInv
<1>2. CASE Slot(r)
  <2>1. id[r] = 0 BY <1>1, <1>2 DEF Slot, Streams, BeforeId
  <2>2. \A s \in Requests \ {r} : outcome'[s] = outcome[s] BY <1>1, <1>2 DEF Slot, Streams
  <2>3. QED BY <1>2, <2>1, <2>2, ReplayRefused DEF Slot, sessionVars, serverVars
<1>3. CASE Unregistered(r)
  <2>1. id[r] = 0 BY <1>1, <1>3 DEF Unregistered, Streams, BeforeId
  <2>2. goingAway' = goingAway
    <3>1. ~ OutOfIds BY <1>1, <2>1, IdsAreLeft
    <3>2. goingAway \in BOOLEAN BY <1>1 DEF WInv, SInv, Dead
    <3>3. QED BY <1>3, <3>1, <3>2 DEF Unregistered
  <2>3. \A s \in Requests \ {r} : outcome'[s] = outcome[s]
    BY <1>1, <1>3 DEF Unregistered, Refuse, Streams
  <2>4. QED BY <1>3, <2>1, <2>2, <2>3, ReplayRefused DEF Unregistered, serverVars
<1>4. CASE Register(r)
  <2>1. /\ ~goingAway /\ pc[r] = "locked" /\ id' = [id EXCEPT ![r] = nextId]
        /\ UNCHANGED <<acted, forsworn, goingAway, goawayLast, outcome, dead, settingsReceived>>
    BY <1>4 DEF Register, GoneSince, sessionVars, serverVars
  <2>2. outcome[r] = "none" BY <1>1, <2>1 DEF Streams, BeforeId
  <2>3. \A s \in Requests \ {r} : id'[s] = id[s] BY <1>1, <2>1 DEF Streams
  <2>4. Word'
    <3>1. \A s \in acted : Opened(s)' BY <1>1, OpenedStays DEF Word
    <3>2. QED BY <1>1, <2>1, <3>1 DEF Word
  <2>5. Told' BY <2>1, <2>2, <2>3, ToldStays DEF Resent
  <2>6. QED BY <2>4, <2>5
<1>5. CASE Stall(r)
  <2>1. /\ EndStreams([x \in {r} |-> "Failed"])
        /\ UNCHANGED <<acted, forsworn, goingAway, goawayLast, id, dead, settingsReceived>>
    BY <1>5 DEF Stall, sessionVars, serverVars
  <2>2. PICK D : D = [x \in {r} |-> "Failed"] OBVIOUS
  <2>3. \A s \in DOMAIN D : D[s] \notin {"Retry", "ProtocolFailure"} BY <2>2
  <2>4. EndStreams(D) BY <2>1, <2>2
  <2>5. Told' BY <2>1, <2>3, <2>4, ToldEnds
  <2>6. QED BY <2>1, <2>5, WordStays
<1>6. CASE FlushStep(r)
  BY <1>6, ReplayQuiet DEF FlushStep, Flush, FlushSend, FlushLook, streamVars, sessionVars, serverVars
<1>7. CASE \/ LockWrite(r) \/ TakeAndEncode(r) \/ SendHeaders(r) \/ ReserveChunk(r)
          \/ TakeAndWrite(r) \/ SendData(r) \/ BodyOver(r) \/ CloseOurSide(r) \/ Return(r)
  BY <1>7, ReplayQuiet
  DEF LockWrite, TakeAndEncode, SendHeaders, ReserveChunk, TakeAndWrite, SendData, BodyOver,
      CloseOurSide, Return, streamVars, sessionVars, serverVars
<1>8. QED BY <1>2, <1>3, <1>4, <1>5, <1>6, <1>7 DEF RequestStep

\* GOAWAY: the streams past the last one the server names are ones it never
\* processes.
LEMMA ReplayGoaway ==
    ASSUME RInv, [Next]_vars, NEW last \in 0..nextId - 1, NEW broken \in BOOLEAN, PeerGoaway(last, broken)
    PROVE  Word' /\ Told'
<1>1. WInv /\ Streams /\ Word /\ Wire BY DEF RInv, WInv, SInv
<1>2. nextId \in Nat /\ last \in Nat /\ id \in [Requests -> Nat] /\ goawayLast \in Nat
  BY <1>1 DEF Streams, Word
<1>3. PICK g : g = GoawayLast(last) OBVIOUS
<1>4. g \in Nat /\ g <= last /\ (g = last \/ (goingAway /\ g = goawayLast))
  BY <1>2, <1>3 DEF GoawayLast, Smaller
<1>5. /\ goingAway' = TRUE /\ goawayLast' = g /\ ~dead /\ UNCHANGED <<acted, id, settingsReceived>>
      /\ forsworn' = forsworn \cup {r \in Requests : id[r] = 0 \/ id[r] > last}
      /\ \A r \in acted : id[r] <= last
  BY <1>3 DEF PeerGoaway, Receiving, Handled
<1>6. \A r \in Requests : id[r] = 0 \/ id[r] > g => r \in forsworn'
  BY <1>1, <1>2, <1>4, <1>5 DEF Word
<1>7. acted \cap forsworn' = {}
  <2>1. \A r \in acted : r \in Requests /\ id[r] # 0 BY <1>1 DEF Word, Wire
  <2>2. QED BY <1>1, <1>2, <1>5, <2>1 DEF Word
<1>8. \A r \in acted : Opened(r)' BY <1>1, OpenedStays DEF Word
<1>9. Word' BY <1>1, <1>4, <1>5, <1>6, <1>7, <1>8 DEF Word
<1>10. PICK o : o = IF broken THEN "ProtocolFailure" ELSE "Retry" OBVIOUS
<1>11. PICK S : S = Past(g) OBVIOUS
<1>12. PICK D : D = [r \in S |-> o] OBVIOUS
<1>13. EndStreams(D) BY <1>3, <1>10, <1>11, <1>12 DEF PeerGoaway
<1>14. \A r \in DOMAIN D : r \in Requests /\ id[r] > g BY <1>1, <1>11, <1>12 DEF Past, Streams
<1>15. \A r \in DOMAIN D : Excused(r)' BY <1>6, <1>14 DEF Excused
<1>16. Told' BY <1>5, <1>13, <1>15, ToldEnds
<1>17. QED BY <1>9, <1>16

\* A session that ends under its streams.
LEMMA ReplayEnd ==
    ASSUME RInv, [Next]_vars, dead', NEW broken,
           IF dead THEN UNCHANGED outcome ELSE EndStreams(AllUnanswered(broken)),
           UNCHANGED <<acted, forsworn, goingAway, goawayLast, id, settingsReceived>>
    PROVE  Word' /\ Told'
<1>1. Word' BY WordStays
<1>2. CASE dead BY <1>1, <1>2, ReplayQuiet
<1>3. CASE ~dead
  <2>1. PICK D : D = AllUnanswered(broken) OBVIOUS
  <2>2. EndStreams(D) BY <1>3, <2>1
  <2>3. \A r \in DOMAIN D : D[r] = Unanswered(r, broken) BY <2>1 DEF AllUnanswered
  <2>4. \A r \in DOMAIN D : D[r] \in {"Retry", "ProtocolFailure"} => Excused(r)'
    BY <2>3, UnansweredExcused DEF Excused
  <2>5. Told' BY <1>3, <2>2, <2>4, ToldEnds
  <2>6. QED BY <1>1, <2>5
<1>4. QED BY <1>2, <1>3

LEMMA ReplayReceive ==
    ASSUME RInv, [Next]_vars, Receive
    PROVE  Word' /\ Told'
<1>1. WInv /\ Streams /\ Word /\ Told BY DEF RInv, WInv, SInv
<1>2. \A r \in Requests : Opened(r) => Opened(r)' BY <1>1, OpenedStays
<1>3. ASSUME NEW s \in Settings, NewSettings(s) PROVE Word' /\ Told'
  <2>1. UNCHANGED <<acted, forsworn, goingAway, goawayLast, id, outcome>> /\ ~dead
    BY <1>3 DEF NewSettings, Receiving, Handled
  <2>2. Told' BY <2>1, ToldStays DEF Resent
  <2>3. QED BY <2>1, <2>2, WordStays
<1>4. ASSUME NEW r, Ping \/ WindowUpdate(r) PROVE Word' /\ Told'
  <2>1. /\ UNCHANGED <<acted, forsworn, goingAway, goawayLast, id, outcome, settingsReceived>>
        /\ ~dead
    BY <1>4 DEF Ping, WindowUpdate, Receiving, Handled
  <2>2. QED BY <2>1, ReplayQuiet
<1>5. ASSUME NEW r \in Requests, NEW end \in BOOLEAN, Response(r, end) PROVE Word' /\ Told'
  <2>1. /\ Opened(r) /\ r \notin forsworn /\ acted' = acted \cup {r} /\ ~dead
        /\ UNCHANGED <<forsworn, goingAway, goawayLast, id, settingsReceived>>
    BY <1>5 DEF Response, Receiving, Handled
  <2>2. Word' BY <1>1, <1>2, <2>1 DEF Word
  <2>3. CASE end /\ r \in live
    <3>1. PICK D : D = [x \in {r} |-> "Done"] OBVIOUS
    <3>2. EndStreams(D) BY <1>5, <2>3, <3>1 DEF Response
    <3>3. \A s \in DOMAIN D : D[s] \notin {"Retry", "ProtocolFailure"} BY <3>1
    <3>4. QED BY <2>1, <2>2, <3>2, <3>3, ToldEnds
  <2>4. CASE ~ (end /\ r \in live)
    <3>1. outcome' = outcome BY <1>5, <2>4 DEF Response
    <3>2. Told' BY <2>1, <3>1, ToldStays DEF Resent
    <3>3. QED BY <2>2, <3>2
  <2>5. QED BY <2>3, <2>4
<1>6. ASSUME NEW r \in Requests, StreamError(r) PROVE Word' /\ Told'
  <2>1. /\ EndStreams([x \in {r} |-> "Failed"]) /\ ~dead
        /\ UNCHANGED <<acted, forsworn, goingAway, goawayLast, id, settingsReceived>>
    BY <1>6 DEF StreamError, Receiving, Handled, serverVars
  <2>2. PICK D : D = [x \in {r} |-> "Failed"] OBVIOUS
  <2>3. EndStreams(D) BY <2>1, <2>2
  <2>4. \A s \in DOMAIN D : D[s] \notin {"Retry", "ProtocolFailure"} BY <2>2
  <2>5. Told' BY <2>1, <2>3, <2>4, ToldEnds
  <2>6. QED BY <2>1, <2>5, WordStays
<1>7. ASSUME NEW r \in Requests, NEW code \in {"refused", "http11", "broken", "other"},
             ServerReset(r, code)
      PROVE  Word' /\ Told'
  <2>1. /\ settingsReceived /\ ~dead /\ UNCHANGED <<acted, goingAway, goawayLast, id, settingsReceived>>
        /\ code \in {"refused", "http11"} => r \notin acted
        /\ forsworn' = IF code \in {"refused", "http11"} THEN forsworn \cup {r} ELSE forsworn
    BY <1>7 DEF ServerReset, Receiving, Handled
  <2>2. forsworn \subseteq forsworn' /\ acted \cap forsworn' = {} BY <1>1, <2>1 DEF Word
  <2>3. Word' BY <1>1, <1>2, <2>1, <2>2 DEF Word
  <2>4. CASE r \in live
    <3>1. PICK o : o = ResetOutcome(r, code) OBVIOUS
    <3>2. PICK D : D = [x \in {r} |-> o] OBVIOUS
    <3>3. EndStreams(D) BY <1>7, <2>4, <3>1, <3>2 DEF ServerReset
    <3>4. o \in {"Retry", "ProtocolFailure"} => r \in Replayable \/ r \in forsworn'
      <4>1. CASE code \in {"refused", "http11"} BY <2>1, <4>1
      <4>2. CASE code = "broken"
        <5>1. PICK broken : broken = TRUE OBVIOUS
        <5>2. o = Unanswered(r, broken) BY <3>1, <4>2, <5>1 DEF ResetOutcome
        <5>3. QED BY <2>1, <5>2, UnansweredExcused
      <4>3. CASE code = "other" BY <3>1, <4>3 DEF ResetOutcome
      <4>4. QED BY <4>1, <4>2, <4>3
    <3>5. \A s \in DOMAIN D : D[s] \in {"Retry", "ProtocolFailure"} => Excused(s)'
      BY <3>2, <3>4 DEF Excused
    <3>6. QED BY <2>1, <2>2, <2>3, <3>3, <3>5, ToldEnds
  <2>5. CASE r \notin live
    <3>1. outcome' = outcome BY <1>7, <2>5 DEF ServerReset
    <3>2. Told' BY <2>1, <2>2, <3>1, ToldStays DEF Resent
    <3>3. QED BY <2>3, <3>2
  <2>6. QED BY <2>4, <2>5
<1>8. CASE ConnectionError
  <2>1. /\ EndStreams(AllUnanswered(TRUE)) /\ ~dead /\ dead'
        /\ UNCHANGED <<acted, forsworn, goingAway, goawayLast, id, settingsReceived>>
    BY <1>8 DEF ConnectionError, Receiving, Handled, serverVars
  <2>2. PICK broken : broken = TRUE OBVIOUS
  <2>3. EndStreams(AllUnanswered(broken)) BY <2>1, <2>2
  <2>4. QED BY <2>1, <2>3, ReplayEnd
<1>9. QED BY <1>3, <1>4, <1>5, <1>6, <1>7, <1>8, ReplayGoaway DEF Receive

LEMMA ReplayKept == ASSUME IdsSuffice PROVE RInv /\ [Next]_vars => RInv'
<1> SUFFICES ASSUME RInv, [Next]_vars PROVE RInv' OBVIOUS
<1>1. WInv' BY WireKept DEF RInv
<1>2. Word' /\ Told'
  <2>1. ASSUME NEW r \in Requests, RequestStep(r) PROVE Word' /\ Told' BY <2>1, ReplayRequest
  <2>2. ASSUME NEW r \in Requests, Act(r) PROVE Word' /\ Told'
    <3>1. /\ Opened(r) /\ r \notin forsworn /\ acted' = acted \cup {r}
          /\ UNCHANGED <<forsworn, goingAway, goawayLast, id, outcome, dead, settingsReceived, peer>>
      BY <2>2 DEF Act, streamVars, sessionVars
    <3>2. \A s \in Requests : Opened(s)' <=> Opened(s) BY <3>1 DEF Opened
    <3>3. Word' BY <3>1, <3>2 DEF RInv, Word
    <3>4. Told' BY <3>1, ToldStays DEF Resent
    <3>5. QED BY <3>3, <3>4
  <2>3. CASE Lost
    <3>1. /\ dead' = TRUE
          /\ UNCHANGED <<acted, forsworn, goingAway, goawayLast, id, settingsReceived>>
      BY <2>3 DEF Lost, serverVars
    <3>2. PICK broken : broken = protocolFailure' OBVIOUS
    <3>3. IF dead THEN UNCHANGED outcome ELSE EndStreams(AllUnanswered(broken))
      BY <2>3, <3>2 DEF Lost
    <3>4. QED BY <3>1, <3>3, ReplayEnd
  <2>4. CASE Close
    <3>1. /\ dead' = TRUE
          /\ UNCHANGED <<acted, forsworn, goingAway, goawayLast, id, settingsReceived>>
          /\ IF dead THEN UNCHANGED outcome ELSE EndStreams(AllUnanswered(FALSE))
      BY <2>4 DEF Close, serverVars
    <3>2. QED BY <3>1, ReplayEnd
  <2>5. CASE FlushStep(Reader)
    BY <2>5, ReplayQuiet DEF FlushStep, Flush, FlushSend, FlushLook, streamVars, sessionVars, serverVars
  <2>6. CASE ReceiveDead \/ ConnectionFails \/ ReaderNotifies \/ ReaderLeaves \/ CloseSends \/ CloseShuts
    BY <2>6, ReplayQuiet
    DEF ReceiveDead, ConnectionFails, ReaderNotifies, ReaderLeaves, CloseSends, CloseShuts,
        streamVars, sessionVars, serverVars
  <2>7. CASE UNCHANGED vars BY <2>7, ReplayQuiet DEF vars, streamVars, sessionVars, serverVars
  <2>8. QED BY <2>1, <2>2, <2>3, <2>4, <2>5, <2>6, <2>7, ReplayReceive DEF Next, Over
<1>3. QED BY <1>1, <1>2 DEF RInv

LEMMA ReplayInit == Init => RInv
<1> SUFFICES ASSUME Init PROVE RInv OBVIOUS
<1>1. WInv BY WireInit
<1>2. Word BY DEF Init, Word
<1>3. Told BY DEF Init, Told, Resent
<1>4. QED BY <1>1, <1>2, <1>3 DEF RInv

\* A request goes out again only when the server never acts on it, it may be done
\* twice, or the session ended before the server's SETTINGS: whatever the order
\* of resets, GOAWAYs, lost connections and answers, as long as the session has
\* an id for each request.
THEOREM ReplaySafe == ASSUME IdsSuffice PROVE Spec => []ReplayIsSafe
<1>1. RInv => ReplayIsSafe
  <2> SUFFICES ASSUME RInv, NEW r \in acted, Resent(r)
               PROVE  r \in Replayable \/ ~settingsReceived
    BY DEF ReplayIsSafe
  <2>1. r \in Requests /\ Opened(r) /\ r \notin forsworn BY DEF RInv, Word
  <2>2. id[r] # 0 BY <2>1 DEF RInv, WInv, Wire
  <2>3. QED BY <2>1, <2>2 DEF RInv, Told, Excused
<1>2. QED BY <1>1, ReplayInit, ReplayKept, PTL DEF Spec

-----------------------------------------------------------------------------
(* What a list of frames tells the server: the settings acknowledged, the  *)
(* streams withdrawn, and the room it has left this side.                  *)

PeerStates ==
    [stream: [Requests -> StreamStates], room: [Requests -> Int], allRoom: Int, acked: Speaks,
     overrun: BOOLEAN, crowded: BOOLEAN]

\* What the reader may owe: anything but a request.
Owed(f) == /\ f.kind \in {"RST_STREAM"} \cup OtherKinds
           /\ f.kind = "SETTINGS" => f.says \in Settings
Owes(fs) == \A i \in 1..Len(fs) : Owed(fs[i])
EndsWith(fs, f) == fs # <<>> /\ fs[Len(fs)] = f /\ \A i \in 1..Len(fs) - 1 : Owed(fs[i])

\* The first n frames take the settings acknowledged from a to b.
Says(fs, n, a, b) ==
    \/ b = a /\ \A i \in 1..n : fs[i].kind # "SETTINGS"
    \/ \E i \in 1..n : /\ fs[i].kind = "SETTINGS" /\ fs[i].says = b
                       /\ \A j \in i + 1..n : fs[j].kind # "SETTINGS"

\* One of the first n frames resets the stream.
Withdrawn(r, fs, n) == \E i \in 1..n : fs[i].kind = "RST_STREAM" /\ fs[i].r = r

\* q is the server p after n frames that were owed.
After(q, p, fs, n) ==
    /\ q \in PeerStates
    /\ q.overrun = p.overrun /\ q.crowded = p.crowded /\ q.allRoom = p.allRoom
    /\ Says(fs, n, p.acked, q.acked)
    /\ \A r \in Requests : q.room[r] - q.acked.window = p.room[r] - p.acked.window
    /\ \A r \in Requests :
          q.stream[r] = IF Withdrawn(r, fs, n) THEN "reset" ELSE p.stream[r]

\* Each frame says something of the settings or nothing.
LEMMA SaysMore ==
    ASSUME NEW fs, NEW n \in Nat, NEW a, NEW b, Says(fs, n, a, b)
    PROVE  Says(fs, n + 1, a, IF fs[n + 1].kind = "SETTINGS" THEN fs[n + 1].says ELSE b)
<1>1. CASE fs[n + 1].kind = "SETTINGS"
  <2>1. n + 1 \in 1..n + 1 /\ \A j \in n + 1 + 1..n + 1 : FALSE OBVIOUS
  <2>2. QED BY <1>1, <2>1 DEF Says
<1>2. CASE fs[n + 1].kind # "SETTINGS"
  <2>1. \A j \in 1..n + 1 : j \in 1..n \/ j = n + 1 OBVIOUS
  <2>2. CASE b = a /\ \A i \in 1..n : fs[i].kind # "SETTINGS" BY <1>2, <2>1, <2>2 DEF Says
  <2>3. CASE \E i \in 1..n : /\ fs[i].kind = "SETTINGS" /\ fs[i].says = b
                             /\ \A j \in i + 1..n : fs[j].kind # "SETTINGS"
    <3>1. PICK i \in 1..n : /\ fs[i].kind = "SETTINGS" /\ fs[i].says = b
                            /\ \A j \in i + 1..n : fs[j].kind # "SETTINGS"
      BY <2>3
    <3>2. \A j \in i + 1..n + 1 : j \in i + 1..n \/ j = n + 1 OBVIOUS
    <3>3. i \in 1..n + 1 OBVIOUS
    <3>4. QED BY <1>2, <3>1, <3>2, <3>3 DEF Says
  <2>4. QED BY <2>2, <2>3 DEF Says
<1>3. QED BY <1>1, <1>2

\* They say one thing.
LEMMA SaysOne ==
    ASSUME NEW fs, NEW n \in Nat, NEW a, NEW b, NEW c, Says(fs, n, a, b), Says(fs, n, a, c)
    PROVE  b = c
<1>1. CASE \A i \in 1..n : fs[i].kind # "SETTINGS" BY <1>1 DEF Says
<1>2. CASE ~ \A i \in 1..n : fs[i].kind # "SETTINGS"
  <2>1. PICK i \in 1..n : /\ fs[i].kind = "SETTINGS" /\ fs[i].says = b
                          /\ \A j \in i + 1..n : fs[j].kind # "SETTINGS"
    BY <1>2 DEF Says
  <2>2. PICK k \in 1..n : /\ fs[k].kind = "SETTINGS" /\ fs[k].says = c
                          /\ \A j \in k + 1..n : fs[j].kind # "SETTINGS"
    BY <1>2 DEF Says
  <2>3. i = k BY <2>1, <2>2
  <2>4. QED BY <2>1, <2>2, <2>3
<1>3. QED BY <1>1, <1>2

\* The same frames say the same.
LEMMA SaysSame ==
    ASSUME NEW fs, NEW gs, NEW n \in Nat, NEW a, NEW b, Says(fs, n, a, b),
           \A i \in 1..n : gs[i] = fs[i]
    PROVE  Says(gs, n, a, b)
<1>1. CASE b = a /\ \A i \in 1..n : fs[i].kind # "SETTINGS" BY <1>1 DEF Says
<1>2. CASE \E i \in 1..n : /\ fs[i].kind = "SETTINGS" /\ fs[i].says = b
                           /\ \A j \in i + 1..n : fs[j].kind # "SETTINGS"
  <2>1. PICK i \in 1..n : /\ fs[i].kind = "SETTINGS" /\ fs[i].says = b
                          /\ \A j \in i + 1..n : fs[j].kind # "SETTINGS"
    BY <1>2
  <2>2. \A j \in i + 1..n : j \in 1..n BY <2>1
  <2>3. QED BY <2>1, <2>2 DEF Says
<1>3. QED BY <1>1, <1>2 DEF Says

\* A frame put at the end of a list.
LEMMA SaysAppend ==
    ASSUME NEW S, NEW fs \in Seq(S), NEW f, NEW a, NEW b, Says(fs, Len(fs), a, b)
    PROVE  Says(Append(fs, f), Len(Append(fs, f)), a, IF f.kind = "SETTINGS" THEN f.says ELSE b)
<1>1. PICK gs : gs = Append(fs, f) OBVIOUS
<1>2. PICK n \in Nat : n = Len(fs) OBVIOUS
<1>3. Len(gs) = n + 1 /\ gs[n + 1] = f /\ \A i \in 1..n : gs[i] = fs[i] BY <1>1, <1>2
<1>4. Says(gs, n, a, b) BY <1>2, <1>3, SaysSame
<1>5. Says(gs, n + 1, a, IF gs[n + 1].kind = "SETTINGS" THEN gs[n + 1].says ELSE b)
  BY <1>4, SaysMore
<1>6. QED BY <1>1, <1>3, <1>5

\* What the server makes of one frame that was owed.
LEMMA ReceivedOwed ==
    ASSUME NEW p \in PeerStates, NEW f \in FramesOn(Requests), Owed(f), NEW q,
           q = Received(p, f)
    PROVE  /\ q \in PeerStates
           /\ q.overrun = p.overrun /\ q.crowded = p.crowded /\ q.allRoom = p.allRoom
           /\ q.acked = IF f.kind = "SETTINGS" THEN f.says ELSE p.acked
           /\ \A r \in Requests : q.room[r] - q.acked.window = p.room[r] - p.acked.window
           /\ \A r \in Requests :
                 q.stream[r] = IF f.kind = "RST_STREAM" /\ f.r = r THEN "reset" ELSE p.stream[r]
<1>1. CASE f.kind = "RST_STREAM"
  <2>1. f.r \in Requests BY <1>1 DEF FramesOn, OtherKinds
  <2>2. q = [p EXCEPT !.stream[f.r] = "reset"] BY <1>1 DEF Received
  <2>3. p.stream \in [Requests -> StreamStates] BY DEF PeerStates
  <2>4. /\ q.stream = [p.stream EXCEPT ![f.r] = "reset"] /\ q.room = p.room
        /\ q.allRoom = p.allRoom /\ q.acked = p.acked
        /\ q.overrun = p.overrun /\ q.crowded = p.crowded
    BY <2>2 DEF PeerStates
  <2>5. "reset" \in StreamStates BY DEF StreamStates
  <2>6. q \in PeerStates BY <2>1, <2>2, <2>5 DEF PeerStates
  <2>7. \A r \in Requests : q.stream[r] = IF f.r = r THEN "reset" ELSE p.stream[r]
    BY <2>1, <2>3, <2>4
  <2>8. QED BY <1>1, <2>4, <2>6, <2>7
<1>2. CASE f.kind = "SETTINGS"
  <2>1. q = [p EXCEPT !.room = [r \in Requests |-> @[r] + (f.says.window - p.acked.window)],
                      !.acked = f.says]
    BY <1>2 DEF Received
  <2>2. f.says \in Speaks BY <1>2, SettingsAssumption DEF Owed, Speaks
  <2>3. p.room \in [Requests -> Int] /\ p.acked \in Speaks BY DEF PeerStates
  <2>4. f.says.window \in Int /\ p.acked.window \in Int BY <2>2, <2>3 DEF Speaks
  <2>5. PICK room : room = [r \in Requests |-> p.room[r] + (f.says.window - p.acked.window)] OBVIOUS
  <2>6. room \in [Requests -> Int] BY <2>3, <2>4, <2>5
  <2>7. q = [p EXCEPT !.room = room, !.acked = f.says] BY <2>1, <2>5
  <2>8. q \in PeerStates BY <2>2, <2>6, <2>7 DEF PeerStates
  <2>9. /\ q.stream = p.stream /\ q.room = room /\ q.allRoom = p.allRoom /\ q.acked = f.says
        /\ q.overrun = p.overrun /\ q.crowded = p.crowded
    BY <2>7 DEF PeerStates
  <2>10. \A r \in Requests : q.room[r] - q.acked.window = p.room[r] - p.acked.window
    BY <2>3, <2>4, <2>5, <2>9
  <2>11. QED BY <1>2, <2>8, <2>9, <2>10
<1>3. CASE f.kind \in {"GOAWAY", "PING"}
  <2>1. q = p BY <1>3 DEF Received
  <2>2. QED BY <1>3, <2>1
<1>4. QED BY <1>1, <1>2, <1>3 DEF Owed, OtherKinds

\* And of a list of them.
LEMMA PrefixesOwed ==
    ASSUME NEW p \in PeerStates, NEW fs \in Seq(FramesOn(Requests)), NEW h,
           Prefixes(h, p, fs, Len(fs)), NEW n \in 0..Len(fs), \A i \in 1..n : Owed(fs[i])
    PROVE  After(h[n], p, fs, n)
<1> DEFINE Right(i) == After(h[i], p, fs, i)
           T == {i \in 0..n : ~ Right(i)}
<1>1. Len(fs) \in Nat /\ n \in Nat OBVIOUS
<1>2. n \in 0..n BY <1>1
<1>3. SUFFICES ASSUME T # {} PROVE FALSE BY <1>2
<1>4. T \in SUBSET Nat BY <1>1
<1> HIDE DEF Right
<1>5. PICK m \in T : \A y \in T : m <= y BY <1>3, <1>4, NatMin
<1>6. m \in 0..n /\ m \in 0..Len(fs) /\ ~ Right(m) BY <1>1, <1>5
<1>7. \A i \in 0..Len(fs) : h[i] = IF i = 0 THEN p ELSE Received(h[i - 1], fs[i])
  BY <1>1 DEF Prefixes
<1>8. CASE m = 0
  <2>1. h[0] = p BY <1>1, <1>7
  <2>2. \A i \in 1..0 : FALSE OBVIOUS
  <2>3. Right(0) BY <2>1, <2>2 DEF Right, After, Says, Withdrawn
  <2>4. QED BY <1>6, <1>8, <2>3
<1>9. CASE m # 0
  <2>1. m - 1 \in 0..n /\ m - 1 \in Nat /\ m \in 1..n /\ m \in 1..Len(fs) BY <1>1, <1>6, <1>9
  <2>2. m - 1 \notin T BY <1>4, <1>5, <2>1
  <2>3. After(h[m - 1], p, fs, m - 1) BY <2>1, <2>2 DEF Right
  <2>4. PICK g : g = h[m - 1] OBVIOUS
  <2>5. PICK q : q = h[m] OBVIOUS
  <2>6. PICK f : f = fs[m] OBVIOUS
  <2>7. f \in FramesOn(Requests) /\ Owed(f) BY <2>1, <2>6
  <2>8. q = Received(g, f) BY <1>6, <1>7, <1>9, <2>4, <2>5, <2>6
  <2>9. After(g, p, fs, m - 1) BY <2>3, <2>4
  <2>10. g \in PeerStates BY <2>9 DEF After
  <2>11. /\ q \in PeerStates
         /\ q.overrun = g.overrun /\ q.crowded = g.crowded /\ q.allRoom = g.allRoom
         /\ q.acked = IF f.kind = "SETTINGS" THEN f.says ELSE g.acked
         /\ \A r \in Requests : q.room[r] - q.acked.window = g.room[r] - g.acked.window
         /\ \A r \in Requests :
               q.stream[r] = IF f.kind = "RST_STREAM" /\ f.r = r THEN "reset" ELSE g.stream[r]
    BY <2>7, <2>8, <2>10, ReceivedOwed
  <2>12. Says(fs, m, p.acked, q.acked)
    <3>1. Says(fs, m - 1, p.acked, g.acked) BY <2>9 DEF After
    <3>2. m - 1 + 1 = m BY <2>1
    <3>3. Says(fs, m, p.acked, IF fs[m].kind = "SETTINGS" THEN fs[m].says ELSE g.acked)
      BY <2>1, <3>1, <3>2, SaysMore
    <3>4. QED BY <2>6, <2>11, <3>3
  <2>13. ASSUME NEW r \in Requests
         PROVE  Withdrawn(r, fs, m) <=>
                  Withdrawn(r, fs, m - 1) \/ (f.kind = "RST_STREAM" /\ f.r = r)
    <3>1. \A j \in 1..m : j \in 1..m - 1 \/ j = m BY <2>1
    <3>2. m \in 1..m /\ \A j \in 1..m - 1 : j \in 1..m BY <2>1
    <3>3. QED BY <2>6, <3>1, <3>2, Zenon DEF Withdrawn
  <2>14. ASSUME NEW r \in Requests
         PROVE  q.stream[r] = IF Withdrawn(r, fs, m) THEN "reset" ELSE p.stream[r]
    <3>1. g.stream[r] = IF Withdrawn(r, fs, m - 1) THEN "reset" ELSE p.stream[r]
      BY <2>9 DEF After
    <3>2. QED BY <2>11, <2>13, <3>1
  <2>15. /\ q.overrun = p.overrun /\ q.crowded = p.crowded /\ q.allRoom = p.allRoom
         /\ \A r \in Requests : q.room[r] - q.acked.window = p.room[r] - p.acked.window
    BY <2>9, <2>11 DEF After
  <2>16. Right(m) BY <2>5, <2>11, <2>12, <2>14, <2>15 DEF Right, After
  <2>17. QED BY <1>6, <2>16
<1>10. QED BY <1>8, <1>9

\* So a write: what was owed, and the frame its holder had of its own.
LEMMA SentAfter ==
    ASSUME peer \in PeerStates, NEW t, NEW fs \in Seq(FramesOn(Requests)), fs = buffer[t], ~shut
    PROVE  /\ Owes(fs) => After(Sent(t), peer, fs, Len(fs))
           /\ \A f : EndsWith(fs, f) =>
                \E q : After(q, peer, fs, Len(fs) - 1) /\ Sent(t) = Received(q, f)
<1> DEFINE upto[n \in 0..Len(buffer[t])] ==
               IF n = 0 THEN peer ELSE Received(upto[n - 1], buffer[t][n])
<1>1. Len(fs) \in Nat OBVIOUS
<1>2. \E h : Prefixes(h, peer, buffer[t], Len(buffer[t])) BY <1>1, PrefixesExist
<1>3. \E h : h = [n \in 0..Len(buffer[t]) |->
                    IF n = 0 THEN peer ELSE Received(h[n - 1], buffer[t][n])]
  BY <1>2 DEF Prefixes
<1>4. upto = [n \in 0..Len(buffer[t]) |->
                IF n = 0 THEN peer ELSE Received(upto[n - 1], buffer[t][n])]
  BY <1>3
<1>5. Sent(t) = upto[Len(buffer[t])] BY DEF Sent
<1>6. PICK h : h = upto OBVIOUS
<1>7. Prefixes(h, peer, fs, Len(fs)) BY <1>4, <1>6 DEF Prefixes
<1>8. Sent(t) = h[Len(fs)] BY <1>5, <1>6
<1> HIDE DEF upto
<1>9. ASSUME Owes(fs) PROVE After(Sent(t), peer, fs, Len(fs))
  <2>1. Len(fs) \in 0..Len(fs) BY <1>1
  <2>2. QED BY <1>7, <1>8, <1>9, <2>1, PrefixesOwed DEF Owes
<1>10. ASSUME NEW f, EndsWith(fs, f)
       PROVE  \E q : After(q, peer, fs, Len(fs) - 1) /\ Sent(t) = Received(q, f)
  <2>1. Len(fs) # 0 BY <1>10 DEF EndsWith
  <2>2. Len(fs) - 1 \in 0..Len(fs) /\ Len(fs) \in 0..Len(fs) BY <1>1, <2>1
  <2>3. After(h[Len(fs) - 1], peer, fs, Len(fs) - 1)
    BY <1>7, <1>10, <2>2, PrefixesOwed DEF EndsWith
  <2>4. h[Len(fs)] = Received(h[Len(fs) - 1], fs[Len(fs)]) BY <1>7, <2>1, <2>2 DEF Prefixes
  <2>5. QED BY <1>8, <1>10, <2>3, <2>4 DEF EndsWith
<1>11. QED BY <1>9, <1>10

-----------------------------------------------------------------------------
(* What is on its way: who has frames in hand, and of which kinds.         *)

Keeping == {"sending", "writing", "flushing", "closing"}

\* A thread's own frame comes last, after what the reader owed.
Queues ==
    /\ peer \in PeerStates
    /\ Owes(output)
    /\ \A t \in Threads :
          /\ pc[t] \notin Keeping => buffer[t] = <<>>
          /\ pc[t] \in {"flushing", "closing"} => Owes(buffer[t])
          /\ pc[t] = "sending" => EndsWith(buffer[t], Headers(t))
          /\ pc[t] = "writing" => \E end \in BOOLEAN : EndsWith(buffer[t], Data(t, reserved[t], end))

\* While the connection is up, the settings the server knows acknowledged
\* become the ones last received with what is in hand and what is owed.
Held == IF writer = None THEN <<>> ELSE buffer[writer]
Heard ==
    ~shut => \E m \in Speaks : /\ Says(Held, Len(Held), peer.acked, m)
                               /\ Says(output, Len(output), m, settings)

\* No stream is open before its HEADERS are out.
Unopened == \A r \in Requests : pc[r] \in Opening => ~Opened(r)

QInv == WInv /\ Queues /\ Heard /\ Unopened

\* The server does no more than it did: no new stream, nothing more acknowledged.
PeerCalm ==
    /\ peer' \in PeerStates /\ peer'.acked = peer.acked /\ peer'.crowded = peer.crowded
    /\ \A r \in Requests : Opened(r)' => Opened(r)
    /\ Counted(peer)' \subseteq Counted(peer)

\* A step that takes and writes nothing.
Quiet ==
    /\ \A u \in Threads : pc'[u] = pc[u] \/ (pc[u] \notin Keeping /\ pc'[u] \notin Keeping)
    /\ \A r \in Requests : pc'[r] \in Opening => pc[r] \in Opening \/ (Register(r) /\ ~Opened(r))
    /\ buffer' = buffer /\ Held' = Held
    /\ \A r \in Requests : pc[r] = "writing" => reserved'[r] = reserved[r]
    /\ \/ output' = output /\ settings' = settings
       \/ \E f : /\ Owed(f) /\ output' = Append(output, f)
                 /\ settings' = IF f.kind = "SETTINGS" THEN f.says ELSE settings
    /\ PeerCalm /\ (shut => shut')

LEMMA QueuesQuiet ==
    ASSUME QInv, Quiet
    PROVE  Queues' /\ Heard' /\ Unopened'
<1>1. Unopened' BY DEF Quiet, PeerCalm, QInv, Unopened
<1>2. output \in Seq(FramesOn(Numbered)) BY DEF QInv, WInv, Wire
<1>3. Owes(output')
  <2>1. CASE output' = output BY <2>1 DEF QInv, Queues
  <2>2. CASE \E f : Owed(f) /\ output' = Append(output, f)
    <3>1. PICK f : Owed(f) /\ output' = Append(output, f) BY <2>2
    <3>2. \A i \in 1..Len(output') :
             (i \in 1..Len(output) /\ output'[i] = output[i]) \/ output'[i] = f
      BY <1>2, <3>1
    <3>3. QED BY <3>1, <3>2 DEF QInv, Queues, Owes
  <2>3. QED BY <2>1, <2>2 DEF Quiet
<1>4. Queues'
  <2>1. ASSUME NEW u \in Threads
        PROVE  /\ pc'[u] \notin Keeping => buffer'[u] = <<>>
               /\ pc'[u] \in {"flushing", "closing"} => Owes(buffer'[u])
               /\ pc'[u] = "sending" => EndsWith(buffer'[u], Headers(u))
    BY DEF Quiet, QInv, Queues, Keeping
  <2>2. ASSUME NEW u \in Threads, pc'[u] = "writing"
        PROVE  \E end \in BOOLEAN : EndsWith(buffer'[u], Data(u, reserved'[u], end))
    <3>1. pc[u] = "writing" BY <2>2 DEF Quiet, Keeping
    <3>2. u \in Requests
      BY <3>1, RequestsAssumption, ThreadsAssumption
      DEF QInv, WInv, SInv, Stages, Fits, Threads, ReaderPlaces, CloserPlaces, Flushing
    <3>3. reserved'[u] = reserved[u] BY <3>1, <3>2 DEF Quiet
    <3>4. QED BY <3>1, <3>3 DEF Quiet, QInv, Queues
  <2>3. QED BY <1>3, <2>1, <2>2 DEF Queues, Quiet, PeerCalm
<1>5. Heard'
  <2> SUFFICES ASSUME ~shut'
               PROVE  \E m \in Speaks : /\ Says(Held', Len(Held'), peer'.acked, m)
                                        /\ Says(output', Len(output'), m, settings')
    BY DEF Heard
  <2>1. PICK m \in Speaks : /\ Says(Held, Len(Held), peer.acked, m)
                            /\ Says(output, Len(output), m, settings)
    BY DEF QInv, Heard, Quiet
  <2>2. Says(output', Len(output'), m, settings')
    <3>1. CASE output' = output /\ settings' = settings BY <2>1, <3>1
    <3>2. CASE \E f : /\ output' = Append(output, f)
                      /\ settings' = IF f.kind = "SETTINGS" THEN f.says ELSE settings
      <4>1. PICK f : /\ output' = Append(output, f)
                     /\ settings' = IF f.kind = "SETTINGS" THEN f.says ELSE settings
        BY <3>2
      <4>2. Says(Append(output, f), Len(Append(output, f)), m,
                 IF f.kind = "SETTINGS" THEN f.says ELSE settings)
        BY <1>2, <2>1, SaysAppend
      <4>3. QED BY <4>1, <4>2
    <3>3. QED BY <3>1, <3>2 DEF Quiet
  <2>3. QED BY <2>1, <2>2 DEF Quiet, PeerCalm
<1>6. QED BY <1>1, <1>4, <1>5

\* A thread takes what is owed, with a frame of its own or none.
Takes(t, x, own) ==
    /\ pc[t] \notin Keeping /\ Held = <<>> /\ x \in Keeping
    /\ pc' = [pc EXCEPT ![t] = x] /\ writer' = t
    /\ buffer' = [buffer EXCEPT ![t] = output \o own] /\ output' = <<>>
    /\ UNCHANGED <<peer, settings, shut, reserved, answered>>
    /\ \/ x \in {"flushing", "closing"} /\ own \in {<<>>, <<Goaway>>}
       \/ x = "sending" /\ own = <<Headers(t)>> /\ ~Opened(t) /\ pc[t] = "registered"
       \/ x = "writing" /\ \E end \in BOOLEAN : own = <<Data(t, reserved[t], end)>>

LEMMA QueuesTaken ==
    ASSUME QInv, NEW t \in Threads, NEW x, NEW own, Takes(t, x, own)
    PROVE  /\ Queues' /\ Heard' /\ Unopened'
           /\ pc'[t] = x /\ buffer'[t] = output \o own
           /\ ~shut => Says(buffer'[t], Len(buffer'[t]), peer.acked, settings)
<1>1. pc'[t] = x /\ \A u \in Threads \ {t} : pc'[u] = pc[u]
  BY DEF Takes, QInv, WInv, SInv, Stages
<1>2. buffer'[t] = output \o own /\ \A u \in Threads \ {t} : buffer'[u] = buffer[u]
  BY DEF Takes, QInv, WInv, Wire
<1>3. PICK bs : bs = output \o own OBVIOUS
<1>4. output \in Seq(FramesOn(Numbered)) BY DEF QInv, WInv, Wire
<1>5. PICK m \in Speaks : ~shut => /\ Says(Held, Len(Held), peer.acked, m)
                                   /\ Says(output, Len(output), m, settings)
  <2>1. settings \in Speaks BY DEF QInv, WInv, Amounts
  <2>2. QED BY <2>1 DEF QInv, Heard
<1>6. ~shut => Says(output, Len(output), peer.acked, settings)
  <2>1. Len(<<>>) = 0 /\ \A i \in 1..0 : FALSE OBVIOUS
  <2>2. ~shut => m = peer.acked BY <1>5, <2>1 DEF Takes, Says
  <2>3. QED BY <1>5, <2>2
<1>7. /\ ~shut => Says(bs, Len(bs), peer.acked, settings)
      /\ x \in {"flushing", "closing"} => Owes(bs)
      /\ x = "sending" => EndsWith(bs, Headers(t))
      /\ x = "writing" => \E end \in BOOLEAN : EndsWith(bs, Data(t, reserved[t], end))
  <2>1. CASE own = <<>>
    <3>1. bs = output BY <1>3, <1>4, <2>1
    <3>2. x \in {"flushing", "closing"} BY <2>1 DEF Takes
    <3>3. QED BY <1>6, <3>1, <3>2 DEF QInv, Queues
  <2>2. CASE own # <<>>
    <3>1. PICK f : own = <<f>> BY <2>2 DEF Takes
    <3>2. bs = Append(output, f) /\ Len(bs) = Len(output) + 1 /\ bs[Len(bs)] = f
      BY <1>3, <1>4, <3>1
    <3>3. \A i \in 1..Len(bs) - 1 : Owed(bs[i])
      <4>1. \A i \in 1..Len(bs) - 1 : i \in 1..Len(output) /\ bs[i] = output[i]
        BY <1>4, <3>2
      <4>2. QED BY <4>1 DEF QInv, Queues, Owes
    <3>4. EndsWith(bs, f) BY <1>4, <3>2, <3>3 DEF EndsWith
    <3>5. f.kind # "SETTINGS" /\ (f = Goaway => Owed(f))
      <4>1. Goaway.kind = "GOAWAY" /\ Headers(t).kind = "HEADERS"
            /\ \A n, e : Data(t, n, e).kind = "DATA"
        BY DEF Goaway, Headers, Data, Frame
      <4>2. f = Goaway \/ f = Headers(t) \/ \E e \in BOOLEAN : f = Data(t, reserved[t], e)
        BY <3>1 DEF Takes
      <4>3. QED BY <4>1, <4>2 DEF Owed, OtherKinds
    <3>6. ~shut => Says(bs, Len(bs), peer.acked, settings)
      BY <1>4, <1>6, <3>2, <3>5, SaysAppend
    <3>7. CASE x \in {"flushing", "closing"}
      <4>1. f = Goaway BY <3>1, <3>7 DEF Takes
      <4>2. Owed(f) BY <3>5, <4>1
      <4>3. Owes(bs) BY <1>4, <3>2, <3>3, <4>2 DEF Owes
      <4>4. QED BY <3>6, <3>7, <4>3
    <3>8. CASE x = "sending" BY <3>1, <3>4, <3>6, <3>8 DEF Takes
    <3>9. CASE x = "writing"
      <4>1. PICK end \in BOOLEAN : own = <<Data(t, reserved[t], end)>> BY <3>9 DEF Takes
      <4>2. f = Data(t, reserved[t], end) BY <3>1, <4>1
      <4>3. QED BY <3>4, <3>6, <3>9, <4>2
    <3>10. QED BY <3>7, <3>8, <3>9 DEF Takes, Keeping
  <2>3. QED BY <2>1, <2>2
<1>8. Queues'
  <2>1. Owes(output') BY DEF Takes, Owes
  <2>2. ASSUME NEW u \in Threads
        PROVE  /\ pc'[u] \notin Keeping => buffer'[u] = <<>>
               /\ pc'[u] \in {"flushing", "closing"} => Owes(buffer'[u])
               /\ pc'[u] = "sending" => EndsWith(buffer'[u], Headers(u))
               /\ pc'[u] = "writing" =>
                    \E end \in BOOLEAN : EndsWith(buffer'[u], Data(u, reserved'[u], end))
    <3>1. CASE u = t BY <1>1, <1>2, <1>3, <1>7, <3>1 DEF Takes
    <3>2. CASE u # t BY <1>1, <1>2, <3>2 DEF Takes, QInv, Queues
    <3>3. QED BY <3>1, <3>2
  <2>3. peer' \in PeerStates BY DEF Takes, QInv, Queues
  <2>4. QED BY <2>1, <2>2, <2>3 DEF Queues
<1>9. Heard'
  <2>1. None \notin Threads BY RequestsAssumption, ThreadsAssumption DEF Threads
  <2>2. Held' = bs BY <1>2, <1>3, <2>1 DEF Held, Takes
  <2>3. settings' \in Speaks /\ settings' = settings BY DEF Takes, QInv, WInv, Amounts
  <2>4. Says(output', Len(output'), settings', settings')
    <3>1. output' = <<>> /\ Len(<<>>) = 0 /\ \A i \in 1..0 : FALSE BY DEF Takes
    <3>2. QED BY <3>1 DEF Says
  <2>5. QED BY <1>7, <2>2, <2>3, <2>4 DEF Heard, Takes
<1>10. Unopened'
  <2>1. \A r \in Requests : Opened(r)' <=> Opened(r) BY DEF Takes, Opened
  <2>2. ASSUME NEW r \in Requests, pc'[r] \in Opening PROVE ~Opened(r)
    <3>1. r \in Threads BY DEF Threads
    <3>2. CASE r = t
      <4>1. x = "sending" BY <1>1, <2>2, <3>2 DEF Takes, Keeping, Opening
      <4>2. QED BY <3>2, <4>1 DEF Takes
    <3>3. CASE r # t BY <1>1, <2>2, <3>1, <3>3 DEF QInv, Unopened
    <3>4. QED BY <3>2, <3>3
  <2>3. QED BY <2>1, <2>2 DEF Unopened
<1>11. QED BY <1>1, <1>2, <1>3, <1>7, <1>8, <1>9, <1>10

\* What a write does: q is the server once it has what was owed; a frame of the
\* holder's own comes on top.
Written(t, q) ==
    /\ After(q, peer, buffer[t], Len(buffer[t]))
    /\ Says(output, Len(output), q.acked, settings)
    /\ pc[t] \in {"flushing", "closing"} => Sent(t) = q
    /\ pc[t] = "sending" => Sent(t) = Received(q, Headers(t))
    /\ pc[t] = "writing" => \E end \in BOOLEAN : Sent(t) = Received(q, Data(t, reserved[t], end))

\* A frame of the holder's own acknowledges and resets nothing.
LEMMA AfterOwn ==
    ASSUME NEW p, NEW q, NEW fs \in Seq(FramesOn(Requests)), EndsWith(fs, fs[Len(fs)]),
           fs[Len(fs)].kind \in {"HEADERS", "DATA"}, After(q, p, fs, Len(fs) - 1)
    PROVE  After(q, p, fs, Len(fs))
<1>1. PICK n \in Nat : n = Len(fs) - 1 BY DEF EndsWith
<1>2. Len(fs) = n + 1 /\ fs[n + 1].kind # "SETTINGS" /\ fs[n + 1].kind # "RST_STREAM" BY <1>1
<1>3. After(q, p, fs, n) BY <1>1
<1>4. Says(fs, n + 1, p.acked, q.acked)
  <2>1. Says(fs, n, p.acked, q.acked) BY <1>3 DEF After
  <2>2. QED BY <1>2, <2>1, SaysMore
<1>5. \A r : Withdrawn(r, fs, n + 1) <=> Withdrawn(r, fs, n)
  <2>1. \A i \in 1..n + 1 : i \in 1..n \/ i = n + 1 BY <1>1
  <2>2. \A i \in 1..n : i \in 1..n + 1 BY <1>1
  <2>3. QED BY <1>2, <2>1, <2>2, Zenon DEF Withdrawn
<1>6. After(q, p, fs, n + 1) BY <1>3, <1>4, <1>5 DEF After
<1>7. QED BY <1>2, <1>6

\* Every write is one of these.
LEMMA WriteTells ==
    ASSUME QInv, NEW t \in Threads, pc[t] \in Keeping, ~shut
    PROVE  \E q : Written(t, q)
<1>1. PICK fs \in Seq(FramesOn(Requests)) : fs = buffer[t]
  <2>1. Numbered \subseteq Requests BY DEF Numbered
  <2>2. QED BY <2>1, FramesGrow DEF QInv, WInv, Wire
<1>2. writer = t /\ t # None /\ Held = fs
  <2>1. pc[t] \in HoldingPlaces BY DEF Keeping, HoldingPlaces
  <2>2. writer = t BY <2>1 DEF QInv, WInv, SInv, Holding
  <2>3. t # None BY RequestsAssumption, ThreadsAssumption DEF Threads
  <2>4. QED BY <1>1, <2>2, <2>3 DEF Held
<1>3. PICK m \in Speaks : Says(fs, Len(fs), peer.acked, m) /\ Says(output, Len(output), m, settings)
  BY <1>2 DEF QInv, Heard
<1>4. peer \in PeerStates BY DEF QInv, Queues
<1>5. ASSUME NEW q, After(q, peer, fs, Len(fs)) PROVE Says(output, Len(output), q.acked, settings)
  <2>1. Says(fs, Len(fs), peer.acked, q.acked) /\ Len(fs) \in Nat BY <1>5 DEF After
  <2>2. q.acked = m BY <1>3, <2>1, SaysOne
  <2>3. QED BY <1>3, <2>2
<1>6. CASE pc[t] \in {"flushing", "closing"}
  <2>1. Owes(fs) BY <1>1, <1>6 DEF QInv, Queues
  <2>2. After(Sent(t), peer, fs, Len(fs)) BY <1>1, <1>4, <2>1, SentAfter
  <2>3. Written(t, Sent(t)) BY <1>1, <1>5, <1>6, <2>2 DEF Written
  <2>4. QED BY <2>3
<1>7. ASSUME NEW f, EndsWith(fs, f), f.kind \in {"HEADERS", "DATA"}
      PROVE  \E q : /\ After(q, peer, fs, Len(fs)) /\ Sent(t) = Received(q, f)
                    /\ Says(output, Len(output), q.acked, settings)
  <2>1. PICK q : After(q, peer, fs, Len(fs) - 1) /\ Sent(t) = Received(q, f)
    BY <1>1, <1>4, <1>7, SentAfter
  <2>2. f = fs[Len(fs)] BY <1>7 DEF EndsWith
  <2>3. After(q, peer, fs, Len(fs)) BY <1>7, <2>1, <2>2, AfterOwn
  <2>4. QED BY <1>5, <2>1, <2>3
<1>8. CASE pc[t] = "sending"
  <2>1. EndsWith(fs, Headers(t)) BY <1>1, <1>8 DEF QInv, Queues
  <2>2. Headers(t).kind = "HEADERS" BY DEF Headers, Frame
  <2>3. PICK q : /\ After(q, peer, fs, Len(fs)) /\ Sent(t) = Received(q, Headers(t))
                 /\ Says(output, Len(output), q.acked, settings)
    BY <1>7, <2>1, <2>2
  <2>4. Written(t, q) BY <1>1, <1>8, <2>3 DEF Written
  <2>5. QED BY <2>4
<1>9. CASE pc[t] = "writing"
  <2>1. PICK end \in BOOLEAN : EndsWith(fs, Data(t, reserved[t], end))
    BY <1>1, <1>9 DEF QInv, Queues
  <2>2. Data(t, reserved[t], end).kind = "DATA" BY DEF Data, Frame
  <2>3. PICK q : /\ After(q, peer, fs, Len(fs)) /\ Sent(t) = Received(q, Data(t, reserved[t], end))
                 /\ Says(output, Len(output), q.acked, settings)
    BY <1>7, <2>1, <2>2
  <2>4. Written(t, q) BY <1>1, <1>9, <2>3 DEF Written
  <2>5. QED BY <2>4
<1>10. QED BY <1>6, <1>8, <1>9 DEF Keeping

\* A request's own frames, as the server p takes them.
HeadersOn(q, p, r) ==
    /\ q \in PeerStates
    /\ q.acked = p.acked /\ q.allRoom = p.allRoom /\ q.overrun = p.overrun
    /\ q.crowded = (p.crowded \/ Cardinality(Counted(p)) >= p.acked.limit)
    /\ q.room = [p.room EXCEPT ![r] = p.acked.window]
    /\ q.stream = [p.stream EXCEPT ![r] = IF r \in Uploads THEN "open" ELSE "ended"]

DataOn(q, p, r, n, end) ==
    /\ q \in PeerStates
    /\ q.acked = p.acked /\ q.allRoom = p.allRoom - n /\ q.crowded = p.crowded
    /\ q.overrun = (p.overrun \/ n > p.room[r] \/ n > p.allRoom)
    /\ q.room = [p.room EXCEPT ![r] = @ - n]
    /\ q.stream = [p.stream EXCEPT
                     ![r] = IF @ = "reset" THEN @ ELSE IF end THEN "ended" ELSE "open"]

LEMMA HeadersTaken ==
    ASSUME NEW p \in PeerStates, NEW r \in Requests, NEW q, q = Received(p, Headers(r))
    PROVE  HeadersOn(q, p, r)
<1>1. PICK f : f = Headers(r) OBVIOUS
<1>2. f.kind = "HEADERS" /\ f.r = r /\ f.end = (r \notin Uploads) BY <1>1 DEF Headers, Frame
<1>3. PICK b \in BOOLEAN : b = (p.crowded \/ Cardinality(Counted(p)) >= p.acked.limit)
  BY DEF PeerStates
<1>4. PICK st : st = IF f.end THEN "ended" ELSE "open" OBVIOUS
<1>5. q = [p EXCEPT !.stream[r] = st, !.room[r] = p.acked.window, !.crowded = b]
  <2>1. q = [p EXCEPT !.stream[f.r] = IF f.end THEN "ended" ELSE "open",
                      !.room[f.r] = p.acked.window,
                      !.crowded = @ \/ Cardinality(Counted(p)) >= p.acked.limit]
    BY <1>1, <1>2 DEF Received
  <2>2. QED BY <1>2, <1>3, <1>4, <2>1
<1>6. /\ q.stream = [p.stream EXCEPT ![r] = st] /\ q.room = [p.room EXCEPT ![r] = p.acked.window]
      /\ q.acked = p.acked /\ q.allRoom = p.allRoom /\ q.overrun = p.overrun /\ q.crowded = b
  BY <1>5 DEF PeerStates
<1>7. st \in StreamStates /\ p.acked.window \in Int BY <1>4 DEF StreamStates, PeerStates, Speaks
<1>8. q \in PeerStates
  <2>1. q.stream \in [Requests -> StreamStates] /\ q.room \in [Requests -> Int]
    BY <1>6, <1>7 DEF PeerStates
  <2>2. q = [p EXCEPT !.stream = q.stream, !.room = q.room, !.crowded = b] BY <1>5, <1>6
  <2>3. QED BY <2>1, <2>2 DEF PeerStates
<1>9. QED BY <1>2, <1>3, <1>4, <1>6, <1>8 DEF HeadersOn

LEMMA DataTaken ==
    ASSUME NEW p \in PeerStates, NEW r \in Requests, NEW n \in Nat, NEW end \in BOOLEAN,
           NEW q, q = Received(p, Data(r, n, end))
    PROVE  DataOn(q, p, r, n, end)
<1>1. PICK f : f = Data(r, n, end) OBVIOUS
<1>2. f.kind = "DATA" /\ f.r = r /\ f.end = end /\ f.n = n BY <1>1 DEF Data, Frame
<1>3. PICK b \in BOOLEAN : b = (p.overrun \/ n > p.room[r] \/ n > p.allRoom)
  BY DEF PeerStates
<1>4. PICK st : st = IF p.stream[r] = "reset" THEN p.stream[r] ELSE IF end THEN "ended" ELSE "open" OBVIOUS
<1>5. q = [p EXCEPT !.stream[r] = st, !.room[r] = @ - n, !.allRoom = @ - n, !.overrun = b]
  <2>1. q = [p EXCEPT !.stream[f.r] = IF @ = "reset" THEN @ ELSE IF f.end THEN "ended" ELSE "open",
                      !.room[f.r] = @ - f.n, !.allRoom = @ - f.n,
                      !.overrun = @ \/ f.n > p.room[f.r] \/ f.n > p.allRoom]
    BY <1>1, <1>2 DEF Received
  <2>2. QED BY <1>2, <1>3, <1>4, <2>1 DEF PeerStates
<1>6. /\ q.stream = [p.stream EXCEPT ![r] = st] /\ q.room = [p.room EXCEPT ![r] = @ - n]
      /\ q.acked = p.acked /\ q.allRoom = p.allRoom - n /\ q.overrun = b /\ q.crowded = p.crowded
  BY <1>5 DEF PeerStates
<1>7. st \in StreamStates /\ p.room[r] - n \in Int /\ p.allRoom - n \in Int
  BY <1>4 DEF StreamStates, PeerStates
<1>8. q \in PeerStates
  <2>1. q.stream \in [Requests -> StreamStates] /\ q.room \in [Requests -> Int]
        /\ q.allRoom \in Int
    BY <1>6, <1>7 DEF PeerStates
  <2>2. q = [p EXCEPT !.stream = q.stream, !.room = q.room, !.allRoom = q.allRoom, !.overrun = b]
    BY <1>5, <1>6
  <2>3. QED BY <2>1, <2>2 DEF PeerStates
<1>9. p.stream \in [Requests -> StreamStates] BY DEF PeerStates
<1>10. QED BY <1>3, <1>4, <1>6, <1>8, <1>9 DEF DataOn

\* The thread that was writing lets go of the write lock.
Sends(t, x) ==
    /\ pc[t] \in Keeping /\ x \notin Keeping /\ x \notin Opening
    /\ pc' = [pc EXCEPT ![t] = x] /\ writer' = None
    /\ buffer' = [buffer EXCEPT ![t] = <<>>] /\ peer' = Sent(t)
    /\ UNCHANGED <<output, settings, shut, live, open, dead, goingAway, answered>>
    /\ \A r \in Requests \ {t} : reserved'[r] = reserved[r]

LEMMA QueuesSent ==
    ASSUME QInv, NEW t \in Threads, NEW x, Sends(t, x)
    PROVE  Queues' /\ Heard' /\ Unopened'
<1>1. pc'[t] = x /\ \A u \in Threads \ {t} : pc'[u] = pc[u]
  BY DEF Sends, QInv, WInv, SInv, Stages
<1>2. buffer'[t] = <<>> /\ \A u \in Threads \ {t} : buffer'[u] = buffer[u]
  BY DEF Sends, QInv, WInv, Wire
<1>3. \A u \in Threads \ {t} : pc[u] \notin HoldingPlaces
  <2>1. pc[t] \in HoldingPlaces BY DEF Sends, Keeping, HoldingPlaces
  <2>2. QED BY <2>1 DEF QInv, WInv, SInv, Holding
<1>4. /\ peer' \in PeerStates
      /\ ~shut => \E m \in Speaks : peer'.acked = m /\ Says(output, Len(output), m, settings)
  <2>1. CASE shut BY <2>1 DEF Sends, Sent, QInv, Queues
  <2>2. CASE ~shut
    <3>1. PICK q : Written(t, q) BY <2>2, WriteTells DEF Sends
    <3>2. q \in PeerStates /\ Says(output, Len(output), q.acked, settings) /\ q.acked \in Speaks
      BY <3>1 DEF Written, After, PeerStates
    <3>3. peer' \in PeerStates /\ peer'.acked = q.acked
      <4>1. CASE pc[t] \in {"flushing", "closing"} BY <3>1, <3>2, <4>1 DEF Written, Sends
      <4>2. ASSUME pc[t] \in {"sending", "writing"} PROVE t \in Requests
        BY <4>2, RequestsAssumption, ThreadsAssumption
        DEF QInv, WInv, SInv, Stages, Fits, Threads, ReaderPlaces, CloserPlaces, Flushing
      <4>3. CASE pc[t] = "sending"
        <5>1. t \in Requests /\ peer' = Received(q, Headers(t)) BY <3>1, <4>2, <4>3 DEF Written, Sends
        <5>2. HeadersOn(peer', q, t) BY <3>2, <5>1, HeadersTaken
        <5>3. QED BY <5>2 DEF HeadersOn
      <4>4. CASE pc[t] = "writing"
        <5>1. PICK end \in BOOLEAN : t \in Requests /\ peer' = Received(q, Data(t, reserved[t], end))
          BY <3>1, <4>2, <4>4 DEF Written, Sends
        <5>2. reserved[t] \in Nat BY <5>1 DEF QInv, WInv, Amounts
        <5>3. DataOn(peer', q, t, reserved[t], end) BY <3>2, <5>1, <5>2, DataTaken
        <5>4. QED BY <5>3 DEF DataOn
      <4>5. QED BY <4>1, <4>3, <4>4 DEF Sends, Keeping
    <3>4. QED BY <3>2, <3>3
  <2>3. QED BY <2>1, <2>2
<1>5. Queues'
  <2>1. Owes(output') BY DEF Sends, QInv, Queues
  <2>2. ASSUME NEW u \in Threads
        PROVE  /\ pc'[u] \notin Keeping => buffer'[u] = <<>>
               /\ pc'[u] \notin Keeping
    <3>1. CASE u = t BY <1>1, <1>2, <3>1 DEF Sends
    <3>2. CASE u # t
      <4>1. pc[u] \notin Keeping BY <1>3, <3>2 DEF Keeping, HoldingPlaces
      <4>2. QED BY <1>1, <1>2, <3>2, <4>1 DEF QInv, Queues
    <3>3. QED BY <3>1, <3>2
  <2>3. QED BY <1>4, <2>1, <2>2 DEF Queues, Keeping
<1>6. Heard'
  <2>1. Held' = <<>> /\ Len(<<>>) = 0 /\ \A i \in 1..0 : FALSE BY DEF Sends, Held
  <2>2. \A m : Says(<<>>, 0, m, m) BY <2>1 DEF Says
  <2>3. QED BY <1>4, <2>1, <2>2 DEF Heard, Sends
<1>7. Unopened'
  <2>1. \A r \in Requests : pc'[r] \notin Opening
    BY <1>1, <1>3 DEF Sends, Threads, Opening, HoldingPlaces
  <2>2. QED BY <2>1 DEF Unopened
<1>8. QED BY <1>5, <1>6, <1>7

\* A thread that moves without a frame of its own in hand is quiet.
LEMMA QuietMove ==
    ASSUME QInv, NEW t \in Threads, NEW x,
           pc' = [pc EXCEPT ![t] = x] \/ pc' = [Notified EXCEPT ![t] = x],
           pc[t] \notin Keeping, x \notin Keeping,
           x \in Opening => Register(t) /\ ~Opened(t),
           buffer' = buffer,
           \/ writer' = writer
           \/ writer = None /\ writer' = t
           \/ writer = t /\ writer' = None,
           \A r \in Requests : pc[r] = "writing" => reserved'[r] = reserved[r],
           \/ output' = output /\ settings' = settings
           \/ \E f : /\ Owed(f) /\ output' = Append(output, f)
                     /\ settings' = IF f.kind = "SETTINGS" THEN f.says ELSE settings,
           PeerCalm, shut => shut'
    PROVE  Quiet
<1>1. pc \in [Threads -> Places] BY DEF QInv, WInv, SInv, Stages
<1>2. ASSUME NEW u \in Threads
      PROVE  /\ pc'[u] = pc[u] \/ (pc[u] \notin Keeping /\ pc'[u] \notin Keeping)
             /\ pc'[u] \in Opening => pc[u] \in Opening \/ u = t
             /\ u = t => pc'[u] = x
  <2>1. CASE pc' = [pc EXCEPT ![t] = x] BY <1>1, <2>1
  <2>2. CASE pc' = [Notified EXCEPT ![t] = x]
    <3>1. Notified[u] = IF pc[u] = "slotAsleep" THEN "slot" ELSE pc[u] BY DEF Notified
    <3>2. pc'[u] = IF u = t THEN x ELSE Notified[u] BY <2>2 DEF Notified
    <3>3. QED BY <3>1, <3>2 DEF Keeping, Opening
  <2>3. QED BY <2>1, <2>2
<1>3. Held' = Held
  <2>1. buffer[t] = <<>> BY DEF QInv, Queues
  <2>2. t # None BY RequestsAssumption, ThreadsAssumption DEF Threads
  <2>3. QED BY <2>1, <2>2 DEF Held
<1>4. \A r \in Requests : pc'[r] \in Opening => pc[r] \in Opening \/ (Register(r) /\ ~Opened(r))
  BY <1>2 DEF Threads
<1>5. QED BY <1>2, <1>3, <1>4 DEF Quiet

LEMMA SamePeerCalm ==
    ASSUME QInv, peer' = peer, answered \subseteq answered'
    PROVE  PeerCalm
BY DEF PeerCalm, QInv, Queues, Opened, Counted

LEMMA OwedTyped ==
    /\ Owed(Goaway) /\ Goaway.kind = "GOAWAY" /\ Owed(Pong) /\ Pong.kind = "PING"
    /\ \A r : Owed(Rst(r)) /\ Rst(r).kind = "RST_STREAM" /\ Rst(r).r = r
    /\ \A s \in Settings : Owed(Ack(s)) /\ Ack(s).kind = "SETTINGS" /\ Ack(s).says = s
<1>1. Owed(Goaway) /\ Goaway.kind = "GOAWAY" /\ Owed(Pong) /\ Pong.kind = "PING"
  BY DEF Goaway, Pong, Frame, Owed, OtherKinds
<1>2. \A r : Owed(Rst(r)) /\ Rst(r).kind = "RST_STREAM" /\ Rst(r).r = r
  BY DEF Rst, Frame, Owed, OtherKinds
<1>3. ASSUME NEW s \in Settings
      PROVE  Owed(Ack(s)) /\ Ack(s).kind = "SETTINGS" /\ Ack(s).says = s
  BY DEF Ack, Frame, Owed, OtherKinds
<1>4. QED BY <1>1, <1>2, <1>3

LEMMA RequestQuiet ==
    ASSUME QInv, NEW r \in Requests,
           \/ Slot(r) \/ LockWrite(r) \/ Unregistered(r) \/ Register(r) \/ ReserveChunk(r)
           \/ BodyOver(r) \/ Return(r)
    PROVE  Quiet
<1>1. /\ UNCHANGED <<settings, peer, shut, output, buffer, answered>>
      /\ \A s \in Requests : pc[s] = "writing" => reserved'[s] = reserved[s]
  <2>1. CASE ReserveChunk(r)
    <3>1. /\ UNCHANGED <<settings, peer, shut, output, buffer, answered>>
          /\ reserved' = [reserved EXCEPT ![r] = Chunk(r)] /\ pc[r] = "body"
      BY <2>1 DEF ReserveChunk, writeVars, sessionVars, serverVars
    <3>2. reserved \in [Requests -> Nat] BY DEF QInv, WInv, Amounts
    <3>3. QED BY <3>1, <3>2
  <2>2. QED
    BY <2>1
    DEF Slot, LockWrite, Unregistered, Register, BodyOver, Return, writeVars, sessionVars,
        windowVars, serverVars
<1>2. PICK x \in {"done", "write", "slotAsleep", "locked", "registered", "chunk", "bodyOver"} :
        /\ pc' = [pc EXCEPT ![r] = x] \/ pc' = [Notified EXCEPT ![r] = x]
        /\ x = "registered" => pc[r] = "locked" /\ Register(r)
  BY DEF Slot, LockWrite, Unregistered, Register, Refuse, ReserveChunk, BodyOver, Return
<1>3. pc[r] \in {"slot", "write", "locked", "body", "wait"}
  BY DEF Slot, LockWrite, Unregistered, Register, ReserveChunk, BodyOver, Return
<1>4. pc[r] = "locked" => ~Opened(r) /\ writer = r
  BY RequestIsThread
  DEF QInv, WInv, SInv, Streams, Wire, BeforeId, Holding, HoldingPlaces
<1>5. \/ writer' = writer
      \/ writer = None /\ writer' = r
      \/ writer = r /\ writer' = None
  <2>1. CASE Unregistered(r) BY <1>4, <2>1 DEF Unregistered
  <2>2. CASE ~ Unregistered(r)
    BY <2>2
    DEF Slot, LockWrite, WriteLockFree, Register, ReserveChunk, BodyOver, Return, writeVars
  <2>3. QED BY <2>1, <2>2
<1>6. x \notin Keeping /\ pc[r] \notin Keeping /\ (x \in Opening => Register(r) /\ ~Opened(r))
  BY <1>2, <1>3, <1>4 DEF Keeping, Opening
<1>7. PeerCalm BY <1>1, SamePeerCalm
<1>8. QED BY <1>1, <1>2, <1>5, <1>6, <1>7, RequestIsThread, QuietMove

LEMMA ResetQuiet ==
    ASSUME QInv, NEW r \in Requests, CloseOurSide(r) \/ Stall(r)
    PROVE  Quiet
<1>1. UNCHANGED <<settings, peer, shut, buffer, writer, reserved, answered>>
  BY DEF CloseOurSide, Stall, sessionVars, windowVars, serverVars
<1>2. PICK x \in {"flush", "wait"} : pc' = [pc EXCEPT ![r] = x] \/ pc' = [Notified EXCEPT ![r] = x]
  BY DEF CloseOurSide, Stall
<1>3. x \notin Keeping /\ x \notin Opening /\ pc[r] \notin Keeping
  BY <1>2 DEF CloseOurSide, Stall, Timed, Keeping, Opening
<1>4. output' = output \/ output' = Append(output, Rst(r)) BY DEF CloseOurSide, Stall, GiveUpAloud
<1>5. \E f : Owed(f) /\ f.kind # "SETTINGS" /\ f = Rst(r) BY OwedTyped
<1>6. PeerCalm BY <1>1, SamePeerCalm
<1>7. QED BY <1>1, <1>2, <1>3, <1>4, <1>5, <1>6, RequestIsThread, QuietMove

\* Every step is quiet, takes what is owed, or writes.
StepKind ==
    \/ Quiet
    \/ \E t \in Threads : \E x, own : Takes(t, x, own)
    \/ \E t \in Threads : \E x : Sends(t, x)

LEMMA FlushKind ==
    ASSUME QInv, NEW t \in Flushers, FlushStep(t)
    PROVE  StepKind
<1>1. t \in Threads /\ (t \in Requests \/ t = Reader) BY OthersAreThreads DEF Flushers, Threads
<1>2. /\ pc[t] \in Flushing
      /\ UNCHANGED <<shut, settings, reserved, answered, live, open, dead, goingAway>>
  BY DEF FlushStep, Flush, FlushSend, FlushLook, Flushing, sessionVars, windowVars, streamVars,
         serverVars
<1>3. after[t] \notin Keeping /\ after[t] \notin Opening
  BY <1>1, <1>2 DEF QInv, WInv, SInv, Stages, Fits, Keeping, Opening
<1>4. CASE Flush(t) /\ Acquire(t, <<>>, "flushing")
  <2>1. Takes(t, "flushing", <<>>)
    BY <1>2, <1>4 DEF Takes, Flush, Acquire, WriteLockFree, Taken, Keeping, Held
  <2>2. QED BY <1>1, <2>1 DEF StepKind
<1>5. CASE FlushSend(t)
  <2>1. Sends(t, "flushed")
    BY <1>2, <1>5 DEF Sends, FlushSend, LookedAgain, Keeping, Opening
  <2>2. QED BY <1>1, <2>1 DEF StepKind
<1>6. CASE FlushLook(t) \/ (Flush(t) /\ ~Acquire(t, <<>>, "flushing"))
  <2>1. UNCHANGED <<peer, buffer, writer, output>> /\ pc[t] \notin Keeping
    BY <1>6 DEF Flush, FlushLook, writeVars, Keeping
  <2>2. PICK x \in {"flush", after[t]} : pc' = [pc EXCEPT ![t] = x]
    BY <1>6 DEF Flush, FlushLook
  <2>3. x \notin Keeping /\ x \notin Opening BY <1>3, <2>2 DEF Keeping, Opening
  <2>4. PeerCalm BY <1>2, <2>1, SamePeerCalm
  <2>5. Quiet BY <1>1, <1>2, <2>1, <2>2, <2>3, <2>4, QuietMove
  <2>6. QED BY <2>5 DEF StepKind
<1>7. QED BY <1>4, <1>5, <1>6 DEF FlushStep

LEMMA OwnKind ==
    ASSUME QInv, NEW r \in Requests,
           TakeAndEncode(r) \/ SendHeaders(r) \/ TakeAndWrite(r) \/ SendData(r)
    PROVE  StepKind
<1>1. r \in Threads BY RequestIsThread
<1>2. CASE TakeAndEncode(r)
  <2>1. /\ pc[r] = "registered" /\ buffer' = [buffer EXCEPT ![r] = output \o <<Headers(r)>>]
        /\ output' = <<>> /\ pc' = [pc EXCEPT ![r] = "sending"]
        /\ UNCHANGED <<writer, peer, settings, shut, reserved, answered>>
    BY <1>2 DEF TakeAndEncode, HeadersLast, sessionVars, windowVars, serverVars
  <2>2. writer = r BY <1>1, <2>1 DEF QInv, WInv, SInv, Holding, HoldingPlaces
  <2>3. pc[r] \notin Keeping /\ ~Opened(r) BY <2>1 DEF Keeping, QInv, Unopened, Opening
  <2>4. Held = <<>> BY <1>1, <2>2, <2>3 DEF QInv, Queues, Held
  <2>5. Takes(r, "sending", <<Headers(r)>>) BY <2>1, <2>2, <2>3, <2>4 DEF Takes, Keeping
  <2>6. QED BY <1>1, <2>5 DEF StepKind
<1>3. CASE TakeAndWrite(r)
  <2>1. /\ pc[r] = "chunk" /\ writer = None /\ writer' = r
        /\ buffer' = [buffer EXCEPT ![r] = output \o <<Data(r, reserved[r], reserved[r] = Left(r))>>]
        /\ output' = <<>> /\ pc' = [pc EXCEPT ![r] = "writing"]
        /\ UNCHANGED <<peer, settings, shut, reserved, answered>>
    BY <1>3 DEF TakeAndWrite, Acquire, WriteLockFree, Taken, sessionVars, windowVars, serverVars
  <2>2. PICK end \in BOOLEAN : end = (reserved[r] = Left(r)) OBVIOUS
  <2>3. Takes(r, "writing", <<Data(r, reserved[r], end)>>)
    BY <2>1, <2>2 DEF Takes, Held, Keeping
  <2>4. QED BY <1>1, <2>3 DEF StepKind
<1>4. CASE SendHeaders(r) \/ SendData(r)
  <2>1. \A s \in Requests \ {r} : reserved'[s] = reserved[s]
    BY <1>4 DEF SendHeaders, SendData, windowVars, QInv, WInv, Amounts
  <2>2. Sends(r, "flush")
    BY <1>4, <2>1
    DEF Sends, SendHeaders, SendData, Keeping, Opening, streamVars, sessionVars, serverVars
  <2>3. QED BY <1>1, <2>2 DEF StepKind
<1>5. QED BY <1>2, <1>3, <1>4

LEMMA HandledQuiet ==
    ASSUME QInv, NEW fatal, Receiving, Handled(fatal), PeerCalm,
           \/ output' = output /\ settings' = settings
           \/ \E f : /\ Owed(f) /\ output' = Append(output, f)
                     /\ settings' = IF f.kind = "SETTINGS" THEN f.says ELSE settings
    PROVE  Quiet
<1>1. /\ pc[Reader] = "receive" /\ pc' = [pc EXCEPT ![Reader] = "handled"]
      /\ UNCHANGED <<writer, buffer, reserved, shut>>
  BY DEF Receiving, Handled
<1>2. "handled" \notin Keeping /\ "handled" \notin Opening /\ pc[Reader] \notin Keeping
  BY <1>1 DEF Keeping, Opening
<1>3. QED BY <1>1, <1>2, OthersAreThreads, QuietMove

LEMMA UpdateTaken ==
    ASSUME QInv, NEW r \in Requests \cup {None}, WindowUpdate(r)
    PROVE  /\ peer' \in PeerStates /\ peer'.acked = peer.acked /\ peer'.stream = peer.stream
           /\ peer'.overrun = peer.overrun /\ peer'.crowded = peer.crowded
           /\ peer'.allRoom = IF r = None THEN peer.allRoom + 1 ELSE peer.allRoom
           /\ \A s \in Requests : peer'.room[s] = IF s = r THEN peer.room[s] + 1 ELSE peer.room[s]
<1>1. peer \in PeerStates BY DEF QInv, Queues
<1>2. None \notin Requests BY RequestsAssumption
<1>3. CASE r = None
  <2>1. peer' = [peer EXCEPT !.allRoom = @ + 1] BY <1>3 DEF WindowUpdate
  <2>2. QED BY <1>1, <1>2, <1>3, <2>1 DEF PeerStates
<1>4. CASE r # None
  <2>1. r \in Requests /\ peer' = [peer EXCEPT !.room[r] = @ + 1] BY <1>4 DEF WindowUpdate
  <2>2. peer'.room = [peer.room EXCEPT ![r] = @ + 1] BY <1>1, <2>1 DEF PeerStates
  <2>3. peer.room \in [Requests -> Int] BY <1>1 DEF PeerStates
  <2>4. peer'.room \in [Requests -> Int] BY <2>1, <2>2, <2>3
  <2>5. peer' = [peer EXCEPT !.room = peer'.room] BY <2>1, <2>2
  <2>6. peer' \in PeerStates BY <1>1, <2>4, <2>5 DEF PeerStates
  <2>7. \A s \in Requests : peer'.room[s] = IF s = r THEN peer.room[s] + 1 ELSE peer.room[s]
    BY <2>1, <2>2, <2>3
  <2>8. /\ peer'.acked = peer.acked /\ peer'.stream = peer.stream /\ peer'.allRoom = peer.allRoom
        /\ peer'.overrun = peer.overrun /\ peer'.crowded = peer.crowded
    BY <1>1, <2>5 DEF PeerStates
  <2>9. QED BY <1>4, <2>6, <2>7, <2>8
<1>5. QED BY <1>3, <1>4

LEMMA ResetTaken ==
    ASSUME QInv, NEW r \in Requests, NEW code, ServerReset(r, code)
    PROVE  /\ peer' \in PeerStates /\ peer'.acked = peer.acked /\ peer'.room = peer.room
           /\ peer'.allRoom = peer.allRoom
           /\ peer'.overrun = peer.overrun /\ peer'.crowded = peer.crowded
           /\ Opened(r)
           /\ \A s \in Requests : peer'.stream[s] = IF s = r THEN "reset" ELSE peer.stream[s]
<1>1. peer \in PeerStates BY DEF QInv, Queues
<1>2. peer' = [peer EXCEPT !.stream[r] = "reset"] /\ Opened(r) BY DEF ServerReset
<1>3. peer'.stream = [peer.stream EXCEPT ![r] = "reset"] /\ "reset" \in StreamStates
  BY <1>1, <1>2 DEF PeerStates, StreamStates
<1>4. peer.stream \in [Requests -> StreamStates] BY <1>1 DEF PeerStates
<1>5. peer'.stream \in [Requests -> StreamStates] BY <1>3, <1>4
<1>6. peer' = [peer EXCEPT !.stream = peer'.stream] BY <1>2, <1>3
<1>7. peer' \in PeerStates BY <1>1, <1>5, <1>6 DEF PeerStates
<1>8. /\ peer'.acked = peer.acked /\ peer'.room = peer.room /\ peer'.allRoom = peer.allRoom
      /\ peer'.overrun = peer.overrun /\ peer'.crowded = peer.crowded
  BY <1>1, <1>6 DEF PeerStates
<1>9. QED BY <1>2, <1>3, <1>4, <1>7, <1>8

\* The reader's handlers, one by one.
LEMMA ReceiveQuiet ==
    ASSUME QInv, Receive
    PROVE  Quiet
<1>1. ASSUME NEW s \in Settings, NewSettings(s) PROVE Quiet
  <2>1. /\ Receiving /\ Handled(FALSE) /\ UNCHANGED <<peer, answered>> /\ output' = Append(output, Ack(s))
        /\ settings' = s
    BY <1>1 DEF NewSettings, serverVars
  <2>2. Owed(Ack(s)) /\ Ack(s).kind = "SETTINGS" /\ Ack(s).says = s BY OwedTyped
  <2>3. QED BY <2>1, <2>2, SamePeerCalm, HandledQuiet
<1>2. CASE Ping
  <2>1. /\ Receiving /\ Handled(FALSE) /\ UNCHANGED <<peer, answered>> /\ output' = Append(output, Pong)
        /\ settings' = settings
    BY <1>2 DEF Ping, serverVars
  <2>2. Owed(Pong) /\ Pong.kind # "SETTINGS" BY OwedTyped
  <2>3. QED BY <2>1, <2>2, SamePeerCalm, HandledQuiet
<1>3. ASSUME NEW r \in Requests \cup {None}, WindowUpdate(r) PROVE Quiet
  <2>1. Receiving /\ Handled(FALSE) /\ output' = output /\ settings' = settings
    BY <1>3 DEF WindowUpdate
  <2>2. PeerCalm BY <1>3, UpdateTaken DEF PeerCalm, Opened, Counted, WindowUpdate
  <2>3. QED BY <2>1, <2>2, HandledQuiet
<1>4. ASSUME NEW r \in Requests, NEW end \in BOOLEAN, Response(r, end) PROVE Quiet
  <2>1. /\ Receiving /\ Handled(FALSE) /\ peer' = peer /\ output' = output
        /\ settings' = settings /\ answered \subseteq answered'
    BY <1>4 DEF Response
  <2>2. QED BY <2>1, SamePeerCalm, HandledQuiet
<1>5. ASSUME NEW r \in Requests, StreamError(r) PROVE Quiet
  <2>1. /\ Receiving /\ Handled(FALSE) /\ UNCHANGED <<peer, answered>> /\ output' = Append(output, Rst(r))
        /\ settings' = settings
    BY <1>5 DEF StreamError, serverVars
  <2>2. Owed(Rst(r)) /\ Rst(r).kind # "SETTINGS" BY OwedTyped
  <2>3. QED BY <2>1, <2>2, SamePeerCalm, HandledQuiet
<1>6. ASSUME NEW r \in Requests, NEW code, ServerReset(r, code) PROVE Quiet
  <2>1. Receiving /\ Handled(FALSE) /\ output' = output /\ settings' = settings
    BY <1>6 DEF ServerReset
  <2>2. PeerCalm
    <3>1. answered \subseteq answered' BY <1>6 DEF ServerReset
    <3>2. \A s \in Requests : peer'.stream[s] = peer.stream[s] \/ peer'.stream[s] = "reset"
      BY <1>6, ResetTaken
    <3>3. Counted(peer)' \subseteq Counted(peer) BY <3>1, <3>2 DEF Counted
    <3>4. \A s \in Requests : Opened(s)' => Opened(s) BY <1>6, ResetTaken DEF Opened
    <3>5. QED BY <1>6, <3>3, <3>4, ResetTaken DEF PeerCalm
  <2>3. QED BY <2>1, <2>2, HandledQuiet
<1>7. ASSUME NEW last, NEW broken, PeerGoaway(last, broken) PROVE Quiet
  <2>1. /\ Receiving /\ Handled(FALSE) /\ UNCHANGED <<peer, answered>> /\ output' = output
        /\ settings' = settings
    BY <1>7 DEF PeerGoaway, serverVars
  <2>2. QED BY <2>1, SamePeerCalm, HandledQuiet
<1>8. CASE ConnectionError
  <2>1. /\ Receiving /\ Handled(TRUE) /\ UNCHANGED <<peer, answered>> /\ output' = Append(output, Goaway)
        /\ settings' = settings
    BY <1>8 DEF ConnectionError, serverVars
  <2>2. Owed(Goaway) /\ Goaway.kind # "SETTINGS" BY OwedTyped
  <2>3. QED BY <2>1, <2>2, SamePeerCalm, HandledQuiet
<1>9. QED BY <1>1, <1>2, <1>3, <1>4, <1>5, <1>6, <1>7, <1>8 DEF Receive

LEMMA SessionQuiet ==
    ASSUME QInv, ReceiveDead \/ Lost \/ ReaderNotifies \/ ReaderLeaves \/ CloseShuts
    PROVE  Quiet
<1>1. /\ UNCHANGED <<peer, output, buffer, writer, settings, reserved, answered>>
      /\ shut => shut'
  BY DEF ReceiveDead, Lost, ReaderNotifies, ReaderLeaves, CloseShuts, writeVars, sessionVars,
         windowVars, serverVars
<1>2. PICK t \in {Reader, Closer}, x \in {"handled", "flush", "gone", "closed"} :
        /\ pc' = [pc EXCEPT ![t] = x] \/ pc' = [Notified EXCEPT ![t] = x]
        /\ pc[t] \in {"receive", "handled", "leave", "shutting"}
  BY DEF ReceiveDead, Lost, ReaderNotifies, ReaderLeaves, CloseShuts
<1>3. x \notin Keeping /\ x \notin Opening /\ pc[t] \notin Keeping BY <1>2 DEF Keeping, Opening
<1>4. PeerCalm BY <1>1, SamePeerCalm
<1>5. QED BY <1>1, <1>2, <1>3, <1>4, OthersAreThreads, QuietMove

LEMMA CloseKind ==
    ASSUME QInv, Close \/ CloseSends
    PROVE  StepKind
<1>1. CASE Close /\ writer = None
  <2>1. PICK own : own = IF dead THEN <<>> ELSE <<Goaway>> OBVIOUS
  <2>2. /\ pc[Closer] = "idle" /\ pc' = [pc EXCEPT ![Closer] = "closing"] /\ writer' = Closer
        /\ buffer' = [buffer EXCEPT ![Closer] = output \o own] /\ output' = <<>>
        /\ UNCHANGED <<peer, settings, shut, reserved, answered>>
    BY <1>1, <2>1 DEF Close, Acquire, Taken, windowVars, serverVars
  <2>3. Takes(Closer, "closing", own) BY <1>1, <2>1, <2>2 DEF Takes, Keeping, Held
  <2>4. QED BY <2>3, OthersAreThreads DEF StepKind
<1>2. CASE Close /\ writer # None
  <2>1. /\ pc[Closer] = "idle" /\ pc' = [pc EXCEPT ![Closer] = "shutting"]
        /\ UNCHANGED <<peer, settings, shut, reserved, writer, buffer, output, answered>>
    BY <1>2 DEF Close, windowVars, serverVars
  <2>2. "shutting" \notin Keeping /\ "shutting" \notin Opening /\ pc[Closer] \notin Keeping
    BY <2>1 DEF Keeping, Opening
  <2>3. PeerCalm BY <2>1, SamePeerCalm
  <2>4. Quiet BY <2>1, <2>2, <2>3, OthersAreThreads, QuietMove
  <2>5. QED BY <2>4 DEF StepKind
<1>3. CASE CloseSends
  <2>1. Sends(Closer, "shutting")
    BY <1>3
    DEF Sends, CloseSends, Keeping, Opening, streamVars, sessionVars, windowVars, serverVars
  <2>2. QED BY <2>1, OthersAreThreads DEF StepKind
<1>4. QED BY <1>1, <1>2, <1>3

LEMMA StutterQuiet ==
    ASSUME QInv, UNCHANGED <<pc, writer, buffer, output, peer, settings, reserved, answered>>,
           shut => shut'
    PROVE  Quiet
<1>1. Held' = Held BY DEF Held
<1>2. PeerCalm BY SamePeerCalm
<1>3. QED BY <1>1, <1>2 DEF Quiet

LEMMA QueuesInit == Init => QInv
<1> SUFFICES ASSUME Init PROVE QInv OBVIOUS
<1>1. WInv BY WireInit
<1>2. peer \in PeerStates
  <2>1. Defaults \in Speaks BY SettingsAssumption DEF Speaks
  <2>2. QED BY <2>1 DEF Init, PeerStates, StreamStates, Speaks
<1>3. Queues
  <2>1. \A t \in Threads : pc[t] \notin Keeping /\ buffer[t] = <<>>
    BY DEF Init, Keeping
  <2>2. Owes(output) BY DEF Init, Owes
  <2>3. QED BY <1>2, <2>1, <2>2 DEF Queues, Keeping
<1>4. Heard
  <2>1. Held = <<>> /\ output = <<>> /\ settings = Defaults /\ peer.acked = Defaults
    BY DEF Init, Held
  <2>2. Len(<<>>) = 0 /\ \A i \in 1..0 : FALSE OBVIOUS
  <2>3. Defaults \in Speaks BY SettingsAssumption DEF Speaks
  <2>4. QED BY <2>1, <2>2, <2>3 DEF Heard, Says
<1>5. Unopened
  <2>1. \A r \in Requests : pc[r] = "slot" BY RequestIsThread DEF Init
  <2>2. QED BY <2>1 DEF Unopened, Opening
<1>6. QED BY <1>1, <1>3, <1>4, <1>5 DEF QInv

LEMMA StepKinds ==
    ASSUME QInv, [Next]_vars
    PROVE  StepKind
<1>1. ASSUME NEW r \in Requests, RequestStep(r) PROVE StepKind
  <2>1. CASE Quiet BY <2>1 DEF StepKind
  <2>2. CASE ~Quiet
    <3>1. /\ ~(Slot(r) \/ LockWrite(r) \/ Unregistered(r) \/ Register(r) \/ ReserveChunk(r)
              \/ BodyOver(r) \/ Return(r))
          /\ ~(CloseOurSide(r) \/ Stall(r))
      BY <2>2, RequestQuiet, ResetQuiet
    <3>2. QED BY <1>1, <3>1, OwnKind, FlushKind DEF RequestStep, Flushers
  <2>3. QED BY <2>1, <2>2
<1>2. CASE FlushStep(Reader) BY <1>2, FlushKind DEF Flushers
<1>3. ASSUME NEW r \in Requests, Act(r) PROVE Quiet
  BY <1>3, StutterQuiet DEF Act, writeVars, sessionVars, windowVars
<1>4. CASE ConnectionFails
  <2>1. Quiet BY <1>4, StutterQuiet DEF ConnectionFails, writeVars, sessionVars, windowVars, serverVars
  <2>2. QED BY <2>1 DEF StepKind
<1>5. CASE UNCHANGED vars
  <2>1. Quiet BY <1>5, StutterQuiet DEF vars, writeVars, sessionVars, windowVars, serverVars
  <2>2. QED BY <2>1 DEF StepKind
<1>6. CASE Receive \/ ReceiveDead \/ Lost \/ ReaderNotifies \/ ReaderLeaves \/ CloseShuts
  BY <1>6, ReceiveQuiet, SessionQuiet DEF StepKind
<1>7. QED
  BY <1>1, <1>2, <1>3, <1>4, <1>5, <1>6, CloseKind DEF Next, Over, StepKind

\* So what is on its way stays as it should be.
LEMMA QueuesKept == QInv /\ [Next]_vars => QInv'
<1> SUFFICES ASSUME QInv, [Next]_vars PROVE QInv' OBVIOUS
<1>1. WInv' BY WireKept DEF QInv
<1>2. Queues' /\ Heard' /\ Unopened' BY StepKinds, QueuesQuiet, QueuesTaken, QueuesSent DEF StepKind
<1>3. QED BY <1>1, <1>2 DEF QInv

-----------------------------------------------------------------------------
(* The windows.  What is taken from them and not yet written is counted as *)
(* a set, a pair of a request and a number for each unit of it.            *)

UnitsOf(f) == {u \in Requests \X (1..BodySize) : u[2] <= f[u[1]]}

LEMMA UnitsSplit ==
    ASSUME NEW f \in [Requests -> Nat], NEW r \in Requests, f[r] <= BodySize
    PROVE  /\ IsFiniteSet({u \in UnitsOf(f) : u[1] # r}) /\ IsFiniteSet(UnitsOf(f))
           /\ Cardinality({u \in UnitsOf(f) : u[1] # r}) \in Nat
           /\ Cardinality(UnitsOf(f)) = Cardinality({u \in UnitsOf(f) : u[1] # r}) + f[r]
<1>1. PICK rest : rest = {u \in UnitsOf(f) : u[1] # r} OBVIOUS
<1>2. PICK own : own = {r} \X (1..f[r]) OBVIOUS
<1>3. PICK all : all = Requests \X (1..BodySize) OBVIOUS
<1>4. IsFiniteSet(all)
  <2>1. IsFiniteSet(1..BodySize) BY BoundsAssumption, FS_Interval
  <2>2. QED BY <1>3, <2>1, RequestsAssumption, FS_Product
<1>5. rest \subseteq all /\ UnitsOf(f) \subseteq all BY <1>1, <1>3 DEF UnitsOf
<1>6. IsFiniteSet(rest) /\ IsFiniteSet(UnitsOf(f)) /\ Cardinality(rest) \in Nat
  BY <1>4, <1>5, FS_Subset, FS_CardinalityType
<1>7. IsFiniteSet(own) /\ Cardinality(own) = f[r]
  <2>1. IsFiniteSet(1..f[r]) /\ Cardinality(1..f[r]) = f[r] BY FS_Interval
  <2>2. IsFiniteSet({r}) /\ Cardinality({r}) = 1 BY FS_Singleton
  <2>3. IsFiniteSet(own) /\ Cardinality(own) = 1 * f[r] BY <1>2, <2>1, <2>2, FS_Product
  <2>4. QED BY <2>3
<1>8. UnitsOf(f) = rest \cup own
  <2>1. ASSUME NEW u \in UnitsOf(f), u[1] = r PROVE u \in own
    <3>1. /\ u = <<u[1], u[2]>> /\ u[2] \in 1..BodySize /\ u[2] <= f[r]
      BY <2>1 DEF UnitsOf
    <3>2. u[2] \in 1..f[r] BY <3>1
    <3>3. QED BY <1>2, <2>1, <3>1, <3>2
  <2>2. ASSUME NEW u \in own PROVE u \in UnitsOf(f)
    <3>1. u = <<r, u[2]>> /\ u[1] = r /\ u[2] \in 1..f[r] BY <1>2
    <3>2. u[2] \in 1..BodySize /\ u[2] <= f[r] BY <3>1, BoundsAssumption
    <3>3. u \in Requests \X (1..BodySize) BY <3>1, <3>2
    <3>4. QED BY <3>1, <3>2, <3>3 DEF UnitsOf
  <2>3. QED BY <1>1, <2>1, <2>2
<1>9. rest \cap own = {} BY <1>1, <1>2
<1>10. Cardinality(UnitsOf(f)) = Cardinality(rest) + f[r]
  <2>1. Cardinality(rest \cup own) = Cardinality(rest) + Cardinality(own) - Cardinality(rest \cap own)
    BY <1>6, <1>7, FS_Union
  <2>2. Cardinality(rest \cap own) = 0 BY <1>9, FS_EmptySet
  <2>3. QED BY <1>6, <1>7, <1>8, <2>1, <2>2
<1>11. QED BY <1>1, <1>6, <1>10

\* A request takes units or gives them back.
LEMMA UnitsChange ==
    ASSUME NEW f \in [Requests -> Nat], NEW r \in Requests, NEW c \in Nat, f[r] <= BodySize,
           c <= BodySize
    PROVE  /\ Cardinality(UnitsOf(f)) \in Nat /\ f[r] <= Cardinality(UnitsOf(f))
           /\ Cardinality(UnitsOf([f EXCEPT ![r] = c])) + f[r] = Cardinality(UnitsOf(f)) + c
<1> DEFINE g == [f EXCEPT ![r] = c]
<1>1. g \in [Requests -> Nat] /\ g[r] = c /\ \A s \in Requests \ {r} : g[s] = f[s] OBVIOUS
<1> HIDE DEF g
<1>2. {u \in UnitsOf(f) : u[1] # r} = {u \in UnitsOf(g) : u[1] # r}
  <2>1. \A u \in Requests \X (1..BodySize) : u[1] \in Requests OBVIOUS
  <2>2. QED BY <1>1, <2>1 DEF UnitsOf
<1>3. PICK k \in Nat : k = Cardinality({u \in UnitsOf(f) : u[1] # r}) BY UnitsSplit
<1>4. Cardinality(UnitsOf(f)) = k + f[r] BY <1>3, UnitsSplit
<1>5. Cardinality(UnitsOf(g)) = k + c BY <1>1, <1>2, <1>3, UnitsSplit
<1>6. QED BY <1>3, <1>4, <1>5 DEF g

\* What the server grants covers the windows and what is taken from them: of
\* the connection, of a stream it has seen, and of one it has not.
Credit == sendWindow + Cardinality(UnitsOf(reserved)) <= peer.allRoom
Covered(r) ==
    Opened(r) => streamWindow[r] + reserved[r] <= peer.room[r] + (settings.window - peer.acked.window)
Fresh(r) == id[r] # 0 /\ ~Opened(r) => streamWindow[r] <= settings.window

\* The chunk a thread is writing has its room once what goes ahead of it is in.
RoomAhead(r) ==
    pc[r] = "writing" =>
        \E m \in Speaks : /\ Says(buffer[r], Len(buffer[r]), peer.acked, m)
                          /\ reserved[r] <= peer.room[r] + (m.window - peer.acked.window)

Rooms ==
    /\ ~peer.overrun
    /\ \A r \in Requests :
          /\ streamWindow[r] >= 0
          /\ reserved[r] # 0 => pc[r] \in {"chunk", "writing"}
    /\ ~shut => Credit /\ \A r \in Requests : Covered(r) /\ Fresh(r) /\ RoomAhead(r)

\* The server's grants are as they were.
GrantsSame ==
    /\ peer'.acked = peer.acked /\ peer'.room = peer.room /\ peer'.allRoom = peer.allRoom
    /\ peer'.overrun = peer.overrun
    /\ \A r \in Requests : Opened(r)' <=> Opened(r)

\* A step that leaves the windows alone, of a thread that has no chunk.
LEMMA RoomsQuiet ==
    ASSUME QInv, Rooms, NEW t \in Threads, NEW x,
           pc' = [pc EXCEPT ![t] = x] \/ pc' = [Notified EXCEPT ![t] = x],
           pc[t] \notin {"chunk", "writing"}, x # "writing",
           buffer' = buffer \/ \E b : buffer' = [buffer EXCEPT ![t] = b],
           UNCHANGED <<sendWindow, streamWindow, reserved, settings, id>>, GrantsSame, shut => shut'
    PROVE  Rooms'
<1>1. pc \in [Threads -> Places] BY DEF QInv, WInv, SInv, Stages
<1>2. ASSUME NEW u \in Threads
      PROVE  /\ pc[u] \in {"chunk", "writing"} => pc'[u] = pc[u]
             /\ pc'[u] = "writing" => pc[u] = "writing" /\ u # t
  <2>1. CASE pc' = [pc EXCEPT ![t] = x] BY <1>1, <2>1
  <2>2. CASE pc' = [Notified EXCEPT ![t] = x]
    <3>1. Notified[u] = IF pc[u] = "slotAsleep" THEN "slot" ELSE pc[u] BY DEF Notified
    <3>2. pc'[u] = IF u = t THEN x ELSE Notified[u] BY <2>2 DEF Notified
    <3>3. QED BY <3>1, <3>2
  <2>3. QED BY <2>1, <2>2
<1>3. \A u \in Threads \ {t} : buffer'[u] = buffer[u] BY DEF QInv, WInv, Wire
<1>4. ASSUME NEW r \in Requests, ~shut' PROVE Covered(r)' /\ Fresh(r)' /\ RoomAhead(r)'
  <2>1. r \in Threads BY RequestIsThread
  <2>2. Covered(r) /\ Fresh(r) /\ RoomAhead(r) BY <1>4 DEF Rooms
  <2>3. Covered(r)' BY <2>2 DEF Covered, GrantsSame
  <2>4. Fresh(r)' BY <2>2 DEF Fresh, GrantsSame
  <2>5. RoomAhead(r)' BY <1>2, <1>3, <2>1, <2>2 DEF RoomAhead, GrantsSame
  <2>6. QED BY <2>3, <2>4, <2>5
<1>5. ~shut' => Credit' BY DEF Rooms, Credit, GrantsSame
<1>6. \A r \in Requests : reserved'[r] # 0 => pc'[r] \in {"chunk", "writing"}
  BY <1>2, RequestIsThread DEF Rooms
<1>7. QED BY <1>4, <1>5, <1>6 DEF Rooms, GrantsSame

LEMMA SameGrants ==
    ASSUME peer' = peer
    PROVE  GrantsSame
BY DEF GrantsSame, Opened

\* The steps of a request that do so.
LEMMA RequestRooms ==
    ASSUME QInv, Rooms, NEW r \in Requests,
           \/ Slot(r) \/ LockWrite(r) \/ Unregistered(r) \/ BodyOver(r) \/ Return(r)
           \/ CloseOurSide(r) \/ Stall(r) \/ TakeAndEncode(r)
    PROVE  Rooms'
<1>1. /\ UNCHANGED <<sendWindow, streamWindow, reserved, settings, id, peer, shut>>
      /\ buffer' = buffer \/ \E b : buffer' = [buffer EXCEPT ![r] = b]
  BY DEF Slot, LockWrite, Unregistered, BodyOver, Return, CloseOurSide, Stall, TakeAndEncode,
         writeVars, sessionVars, windowVars, streamVars
<1>2. PICK x \in {"done", "write", "slotAsleep", "locked", "bodyOver", "flush", "wait", "sending"} :
        pc' = [pc EXCEPT ![r] = x] \/ pc' = [Notified EXCEPT ![r] = x]
  BY DEF Slot, LockWrite, Unregistered, Refuse, BodyOver, Return, CloseOurSide, Stall, TakeAndEncode
<1>3. pc[r] \notin {"chunk", "writing"} /\ x # "writing"
  BY <1>2
  DEF Slot, LockWrite, Unregistered, BodyOver, Return, CloseOurSide, Stall, Timed, TakeAndEncode
<1>4. QED BY <1>1, <1>2, <1>3, SameGrants, RequestIsThread, RoomsQuiet

\* A registered stream has the window the server was last heard to give.
LEMMA RegisterRooms ==
    ASSUME QInv, Rooms, NEW r \in Requests, Register(r)
    PROVE  Rooms'
<1>1. /\ pc[r] = "locked" /\ pc' = [pc EXCEPT ![r] = "registered"]
      /\ streamWindow' = [streamWindow EXCEPT ![r] = settings.window]
      /\ id' = [id EXCEPT ![r] = nextId]
      /\ UNCHANGED <<sendWindow, reserved, settings, peer, shut, buffer>>
  BY DEF Register, sessionVars, writeVars
<1>2. pc \in [Threads -> Places] /\ r \in Threads /\ id[r] = 0
  BY <1>1, RequestIsThread DEF QInv, WInv, SInv, Stages, Streams, BeforeId
<1>3. ~Opened(r) /\ settings.window \in Nat /\ streamWindow \in [Requests -> Int] /\ id \in [Requests -> Nat]
  BY <1>2 DEF QInv, WInv, SInv, Wire, Amounts, Speaks, Streams
<1>4. ASSUME NEW s \in Requests
      PROVE  /\ streamWindow'[s] >= 0
             /\ reserved'[s] # 0 => pc'[s] \in {"chunk", "writing"}
  BY <1>1, <1>2, <1>3, RequestIsThread DEF Rooms
<1>5. ASSUME NEW s \in Requests, ~shut' PROVE Covered(s)' /\ Fresh(s)' /\ RoomAhead(s)'
  <2>1. s \in Threads BY RequestIsThread
  <2>2. Covered(s) /\ Fresh(s) /\ RoomAhead(s) BY <1>1, <1>5 DEF Rooms
  <2>3. CASE s = r
    <3>1. streamWindow'[s] = settings.window /\ pc'[s] = "registered" /\ ~Opened(s)'
      BY <1>1, <1>2, <1>3, <2>3 DEF Opened
    <3>2. QED BY <1>1, <1>3, <3>1 DEF Covered, Fresh, RoomAhead
  <2>4. CASE s # r
    <3>1. streamWindow'[s] = streamWindow[s] /\ pc'[s] = pc[s] /\ id'[s] = id[s]
          /\ (Opened(s)' <=> Opened(s))
      BY <1>1, <1>2, <1>3, <2>1, <2>4 DEF Opened
    <3>2. QED BY <1>1, <2>2, <3>1 DEF Covered, Fresh, RoomAhead
  <2>5. QED BY <2>3, <2>4
<1>6. ~shut' => Credit' BY <1>1 DEF Rooms, Credit
<1>7. QED BY <1>1, <1>4, <1>5, <1>6 DEF Rooms

LEMMA ChunkFitsStream ==
    ASSUME QInv, NEW r \in Requests, Left(r) > 0, Ready(r)
    PROVE  Chunk(r) <= streamWindow[r]
<1>1. at[r] \in Nat /\ BodySize \in Nat BY BoundsAssumption DEF QInv, WInv, Amounts
<1>2. Left(r) = BodySize - at[r] BY <1>1 DEF Left
<1>3. Left(r) \in Nat /\ sendWindow \in Nat /\ streamWindow[r] \in Nat /\ settings.frame \in Nat
  BY <1>1, <1>2 DEF QInv, WInv, Amounts, Ready, Speaks
<1>4. PICK a \in Nat : a = Smaller(Left(r), sendWindow) BY <1>3, SmallerIsSmaller
<1>5. PICK b \in Nat : b = Smaller(streamWindow[r], settings.frame) BY <1>3, SmallerIsSmaller
<1>6. b <= streamWindow[r] BY <1>3, <1>5, SmallerIsSmaller
<1>7. Chunk(r) = Smaller(a, b) BY <1>4, <1>5 DEF Chunk
<1>8. Chunk(r) <= b /\ Chunk(r) \in Nat BY <1>4, <1>5, <1>7, SmallerIsSmaller
<1>9. QED BY <1>3, <1>5, <1>6, <1>8

\* A chunk leaves both windows at once.
LEMMA ReserveRooms ==
    ASSUME QInv, Rooms, NEW r \in Requests, ReserveChunk(r)
    PROVE  Rooms'
<1>1. PICK c : c = Chunk(r) OBVIOUS
<1>2. c \in Nat /\ c <= sendWindow /\ at[r] + c <= BodySize /\ c <= streamWindow[r]
  BY <1>1, ChunkFits, ChunkFitsStream DEF ReserveChunk, QInv, WInv
<1>3. /\ pc[r] = "body" /\ pc' = [pc EXCEPT ![r] = "chunk"]
      /\ sendWindow' = sendWindow - c /\ streamWindow' = [streamWindow EXCEPT ![r] = @ - c]
      /\ reserved' = [reserved EXCEPT ![r] = c]
      /\ UNCHANGED <<id, settings, peer, shut, buffer>>
  BY <1>1 DEF ReserveChunk, sessionVars, writeVars, streamVars
<1>4. /\ pc \in [Threads -> Places] /\ r \in Threads /\ reserved \in [Requests -> Nat]
      /\ streamWindow \in [Requests -> Int] /\ sendWindow \in Nat /\ at[r] \in Nat
  BY RequestIsThread DEF QInv, WInv, SInv, Stages, Amounts
<1>5. reserved[r] = 0 BY <1>3 DEF Rooms
<1>6. /\ streamWindow'[r] = streamWindow[r] - c /\ reserved'[r] = c /\ pc'[r] = "chunk"
      /\ \A s \in Requests \ {r} : /\ streamWindow'[s] = streamWindow[s]
                                   /\ reserved'[s] = reserved[s] /\ pc'[s] = pc[s]
  BY <1>3, <1>4, RequestIsThread
<1>7. ASSUME NEW s \in Requests
      PROVE  /\ streamWindow'[s] >= 0
             /\ reserved'[s] # 0 => pc'[s] \in {"chunk", "writing"}
  BY <1>2, <1>4, <1>6 DEF Rooms
<1>8. peer \in PeerStates /\ settings \in Speaks BY DEF QInv, Queues, WInv, Amounts
<1>9. ASSUME NEW s \in Requests, ~shut' PROVE Covered(s)' /\ Fresh(s)' /\ RoomAhead(s)'
  <2>1. Covered(s) /\ Fresh(s) /\ RoomAhead(s) BY <1>3, <1>9 DEF Rooms
  <2>2. Opened(s)' <=> Opened(s) BY <1>3 DEF Opened
  <2>3. /\ peer.room[s] \in Int /\ peer.acked.window \in Int /\ settings.window \in Int
        /\ streamWindow[s] \in Int
    BY <1>4, <1>8 DEF PeerStates, Speaks
  <2>4. CASE s = r
    <3>1. Covered(s)' BY <1>2, <1>3, <1>5, <1>6, <2>1, <2>2, <2>3, <2>4 DEF Covered
    <3>2. Fresh(s)' BY <1>2, <1>3, <1>6, <2>1, <2>2, <2>3, <2>4 DEF Fresh
    <3>3. RoomAhead(s)' BY <1>6, <2>4 DEF RoomAhead
    <3>4. QED BY <3>1, <3>2, <3>3
  <2>5. CASE s # r BY <1>3, <1>6, <2>1, <2>2, <2>5 DEF Covered, Fresh, RoomAhead
  <2>6. QED BY <2>4, <2>5
<1>10. ASSUME ~shut' PROVE Credit'
  <2>1. Credit BY <1>3, <1>10 DEF Rooms
  <2>2. c <= BodySize /\ reserved[r] <= BodySize
    BY <1>2, <1>4, <1>5, BoundsAssumption
  <2>3. PICK g : g = reserved' OBVIOUS
  <2>4. g = [reserved EXCEPT ![r] = c] BY <1>3, <2>3
  <2>5. /\ Cardinality(UnitsOf(reserved)) \in Nat
        /\ Cardinality(UnitsOf(g)) + reserved[r] = Cardinality(UnitsOf(reserved)) + c
    <3>1. /\ Cardinality(UnitsOf(reserved)) \in Nat
          /\ Cardinality(UnitsOf([reserved EXCEPT ![r] = c])) + reserved[r] =
               Cardinality(UnitsOf(reserved)) + c
      BY <1>2, <1>4, <2>2, UnitsChange
    <3>2. QED BY <2>4, <3>1
  <2>6. PICK k \in Nat : k = Cardinality(UnitsOf(reserved)) BY <2>5
  <2>7. PICK n : n = Cardinality(UnitsOf(g)) OBVIOUS
  <2>8. n + 0 = k + c BY <1>5, <2>5, <2>6, <2>7
  <2>9. peer.allRoom \in Int BY <1>8 DEF PeerStates
  <2>10. QED BY <1>2, <1>3, <1>4, <2>1, <2>3, <2>6, <2>7, <2>8, <2>9 DEF Credit
<1>11. QED BY <1>3, <1>7, <1>9, <1>10 DEF Rooms

\* The write lock in hand and what was owed ahead of it, the chunk has room.
LEMMA WriteRooms ==
    ASSUME QInv, Rooms, NEW r \in Requests, TakeAndWrite(r)
    PROVE  Rooms'
<1>1. /\ pc[r] = "chunk" /\ pc' = [pc EXCEPT ![r] = "writing"] /\ writer = None /\ writer' = r
      /\ buffer' = [buffer EXCEPT ![r] = output \o <<Data(r, reserved[r], reserved[r] = Left(r))>>]
      /\ output' = <<>>
      /\ UNCHANGED <<id, sendWindow, streamWindow, reserved, settings, peer, shut, answered>>
  BY DEF TakeAndWrite, Acquire, WriteLockFree, Taken, sessionVars, windowVars, streamVars, serverVars
<1>2. PICK end \in BOOLEAN : end = (reserved[r] = Left(r)) OBVIOUS
<1>3. Takes(r, "writing", <<Data(r, reserved[r], end)>>)
  BY <1>1, <1>2 DEF Takes, Held, Keeping
<1>4. ~shut => Says(buffer'[r], Len(buffer'[r]), peer.acked, settings)
  BY <1>3, RequestIsThread, QueuesTaken
<1>5. /\ pc \in [Threads -> Places] /\ r \in Threads /\ peer \in PeerStates
      /\ reserved \in [Requests -> Nat] /\ streamWindow \in [Requests -> Int] /\ settings \in Speaks
  BY RequestIsThread DEF QInv, Queues, WInv, SInv, Stages, Amounts
<1>6. \A s \in Requests \ {r} : pc'[s] = pc[s] /\ buffer'[s] = buffer[s]
  BY <1>1, <1>5, RequestIsThread DEF QInv, WInv, Wire
<1>7. pc'[r] = "writing" BY <1>1, <1>5
<1>8. ASSUME NEW s \in Requests, ~shut' PROVE Covered(s)' /\ Fresh(s)' /\ RoomAhead(s)'
  <2>1. Covered(s) /\ Fresh(s) /\ RoomAhead(s) BY <1>1, <1>8 DEF Rooms
  <2>2. Opened(s)' <=> Opened(s) BY <1>1 DEF Opened
  <2>3. Covered(s)' /\ Fresh(s)' BY <1>1, <2>1, <2>2 DEF Covered, Fresh
  <2>4. CASE s = r
    <3>1. Opened(r)
      BY <1>1, <1>8 DEF QInv, WInv, SInv, Streams, Wire, WithId, Opening
    <3>2. /\ peer.room[r] \in Int /\ peer.acked.window \in Int /\ settings.window \in Int
          /\ streamWindow[r] \in Int /\ reserved[r] \in Nat /\ streamWindow[r] >= 0
      BY <1>5 DEF PeerStates, Speaks, Rooms
    <3>3. reserved[r] <= peer.room[r] + (settings.window - peer.acked.window)
      BY <2>1, <2>4, <3>1, <3>2 DEF Covered
    <3>4. Says(buffer'[r], Len(buffer'[r]), peer.acked, settings) BY <1>1, <1>4, <1>8
    <3>5. QED BY <1>1, <1>5, <2>3, <2>4, <3>3, <3>4 DEF RoomAhead
  <2>5. CASE s # r BY <1>1, <1>6, <2>1, <2>3, <2>5 DEF RoomAhead
  <2>6. QED BY <2>4, <2>5
<1>9. ~shut' => Credit' BY <1>1 DEF Rooms, Credit
<1>10. \A s \in Requests : reserved'[s] # 0 => pc'[s] \in {"chunk", "writing"}
  BY <1>1, <1>6, <1>7 DEF Rooms
<1>11. QED BY <1>1, <1>8, <1>9, <1>10 DEF Rooms

\* A write: what it acknowledges leaves the room as it was, HEADERS start it
\* afresh, and DATA uses what it had reserved.
LEMMA SentRooms ==
    ASSUME QInv, QInv', Rooms, NEW t \in Threads, NEW x, Sends(t, x), x # "chunk",
           UNCHANGED <<sendWindow, streamWindow, id>>,
           reserved' = IF pc[t] = "writing" THEN [reserved EXCEPT ![t] = 0] ELSE reserved
    PROVE  Rooms'
<1>1. pc'[t] = x /\ \A u \in Threads \ {t} : pc'[u] = pc[u]
  BY DEF Sends, QInv, WInv, SInv, Stages
<1>2. \A u \in Threads \ {t} : pc[u] \notin HoldingPlaces
  <2>1. pc[t] \in HoldingPlaces BY DEF Sends, Keeping, HoldingPlaces
  <2>2. QED BY <2>1 DEF QInv, WInv, SInv, Holding
<1>3. pc[t] \in {"sending", "writing"} => t \in Requests
  BY RequestsAssumption, ThreadsAssumption
  DEF QInv, WInv, SInv, Stages, Fits, Threads, ReaderPlaces, CloserPlaces, Flushing
<1>4. /\ reserved \in [Requests -> Nat] /\ streamWindow \in [Requests -> Int]
      /\ settings.window \in Int /\ sendWindow \in Nat /\ peer \in PeerStates
  BY DEF QInv, WInv, Amounts, Speaks, Queues
<1>5. ASSUME NEW s \in Requests
      PROVE  /\ reserved'[s] = IF pc[t] = "writing" /\ s = t THEN 0 ELSE reserved[s]
             /\ s # t => pc'[s] = pc[s]
             /\ reserved'[s] # 0 => pc'[s] \in {"chunk", "writing"}
             /\ pc'[s] # "writing"
  <2>1. s \in Threads BY RequestIsThread
  <2>2. reserved'[s] = IF pc[t] = "writing" /\ s = t THEN 0 ELSE reserved[s] BY <1>4
  <2>3. CASE s = t
    <3>1. pc[t] # "writing" => reserved[t] = 0 BY <2>3 DEF Rooms, Sends, Keeping
    <3>2. QED BY <1>1, <2>2, <2>3, <3>1 DEF Sends, Keeping
  <2>4. CASE s # t
    <3>1. pc'[s] = pc[s] /\ pc[s] \notin HoldingPlaces BY <1>1, <1>2, <2>1, <2>4
    <3>2. QED BY <2>2, <2>4, <3>1 DEF Rooms, HoldingPlaces
  <2>5. QED BY <2>3, <2>4
<1>6. CASE shut
  <2>1. peer' = peer /\ shut' BY <1>6 DEF Sends, Sent
  <2>2. QED BY <1>5, <2>1 DEF Rooms
<1>7. CASE ~shut
  <2>1. PICK q : Written(t, q) BY <1>7, WriteTells DEF Sends
  <2>2. /\ q \in PeerStates /\ q.overrun = peer.overrun /\ q.allRoom = peer.allRoom
        /\ Says(buffer[t], Len(buffer[t]), peer.acked, q.acked)
        /\ \A s \in Requests : q.room[s] - q.acked.window = peer.room[s] - peer.acked.window
        /\ \A s \in Requests : Opened(s) => q.stream[s] # "idle"
    <3>1. After(q, peer, buffer[t], Len(buffer[t])) BY <2>1 DEF Written
    <3>2. QED BY <3>1 DEF After, Opened
  <2>3. Credit /\ \A s \in Requests : Covered(s) /\ Fresh(s) /\ RoomAhead(s)
    BY <1>7 DEF Rooms
  <2>4. ASSUME NEW s \in Requests
        PROVE  /\ peer.room[s] \in Int /\ q.room[s] \in Int /\ streamWindow[s] \in Int
               /\ reserved[s] \in Nat
    BY <1>4, <2>2 DEF PeerStates
  <2>5. peer.acked.window \in Int /\ q.acked.window \in Int /\ peer.allRoom \in Int
    BY <1>4, <2>2 DEF PeerStates, Speaks
  <2>6. ASSUME NEW s \in Requests
        PROVE  /\ Opened(s)' => id[s] # 0
               /\ id[s] # 0 /\ (s # t \/ pc[t] # "sending") => Opened(s)
    <3>1. Opened(s)' => id'[s] # 0 BY DEF QInv, WInv, Wire
    <3>2. id[s] # 0 => Opened(s) \/ pc[s] \in Opening BY <1>7 DEF QInv, WInv, Wire
    <3>3. pc[s] \in Opening => s = t /\ pc[t] = "sending"
      BY <1>2, RequestIsThread DEF Opening, HoldingPlaces, Sends, Keeping
    <3>4. QED BY <3>1, <3>2, <3>3
  \* A stream the write says nothing of its own about.
  <2>7. ASSUME NEW s \in Requests, s # t \/ pc[t] \in {"flushing", "closing"},
               peer'.room[s] = q.room[s], peer'.acked = q.acked, peer'.stream[s] = q.stream[s]
        PROVE  Covered(s)' /\ Fresh(s)' /\ RoomAhead(s)'
    <3>1. Opened(s)' <=> Opened(s) BY <2>2, <2>6, <2>7 DEF Opened
    <3>2. reserved'[s] = reserved[s] BY <1>5, <2>7
    <3>3. Covered(s) /\ Fresh(s) BY <2>3
    <3>4. Covered(s)'
      <4>1. CASE ~Opened(s)' BY <4>1 DEF Covered
      <4>2. CASE Opened(s)'
        <5>1. streamWindow[s] + reserved[s] <= peer.room[s] + (settings.window - peer.acked.window)
          BY <3>1, <3>3, <4>2 DEF Covered
        <5>2. q.room[s] - q.acked.window = peer.room[s] - peer.acked.window BY <2>2
        <5>3. streamWindow[s] + reserved[s] <= q.room[s] + (settings.window - q.acked.window)
          BY <1>4, <2>4, <2>5, <5>1, <5>2
        <5>4. QED BY <2>7, <3>2, <5>3 DEF Covered, Sends
      <4>3. QED BY <4>1, <4>2
    <3>5. Fresh(s)' BY <3>1, <3>3 DEF Fresh, Sends
    <3>6. QED BY <1>5, <3>4, <3>5 DEF RoomAhead
  <2>8. CASE pc[t] \in {"flushing", "closing"}
    <3>1. peer' = q BY <2>1, <2>8 DEF Written, Sends
    <3>2. \A s \in Requests : Covered(s)' /\ Fresh(s)' /\ RoomAhead(s)' BY <2>7, <2>8, <3>1
    <3>3. reserved' = reserved BY <2>8
    <3>4. Credit' BY <2>2, <2>3, <3>1, <3>3 DEF Credit
    <3>5. QED BY <1>5, <2>2, <3>1, <3>2, <3>4 DEF Rooms
  <2>9. CASE pc[t] = "sending"
    <3>1. t \in Requests /\ peer' = Received(q, Headers(t)) BY <1>3, <2>1, <2>9 DEF Written, Sends
    <3>2. HeadersOn(peer', q, t) BY <2>2, <3>1, HeadersTaken
    <3>3. q.room \in [Requests -> Int] /\ q.stream \in [Requests -> StreamStates]
      BY <2>2 DEF PeerStates
    <3>4. \A s \in Requests \ {t} : peer'.room[s] = q.room[s] /\ peer'.stream[s] = q.stream[s]
      BY <3>2, <3>3 DEF HeadersOn
    <3>5. \A s \in Requests \ {t} : Covered(s)' /\ Fresh(s)' /\ RoomAhead(s)'
      BY <2>7, <3>2, <3>4 DEF HeadersOn
    <3>6. Covered(t)' /\ Fresh(t)' /\ RoomAhead(t)'
      <4>1. ~Opened(t) /\ id[t] # 0
        BY <2>9, <3>1 DEF QInv, Unopened, Opening, WInv, SInv, Streams, WithId
      <4>2. streamWindow[t] <= settings.window BY <2>3, <3>1, <4>1 DEF Fresh
      <4>3. reserved'[t] = 0 BY <1>5, <2>9, <3>1 DEF Rooms
      <4>4. peer'.room[t] = peer'.acked.window /\ peer'.acked = q.acked
        BY <3>1, <3>2, <3>3 DEF HeadersOn
      <4>5. Covered(t)'
        BY <1>4, <2>4, <2>5, <3>1, <4>2, <4>3, <4>4 DEF Covered, Sends
      <4>6. Fresh(t)' BY <4>2 DEF Fresh, Sends
      <4>7. QED BY <1>5, <3>1, <4>5, <4>6 DEF RoomAhead
    <3>7. Credit' BY <2>2, <2>3, <2>9, <3>2 DEF Credit, HeadersOn
    <3>8. ~peer'.overrun BY <2>2, <3>2 DEF HeadersOn, Rooms
    <3>9. QED BY <1>5, <3>5, <3>6, <3>7, <3>8 DEF Rooms
  <2>10. CASE pc[t] = "writing"
    <3>1. PICK end \in BOOLEAN : t \in Requests /\ peer' = Received(q, Data(t, reserved[t], end))
      BY <1>3, <2>1, <2>10 DEF Written, Sends
    <3>2. PICK n \in Nat : n = reserved[t] BY <2>4, <3>1
    <3>3. DataOn(peer', q, t, n, end) BY <2>2, <3>1, <3>2, DataTaken
    <3>4. q.room \in [Requests -> Int] /\ q.stream \in [Requests -> StreamStates]
      BY <2>2 DEF PeerStates
    <3>5. \A s \in Requests \ {t} : peer'.room[s] = q.room[s] /\ peer'.stream[s] = q.stream[s]
      BY <3>3, <3>4 DEF DataOn
    <3>6. \A s \in Requests \ {t} : Covered(s)' /\ Fresh(s)' /\ RoomAhead(s)'
      BY <2>7, <3>3, <3>5 DEF DataOn
    <3>7. Opened(t) BY <2>6, <2>10, <3>1 DEF QInv, WInv, SInv, Streams, WithId
    <3>8. q.room[t] - q.acked.window = peer.room[t] - peer.acked.window BY <2>2, <3>1
    <3>9. Covered(t)' /\ Fresh(t)' /\ RoomAhead(t)'
      <4>1. streamWindow[t] + n <= peer.room[t] + (settings.window - peer.acked.window)
        BY <2>3, <3>1, <3>2, <3>7 DEF Covered
      <4>2. reserved'[t] = 0 BY <1>5, <2>10, <3>1
      <4>3. peer'.room[t] = q.room[t] - n /\ peer'.acked = q.acked
        BY <3>1, <3>3, <3>4 DEF DataOn
      <4>4. streamWindow[t] <= peer'.room[t] + (settings.window - peer'.acked.window)
        BY <1>4, <2>4, <2>5, <3>1, <3>2, <3>8, <4>1, <4>3
      <4>5. Covered(t)' BY <2>4, <3>1, <4>2, <4>4 DEF Covered, Sends
      <4>6. peer'.stream[t] # "idle"
        BY <3>1, <3>3, <3>4 DEF DataOn
      <4>7. Fresh(t)' BY <4>6 DEF Fresh, Opened
      <4>8. QED BY <1>5, <3>1, <4>5, <4>7 DEF RoomAhead
    <3>10. n <= BodySize /\ n <= Cardinality(UnitsOf(reserved))
           /\ Cardinality(UnitsOf(reserved)) \in Nat
           /\ Cardinality(UnitsOf([reserved EXCEPT ![t] = 0])) + n = Cardinality(UnitsOf(reserved)) + 0
      <4>1. n <= BodySize
        <5>1. at[t] \in Nat /\ at[t] + reserved[t] <= BodySize BY <3>1 DEF QInv, WInv, Amounts
        <5>2. QED BY <3>2, <5>1, BoundsAssumption
      <4>2. 0 \in Nat /\ 0 <= BodySize BY BoundsAssumption
      <4>3. /\ Cardinality(UnitsOf(reserved)) \in Nat /\ reserved[t] <= Cardinality(UnitsOf(reserved))
            /\ Cardinality(UnitsOf([reserved EXCEPT ![t] = 0])) + reserved[t] =
                 Cardinality(UnitsOf(reserved)) + 0
        BY <1>4, <3>1, <3>2, <4>1, <4>2, UnitsChange
      <4>4. QED BY <3>2, <4>1, <4>3
    <3>11. PICK k \in Nat : k = Cardinality(UnitsOf(reserved)) BY <3>10
    <3>12. PICK j \in Nat : j = Cardinality(UnitsOf(reserved'))
      <4>1. PICK g : g = [reserved EXCEPT ![t] = 0] OBVIOUS
      <4>2. g \in [Requests -> Nat] /\ g[t] = 0 /\ 0 <= BodySize /\ reserved' = g
        BY <1>4, <2>10, <3>1, <4>1, BoundsAssumption
      <4>3. Cardinality(UnitsOf(g)) \in Nat BY <3>1, <4>2, UnitsChange
      <4>4. QED BY <4>2, <4>3
    <3>13. j + n = k + 0 BY <2>10, <3>10, <3>11, <3>12
    <3>14. sendWindow + k <= peer.allRoom BY <2>3, <3>11 DEF Credit
    <3>15. peer'.allRoom = peer.allRoom - n BY <2>2, <3>3 DEF DataOn
    <3>16. Credit'
      <4>1. sendWindow + j <= peer.allRoom - n BY <1>4, <2>5, <3>2, <3>11, <3>13, <3>14
      <4>2. QED BY <3>12, <3>15, <4>1 DEF Credit
    <3>17. ~peer'.overrun
      <4>1. n <= q.allRoom BY <1>4, <2>2, <2>5, <3>2, <3>10, <3>11, <3>14
      <4>2. PICK m \in Speaks :
              /\ Says(buffer[t], Len(buffer[t]), peer.acked, m)
              /\ reserved[t] <= peer.room[t] + (m.window - peer.acked.window)
        BY <2>3, <2>10, <3>1 DEF RoomAhead
      <4>3. Len(buffer[t]) \in Nat BY DEF QInv, WInv, Wire
      <4>4. m = q.acked BY <2>2, <4>2, <4>3, SaysOne
      <4>5. n <= q.room[t] BY <2>4, <2>5, <3>1, <3>2, <3>8, <4>2, <4>4
      <4>6. ~q.overrun BY <2>2 DEF Rooms
      <4>7. q.room[t] \in Int /\ q.allRoom \in Int BY <2>2, <2>4, <2>5, <3>1
      <4>8. ~(n > q.room[t]) /\ ~(n > q.allRoom) BY <3>2, <4>1, <4>5, <4>7
      <4>9. QED BY <3>3, <4>6, <4>8 DEF DataOn
    <3>18. QED BY <1>5, <3>6, <3>9, <3>16, <3>17 DEF Rooms
  <2>11. QED BY <2>8, <2>9, <2>10 DEF Sends, Keeping
<1>8. QED BY <1>6, <1>7

LEMMA FlushRooms ==
    ASSUME QInv, QInv', Rooms, NEW t \in Flushers, FlushStep(t)
    PROVE  Rooms'
<1>1. t \in Threads /\ (t \in Requests \/ t = Reader) BY OthersAreThreads DEF Flushers, Threads
<1>2. /\ pc[t] \in Flushing
      /\ UNCHANGED <<shut, settings, reserved, sendWindow, streamWindow, id>>
  BY DEF FlushStep, Flush, FlushSend, FlushLook, Flushing, streamVars, sessionVars, windowVars
<1>3. after[t] \notin {"writing", "chunk"}
  BY <1>1, <1>2 DEF QInv, WInv, SInv, Stages, Fits
<1>4. CASE FlushSend(t)
  <2>1. Sends(t, "flushed") /\ pc[t] = "flushing"
    BY <1>2, <1>4
    DEF Sends, FlushSend, LookedAgain, Keeping, Opening, streamVars, sessionVars, serverVars
  <2>2. reserved' = IF pc[t] = "writing" THEN [reserved EXCEPT ![t] = 0] ELSE reserved
    BY <1>2, <2>1
  <2>3. QED BY <1>1, <1>2, <2>1, <2>2, SentRooms
<1>5. CASE FlushLook(t) \/ Flush(t)
  <2>1. /\ peer' = peer /\ pc[t] \notin {"chunk", "writing"}
        /\ buffer' = buffer \/ \E b : buffer' = [buffer EXCEPT ![t] = b]
    BY <1>5 DEF Flush, FlushLook, Acquire, writeVars
  <2>2. PICK x \in {"flushing", "flush", after[t]} : pc' = [pc EXCEPT ![t] = x]
    BY <1>5 DEF Flush, FlushLook, Acquire
  <2>3. x # "writing" BY <1>3, <2>2
  <2>4. QED BY <1>1, <1>2, <2>1, <2>2, <2>3, SameGrants, RoomsQuiet
<1>6. QED BY <1>4, <1>5 DEF FlushStep

LEMMA OwnRooms ==
    ASSUME QInv, QInv', Rooms, NEW r \in Requests, SendHeaders(r) \/ SendData(r)
    PROVE  Rooms'
<1>1. r \in Threads BY RequestIsThread
<1>2. \A s \in Requests \ {r} : reserved'[s] = reserved[s]
  BY DEF SendHeaders, SendData, windowVars, QInv, WInv, Amounts
<1>3. Sends(r, "flush")
  BY <1>2
  DEF Sends, SendHeaders, SendData, Keeping, Opening, streamVars, sessionVars, serverVars
<1>4. /\ UNCHANGED <<sendWindow, streamWindow, id>>
      /\ reserved' = IF pc[r] = "writing" THEN [reserved EXCEPT ![r] = 0] ELSE reserved
  BY DEF SendHeaders, SendData, windowVars, streamVars
<1>5. QED BY <1>1, <1>3, <1>4, SentRooms

LEMMA HandledRooms ==
    ASSUME QInv, Rooms, NEW fatal, Receiving, Handled(fatal), GrantsSame,
           UNCHANGED <<sendWindow, streamWindow, settings>>
    PROVE  Rooms'
<1>1. /\ pc[Reader] = "receive" /\ pc' = [pc EXCEPT ![Reader] = "handled"]
      /\ UNCHANGED <<buffer, reserved, shut, id>>
  BY DEF Receiving, Handled
<1>2. QED BY <1>1, OthersAreThreads, RoomsQuiet

\* What the reader's step leaves to a request.
LEMMA HandledOthers ==
    ASSUME QInv, NEW fatal, Receiving, Handled(fatal)
    PROVE  /\ \A r \in Requests : pc'[r] = pc[r]
           /\ UNCHANGED <<buffer, reserved, shut, id>>
<1>1. pc' = [pc EXCEPT ![Reader] = "handled"] /\ UNCHANGED <<buffer, reserved, shut, id>>
  BY DEF Handled
<1>2. pc \in [Threads -> Places] /\ Reader \notin Requests
  BY RequestsAssumption DEF QInv, WInv, SInv, Stages
<1>3. QED BY <1>1, <1>2, RequestIsThread

\* SETTINGS whose window is no smaller than the last.
LEMMA SettingsRooms ==
    ASSUME QInv, QInv', Rooms, NEW s \in Settings, NewSettings(s), s.window >= settings.window
    PROVE  Rooms'
<1>1. /\ Receiving /\ Handled(FALSE) /\ peer' = peer /\ settings' = s /\ sendWindow' = sendWindow
      /\ streamWindow' = [r \in Requests |->
            IF r \in live THEN streamWindow[r] + (s.window - settings.window) ELSE streamWindow[r]]
  BY DEF NewSettings
<1>2. /\ \A r \in Requests : pc'[r] = pc[r]
      /\ UNCHANGED <<buffer, reserved, shut, id>>
  BY <1>1, HandledOthers
<1>3. /\ streamWindow \in [Requests -> Int] /\ reserved \in [Requests -> Nat] /\ peer \in PeerStates
      /\ settings \in Speaks /\ s \in Speaks
  BY <1>1 DEF QInv, WInv, Amounts, Queues
<1>4. PICK d \in Nat : d = s.window - settings.window BY <1>3 DEF Speaks
<1>5. ASSUME NEW r \in Requests
      PROVE  /\ streamWindow'[r] \in Int /\ streamWindow[r] \in Int
             /\ streamWindow[r] <= streamWindow'[r] /\ streamWindow'[r] <= streamWindow[r] + d
  <2>1. streamWindow[r] \in Int BY <1>3
  <2>2. streamWindow'[r] = IF r \in live THEN streamWindow[r] + d ELSE streamWindow[r]
    BY <1>1, <1>4
  <2>3. QED BY <2>1, <2>2
<1>6. ASSUME NEW r \in Requests
      PROVE  /\ streamWindow'[r] >= 0
             /\ reserved'[r] # 0 => pc'[r] \in {"chunk", "writing"}
  BY <1>2, <1>5 DEF Rooms
<1>7. ASSUME NEW r \in Requests, ~shut' PROVE Covered(r)' /\ Fresh(r)' /\ RoomAhead(r)'
  <2>1. Covered(r) /\ Fresh(r) /\ RoomAhead(r) BY <1>2, <1>7 DEF Rooms
  <2>2. Opened(r)' <=> Opened(r) BY <1>1 DEF Opened
  <2>3. /\ peer.room[r] \in Int /\ peer.acked.window \in Int /\ settings.window \in Int
        /\ s.window \in Int /\ reserved[r] \in Int
    BY <1>3 DEF PeerStates, Speaks
  <2>4. Covered(r)' BY <1>1, <1>2, <1>4, <1>5, <2>1, <2>2, <2>3 DEF Covered
  <2>5. Fresh(r)' BY <1>1, <1>2, <1>4, <1>5, <2>1, <2>2, <2>3 DEF Fresh
  <2>6. RoomAhead(r)' BY <1>1, <1>2, <2>1 DEF RoomAhead
  <2>7. QED BY <2>4, <2>5, <2>6
<1>8. ~shut' => Credit' BY <1>1, <1>2 DEF Rooms, Credit
<1>9. QED BY <1>1, <1>6, <1>7, <1>8 DEF Rooms

\* A WINDOW_UPDATE reaches the server's count before this side's.
LEMMA UpdateRooms ==
    ASSUME QInv, Rooms, NEW r \in Requests \cup {None}, WindowUpdate(r)
    PROVE  Rooms'
<1>1. /\ Receiving /\ Handled(FALSE) /\ settings' = settings
      /\ r # None => Opened(r)
      /\ IF r = None
           THEN sendWindow' = sendWindow + 1 /\ UNCHANGED streamWindow
           ELSE /\ streamWindow' = [streamWindow EXCEPT ![r] = IF r \in live THEN @ + 1 ELSE @]
                /\ UNCHANGED sendWindow
  BY DEF WindowUpdate
<1>2. /\ \A s \in Requests : pc'[s] = pc[s]
      /\ UNCHANGED <<buffer, reserved, shut, id>>
  BY <1>1, HandledOthers
<1>3. /\ peer' \in PeerStates /\ peer'.acked = peer.acked /\ peer'.stream = peer.stream
      /\ peer'.overrun = peer.overrun
      /\ peer'.allRoom = IF r = None THEN peer.allRoom + 1 ELSE peer.allRoom
      /\ \A s \in Requests : peer'.room[s] = IF s = r THEN peer.room[s] + 1 ELSE peer.room[s]
  BY UpdateTaken
<1>4. /\ streamWindow \in [Requests -> Int] /\ reserved \in [Requests -> Nat] /\ peer \in PeerStates
      /\ settings \in Speaks /\ sendWindow \in Nat
  BY DEF QInv, WInv, Amounts, Queues
<1>5. None \notin Requests BY RequestsAssumption
<1>6. ASSUME NEW s \in Requests
      PROVE  /\ streamWindow[s] \in Int /\ peer.room[s] \in Int /\ reserved[s] \in Nat
             /\ streamWindow'[s] = IF s = r /\ r \in live THEN streamWindow[s] + 1 ELSE streamWindow[s]
  BY <1>1, <1>4, <1>5 DEF PeerStates
<1>7. ASSUME NEW s \in Requests
      PROVE  /\ streamWindow'[s] >= 0
             /\ reserved'[s] # 0 => pc'[s] \in {"chunk", "writing"}
  BY <1>2, <1>6 DEF Rooms
<1>8. ASSUME NEW s \in Requests, ~shut' PROVE Covered(s)' /\ Fresh(s)' /\ RoomAhead(s)'
  <2>1. Covered(s) /\ Fresh(s) /\ RoomAhead(s) BY <1>2, <1>8 DEF Rooms
  <2>2. (Opened(s)' <=> Opened(s)) /\ (s = r => Opened(s)) BY <1>1, <1>3, <1>5 DEF Opened
  <2>3. peer.acked.window \in Int /\ settings.window \in Int BY <1>4 DEF PeerStates, Speaks
  <2>4. peer'.room[s] = IF s = r THEN peer.room[s] + 1 ELSE peer.room[s] BY <1>3
  <2>5. Covered(s)' BY <1>1, <1>2, <1>3, <1>6, <2>1, <2>2, <2>3, <2>4 DEF Covered
  <2>6. Fresh(s)' BY <1>1, <1>2, <1>6, <2>1, <2>2 DEF Fresh
  <2>7. RoomAhead(s)'
    <3>1. SUFFICES ASSUME pc'[s] = "writing"
                   PROVE  \E m \in Speaks :
                            /\ Says(buffer'[s], Len(buffer'[s]), peer'.acked, m)
                            /\ reserved'[s] <= peer'.room[s] + (m.window - peer'.acked.window)
      BY DEF RoomAhead
    <3>2. PICK m \in Speaks : /\ Says(buffer[s], Len(buffer[s]), peer.acked, m)
                              /\ reserved[s] <= peer.room[s] + (m.window - peer.acked.window)
      BY <1>2, <2>1, <3>1 DEF RoomAhead
    <3>3. m.window \in Int BY DEF Speaks
    <3>4. reserved[s] <= peer'.room[s] + (m.window - peer.acked.window)
      BY <1>6, <2>3, <2>4, <3>2, <3>3
    <3>5. QED BY <1>2, <1>3, <3>2, <3>4
  <2>8. QED BY <2>5, <2>6, <2>7
<1>9. ASSUME ~shut' PROVE Credit'
  <2>1. Credit BY <1>2, <1>9 DEF Rooms
  <2>2. PICK k \in Int : k = Cardinality(UnitsOf(reserved))
    <3>1. CASE Requests = {}
      <4>1. UnitsOf(reserved) = {} BY <3>1 DEF UnitsOf
      <4>2. QED BY <4>1, FS_EmptySet
    <3>2. CASE Requests # {}
      <4>1. PICK s \in Requests : TRUE BY <3>2
      <4>2. at[s] \in Nat /\ at[s] + reserved[s] <= BodySize /\ reserved[s] \in Nat
        BY <1>4 DEF QInv, WInv, Amounts
      <4>3. reserved[s] <= BodySize /\ 0 <= BodySize BY <4>2, BoundsAssumption
      <4>4. Cardinality(UnitsOf(reserved)) \in Nat BY <1>4, <4>3, UnitsChange
      <4>5. QED BY <4>4
    <3>3. QED BY <3>1, <3>2
  <2>3. peer.allRoom \in Int BY <1>4 DEF PeerStates
  <2>4. CASE r = None BY <1>1, <1>2, <1>3, <1>4, <2>1, <2>2, <2>3, <2>4 DEF Credit
  <2>5. CASE r # None BY <1>1, <1>2, <1>3, <2>1, <2>5 DEF Credit
  <2>6. QED BY <2>4, <2>5
<1>10. QED BY <1>3, <1>7, <1>8, <1>9 DEF Rooms

LEMMA ReceiveRooms ==
    ASSUME QInv, QInv', Rooms, Receive, settings'.window >= settings.window
    PROVE  Rooms'
<1>1. ASSUME NEW s \in Settings, NewSettings(s) PROVE Rooms'
  <2>1. settings' = s BY <1>1 DEF NewSettings
  <2>2. QED BY <1>1, <2>1, SettingsRooms
<1>2. ASSUME NEW r \in Requests \cup {None}, WindowUpdate(r) PROVE Rooms'
  BY <1>2, UpdateRooms
<1>3. ASSUME NEW r \in Requests, NEW code, ServerReset(r, code) PROVE Rooms'
  <2>1. /\ Receiving /\ Handled(FALSE) /\ UNCHANGED <<sendWindow, streamWindow, settings>>
    BY <1>3 DEF ServerReset
  <2>2. GrantsSame BY <1>3, ResetTaken DEF GrantsSame, Opened
  <2>3. QED BY <2>1, <2>2, HandledRooms
<1>4. ASSUME NEW fatal, Receiving, Handled(fatal), peer' = peer,
             UNCHANGED <<sendWindow, streamWindow, settings>>
      PROVE  Rooms'
  BY <1>4, SameGrants, HandledRooms
<1>5. CASE Ping BY <1>4, <1>5 DEF Ping
<1>6. ASSUME NEW r \in Requests, NEW end \in BOOLEAN, Response(r, end) PROVE Rooms'
  BY <1>4, <1>6 DEF Response
<1>7. ASSUME NEW r \in Requests, StreamError(r) PROVE Rooms'
  BY <1>4, <1>7 DEF StreamError
<1>8. ASSUME NEW last, NEW broken, PeerGoaway(last, broken) PROVE Rooms'
  BY <1>4, <1>8 DEF PeerGoaway
<1>9. CASE ConnectionError BY <1>4, <1>9 DEF ConnectionError
<1>10. QED BY <1>1, <1>2, <1>3, <1>5, <1>6, <1>7, <1>8, <1>9 DEF Receive

LEMMA SessionRooms ==
    ASSUME QInv, QInv', Rooms,
           ReceiveDead \/ Lost \/ ReaderNotifies \/ ReaderLeaves \/ Close \/ CloseSends \/ CloseShuts
    PROVE  Rooms'
<1>1. UNCHANGED <<sendWindow, streamWindow, reserved, settings, id>>
  BY DEF ReceiveDead, Lost, ReaderNotifies, ReaderLeaves, Close, CloseSends, CloseShuts,
         sessionVars, windowVars, streamVars
<1>2. CASE CloseSends
  <2>1. Sends(Closer, "shutting") /\ pc[Closer] = "closing"
    BY <1>2
    DEF Sends, CloseSends, Keeping, Opening, streamVars, sessionVars, windowVars, serverVars
  <2>2. QED BY <1>1, <2>1, OthersAreThreads, SentRooms
<1>3. CASE ~ CloseSends
  <2>1. /\ UNCHANGED peer
        /\ UNCHANGED shut \/ shut' = TRUE
    BY <1>3 DEF ReceiveDead, Lost, ReaderNotifies, ReaderLeaves, Close, CloseShuts
  <2>2. PICK t \in {Reader, Closer}, x \in {"handled", "flush", "gone", "closing", "shutting", "closed"} :
          /\ pc' = [pc EXCEPT ![t] = x] \/ pc' = [Notified EXCEPT ![t] = x]
          /\ pc[t] \in {"receive", "handled", "leave", "idle", "shutting"}
          /\ buffer' = buffer \/ \E b : buffer' = [buffer EXCEPT ![t] = b]
    BY <1>3
    DEF ReceiveDead, Lost, ReaderNotifies, ReaderLeaves, Close, CloseShuts, Acquire, writeVars
  <2>3. x # "writing" /\ pc[t] \notin {"chunk", "writing"} /\ t \in Threads
    BY <2>2, OthersAreThreads
  <2>4. QED BY <1>1, <2>1, <2>2, <2>3, SameGrants, RoomsQuiet
<1>4. QED BY <1>2, <1>3

LEMMA RoomsStutter ==
    ASSUME Rooms, UNCHANGED <<pc, buffer, windowVars, settings, id, peer>>, shut => shut'
    PROVE  Rooms'
<1>1. \A r \in Requests : Opened(r)' <=> Opened(r) BY DEF Opened
<1>2. ASSUME ~shut' PROVE Credit' /\ \A r \in Requests : Covered(r)' /\ Fresh(r)' /\ RoomAhead(r)'
  BY <1>1, <1>2 DEF Rooms, Credit, Covered, Fresh, RoomAhead, windowVars
<1>3. QED BY <1>2 DEF Rooms, windowVars

LEMMA RoomsInit == Init => Rooms
<1> SUFFICES ASSUME Init PROVE Rooms OBVIOUS
<1>1. /\ \A r \in Requests : reserved[r] = 0 /\ streamWindow[r] = 0 /\ id[r] = 0 /\ ~Opened(r)
      /\ sendWindow = Defaults.window /\ peer.allRoom = Defaults.window /\ ~peer.overrun
      /\ reserved \in [Requests -> {0}]
  BY DEF Init, Opened
<1>2. UnitsOf(reserved) = {} BY <1>1 DEF UnitsOf
<1>3. Cardinality(UnitsOf(reserved)) = 0 BY <1>2, FS_EmptySet
<1>4. Defaults.window \in Nat BY SettingsAssumption
<1>5. Credit BY <1>1, <1>3, <1>4 DEF Credit
<1>6. \A r \in Requests : pc[r] = "slot" BY RequestIsThread DEF Init
<1>7. \A r \in Requests : Covered(r) /\ Fresh(r) /\ RoomAhead(r)
  BY <1>1, <1>6 DEF Covered, Fresh, RoomAhead
<1>8. QED BY <1>1, <1>5, <1>7 DEF Rooms

\* So the windows are kept by every step that narrows none.
LEMMA RoomsKept == QInv /\ QInv' /\ Rooms /\ [Next]_vars /\ settings'.window >= settings.window => Rooms'
<1> SUFFICES ASSUME QInv, QInv', Rooms, [Next]_vars, settings'.window >= settings.window
             PROVE  Rooms'
    OBVIOUS
<1>1. ASSUME NEW r \in Requests, RequestStep(r) PROVE Rooms'
  BY <1>1, RequestRooms, RegisterRooms, ReserveRooms, WriteRooms, OwnRooms, FlushRooms
  DEF RequestStep, Flushers
<1>2. CASE FlushStep(Reader) BY <1>2, FlushRooms DEF Flushers
<1>3. ASSUME NEW r \in Requests, Act(r) PROVE Rooms'
  BY <1>3, RoomsStutter DEF Act, writeVars, sessionVars, streamVars
<1>4. CASE ConnectionFails
  BY <1>4, RoomsStutter DEF ConnectionFails, writeVars, sessionVars, streamVars
<1>5. CASE UNCHANGED vars BY <1>5, RoomsStutter DEF vars, writeVars, sessionVars, streamVars
<1>6. QED BY <1>1, <1>2, <1>3, <1>4, <1>5, ReceiveRooms, SessionRooms DEF Next, Over

\* The server's windows never shrink: no SETTINGS asks for less than the last.
WindowsNeverShrink == [][settings'.window >= settings.window]_settings

\* DATA stays within the windows as the server knows them acknowledged, the
\* stream's and the connection's, of a server that takes none of them back: a
\* chunk is reserved in exchange() under m_mutex and written later, behind what
\* the reader has queued, beside other uploads, WINDOW_UPDATEs and SETTINGS.
THEOREM NeverOverruns == Spec /\ WindowsNeverShrink => []NeverOverrun
<1>1. Init => QInv /\ Rooms BY QueuesInit, RoomsInit
<1>2. ASSUME QInv, Rooms, [Next]_vars, [settings'.window >= settings.window]_settings
      PROVE  (QInv /\ Rooms)'
  <2>1. QInv' BY <1>2, QueuesKept
  <2>2. settings.window \in Nat BY <1>2 DEF QInv, WInv, Amounts, Speaks
  <2>3. settings'.window >= settings.window BY <1>2, <2>2
  <2>4. QED BY <1>2, <2>1, <2>3, RoomsKept
<1>3. QInv /\ Rooms => NeverOverrun BY DEF Rooms, NeverOverrun
<1>4. QED BY <1>1, <1>2, <1>3, PTL DEF Spec, WindowsNeverShrink

-----------------------------------------------------------------------------
(* The limit.  A stream the server counts is open here too, or the frame   *)
(* that resets it is on its way, ahead of the HEADERS that take its slot.  *)

\* The streams the server will count once these frames are in.
Burden(fs) == {s \in Counted(peer) : ~Withdrawn(s, fs, Len(fs))}

Accounted ==
    ~dead /\ ~goingAway =>
        \A s \in Counted(peer) :
            s \in live \/ Withdrawn(s, Held, Len(Held)) \/ Withdrawn(s, output, Len(output))

\* A registered stream has its slot with the server once what is owed is in,
\* and so does one whose HEADERS are about to be written.
SlotAhead(r) ==
    pc[r] = "registered" => Cardinality(Burden(output) \cup {r}) <= settings.limit
SlotOnWire(r) ==
    pc[r] = "sending" =>
        \E m \in Speaks : /\ Says(buffer[r], Len(buffer[r]), peer.acked, m)
                          /\ Cardinality(Burden(buffer[r]) \cup {r}) <= m.limit

OpeningLive == ~dead /\ ~goingAway => \A r \in Requests : pc[r] \in Opening => r \in live

Crowd ==
    /\ ~peer.crowded /\ open <= settings.limit /\ OpeningLive
    /\ acted \subseteq Requests /\ \A r \in acted : Opened(r)
    /\ ~shut => Accounted /\ \A r \in Requests : SlotAhead(r) /\ SlotOnWire(r)

\* The server ends no response before the whole request has reached it.
Patient == \A r \in answered : peer.stream[r] # "open"

\* A stream that ends while the session goes on is one the server has seen,
\* and counts no more unless a reset for it is owed.
Losses ==
    ~dead' /\ ~goingAway' =>
        /\ ~dead /\ ~goingAway
        /\ \A s \in live : \/ s \in live'
                           \/ /\ pc[s] \notin Opening
                              /\ s \in Counted(peer)' => Withdrawn(s, output', Len(output'))

Passes ==
    /\ open' <= open \/ (open < settings.limit /\ open' = open + 1 /\ settings' = settings)
    /\ acted' \subseteq Requests /\ \A r \in acted' : r \in acted \/ Opened(r)
    /\ Losses

LEMMA OpenTyped ==
    ASSUME QInv
    PROVE  open \in Nat
<1>1. PICK a \in Nat, b \in Nat : open = a + b
  BY StreamsFinite DEF QInv, WInv, SInv, Slots
<1>2. QED BY <1>1

LEMMA PassesBy ==
    ASSUME QInv, Crowd, UNCHANGED <<open, live, acted>>, dead' \/ dead' = dead,
           goingAway' \/ goingAway' = goingAway
    PROVE  Passes
<1>1. open' <= open BY OpenTyped
<1>2. QED BY <1>1 DEF Passes, Losses, Crowd

\* Streams that end give their slots back.
LEMMA EndsFewer ==
    ASSUME QInv, NEW D, DOMAIN D \subseteq Requests, EndStreams(D)
    PROVE  open' <= open /\ live' = live \ DOMAIN D
<1>1. IsFiniteSet(DOMAIN D) BY RequestsAssumption, FS_Subset
<1>2. PICK n \in Nat : n = Cardinality(DOMAIN D) BY <1>1, FS_CardinalityType
<1>3. open' = open - n /\ live' = live \ DOMAIN D BY <1>2 DEF EndStreams
<1>4. QED BY <1>2, <1>3, OpenTyped

LEMMA WithdrawnLast ==
    ASSUME NEW S, NEW fs \in Seq(S), NEW r
    PROVE  /\ Withdrawn(r, Append(fs, Rst(r)), Len(Append(fs, Rst(r))))
           /\ \A f, s : Withdrawn(s, fs, Len(fs)) =>
                          Withdrawn(s, Append(fs, f), Len(Append(fs, f)))
<1>1. ASSUME NEW f
      PROVE  /\ Len(Append(fs, f)) = Len(fs) + 1 /\ Append(fs, f)[Len(fs) + 1] = f
             /\ Len(fs) + 1 \in 1..Len(fs) + 1
             /\ \A i \in 1..Len(fs) : i \in 1..Len(fs) + 1 /\ Append(fs, f)[i] = fs[i]
  OBVIOUS
<1>2. Rst(r).kind = "RST_STREAM" /\ Rst(r).r = r BY OwedTyped
<1>3. Withdrawn(r, Append(fs, Rst(r)), Len(Append(fs, Rst(r)))) BY <1>1, <1>2 DEF Withdrawn
<1>4. ASSUME NEW f, NEW s, Withdrawn(s, fs, Len(fs))
      PROVE  Withdrawn(s, Append(fs, f), Len(Append(fs, f)))
  <2>1. PICK i \in 1..Len(fs) : fs[i].kind = "RST_STREAM" /\ fs[i].r = s BY <1>4 DEF Withdrawn
  <2>2. i \in 1..Len(Append(fs, f)) /\ Append(fs, f)[i] = fs[i] BY <1>1
  <2>3. QED BY <2>1, <2>2 DEF Withdrawn
<1>5. QED BY <1>3, <1>4

LEMMA WithdrawnJoined ==
    ASSUME NEW S, NEW fs \in Seq(S), NEW gs \in Seq(S), NEW r, Withdrawn(r, fs, Len(fs))
    PROVE  Withdrawn(r, fs \o gs, Len(fs \o gs))
<1>1. PICK i \in 1..Len(fs) : fs[i].kind = "RST_STREAM" /\ fs[i].r = r BY DEF Withdrawn
<1>2. i \in 1..Len(fs \o gs) /\ (fs \o gs)[i] = fs[i] OBVIOUS
<1>3. QED BY <1>1, <1>2 DEF Withdrawn

\* One stream ends, seen by the server and with nothing to count or a reset owed.
LEMMA OneLost ==
    ASSUME QInv, Crowd, NEW r \in Requests, NEW o, EndStreams([x \in {r} |-> o]),
           dead' \/ ~dead, goingAway' = goingAway, pc[r] \notin Opening,
           r \in Counted(peer)' => Withdrawn(r, output', Len(output')),
           acted' \subseteq Requests, \A s \in acted' : s \in acted \/ Opened(s)
    PROVE  Passes
<1>1. open' <= open /\ live' = live \ {r}
  <2>1. DOMAIN [x \in {r} |-> o] = {r} OBVIOUS
  <2>2. QED BY <2>1, EndsFewer
<1>2. Losses BY <1>1 DEF Losses
<1>3. QED BY <1>1, <1>2 DEF Passes

LEMMA RequestPasses ==
    ASSUME QInv, Crowd, NEW r \in Requests, RequestStep(r)
    PROVE  Passes
<1>1. CASE Slot(r)
  <2>1. UNCHANGED <<live, acted, dead, goingAway, settings>>
        /\ (open' = open \/ (open < settings.limit /\ open' = open + 1))
    BY <1>1 DEF Slot, FreeSlot, sessionVars, serverVars
  <2>2. QED BY <2>1, OpenTyped DEF Passes, Losses, Crowd
<1>2. CASE Unregistered(r)
  <2>1. UNCHANGED <<live, acted, dead>> /\ open' = open - 1
    BY <1>2 DEF Unregistered, SlotReturned, serverVars
  <2>2. goingAway' \/ ~goingAway BY <1>2 DEF Unregistered, QInv, WInv, SInv, Dead
  <2>3. Losses BY <2>1, <2>2 DEF Losses
  <2>4. QED BY <2>1, <2>3, OpenTyped DEF Passes, Crowd
<1>3. CASE Register(r)
  <2>1. UNCHANGED <<open, acted, dead, goingAway>> /\ live' = live \cup {r}
    BY <1>3 DEF Register, sessionVars, serverVars
  <2>2. QED BY <2>1, OpenTyped DEF Passes, Losses, Crowd
<1>4. CASE Stall(r)
  <2>1. /\ UNCHANGED <<dead, goingAway, acted>> /\ output' = Append(output, Rst(r))
        /\ EndStreams([x \in {r} |-> "Failed"]) /\ pc[r] \in {"body", "wait"}
    BY <1>4 DEF Stall, GiveUpAloud, Timed, sessionVars, serverVars
  <2>2. Withdrawn(r, output', Len(output'))
    <3>1. output \in Seq(FramesOn(Numbered)) BY DEF QInv, WInv, Wire
    <3>2. QED BY <2>1, <3>1, WithdrawnLast
  <2>3. QED BY <2>1, <2>2, OneLost DEF Opening, Crowd
<1>5. CASE FlushStep(r)
  <2>1. UNCHANGED <<open, live, acted, dead, goingAway>>
    BY <1>5 DEF FlushStep, Flush, FlushSend, FlushLook, streamVars, sessionVars, serverVars
  <2>2. QED BY <2>1, PassesBy
<1>6. CASE ~(Slot(r) \/ Unregistered(r) \/ Register(r) \/ Stall(r) \/ FlushStep(r))
  <2>1. UNCHANGED <<open, live, acted, dead, goingAway>>
    BY <1>6
    DEF RequestStep, LockWrite, TakeAndEncode, SendHeaders, ReserveChunk, TakeAndWrite, SendData,
        BodyOver, CloseOurSide, Return, streamVars, sessionVars, serverVars
  <2>2. QED BY <2>1, PassesBy
<1>7. QED BY <1>1, <1>2, <1>3, <1>4, <1>5, <1>6

LEMMA ReceivePasses ==
    ASSUME QInv, Crowd, Receive, Patient'
    PROVE  Passes
<1>1. Receiving /\ ~dead BY DEF Receive, NewSettings, Ping, WindowUpdate, Response, StreamError,
                                 ServerReset, PeerGoaway, ConnectionError, Receiving
<1>2. ASSUME UNCHANGED <<open, live, acted, goingAway>> PROVE Passes
  <2>1. open' <= open BY <1>2, OpenTyped
  <2>2. Losses BY <1>1, <1>2 DEF Losses
  <2>3. QED BY <1>2, <2>1, <2>2 DEF Passes, Crowd
<1>3. ASSUME NEW s \in Settings, NewSettings(s) PROVE Passes
  <2>1. UNCHANGED <<open, live, acted, goingAway>> BY <1>3 DEF NewSettings
  <2>2. QED BY <1>2, <2>1
<1>4. CASE Ping
  <2>1. UNCHANGED <<open, live, acted, goingAway>> BY <1>4 DEF Ping
  <2>2. QED BY <1>2, <2>1
<1>5. ASSUME NEW r \in Requests \cup {None}, WindowUpdate(r) PROVE Passes
  <2>1. UNCHANGED <<open, live, acted, goingAway>> BY <1>5 DEF WindowUpdate
  <2>2. QED BY <1>2, <2>1
<1>6. \A r \in Requests : Opened(r) => pc[r] \notin Opening BY DEF QInv, Unopened
<1>7. ASSUME NEW r \in Requests, NEW end \in BOOLEAN, Response(r, end) PROVE Passes
  <2>1. /\ Opened(r) /\ acted' = acted \cup {r} /\ UNCHANGED <<goingAway, peer>>
        /\ answered' = IF end THEN answered \cup {r} ELSE answered
    BY <1>7 DEF Response
  <2>2. acted' \subseteq Requests /\ \A s \in acted' : s \in acted \/ Opened(s)
    BY <2>1 DEF Crowd
  <2>3. CASE end /\ r \in live
    <3>1. EndStreams([x \in {r} |-> "Done"]) BY <1>7, <2>3 DEF Response
    <3>2. r \notin Counted(peer)'
      <4>1. r \in answered' /\ peer'.stream[r] # "open" BY <2>1, <2>3 DEF Patient
      <4>2. QED BY <4>1 DEF Counted
    <3>3. QED BY <1>1, <1>6, <2>1, <2>2, <3>1, <3>2, OneLost
  <2>4. CASE ~(end /\ r \in live)
    <3>1. UNCHANGED <<live, open, goingAway>> BY <1>7, <2>4 DEF Response
    <3>2. open' <= open BY <3>1, OpenTyped
    <3>3. Losses BY <1>1, <3>1 DEF Losses
    <3>4. QED BY <2>2, <3>2, <3>3 DEF Passes
  <2>5. QED BY <2>3, <2>4
<1>8. ASSUME NEW r \in Requests, StreamError(r) PROVE Passes
  <2>1. /\ r \in acted /\ UNCHANGED <<acted, goingAway>> /\ output' = Append(output, Rst(r))
        /\ EndStreams([x \in {r} |-> "Failed"])
    BY <1>8 DEF StreamError, serverVars
  <2>2. Withdrawn(r, output', Len(output'))
    <3>1. output \in Seq(FramesOn(Numbered)) BY DEF QInv, WInv, Wire
    <3>2. QED BY <2>1, <3>1, WithdrawnLast
  <2>3. Opened(r) BY <2>1 DEF Crowd
  <2>4. QED BY <1>1, <1>6, <2>1, <2>2, <2>3, OneLost DEF Crowd
<1>9. ASSUME NEW r \in Requests, NEW code, ServerReset(r, code) PROVE Passes
  <2>1. Opened(r) /\ UNCHANGED <<acted, goingAway>> BY <1>9 DEF ServerReset
  <2>2. r \notin Counted(peer)'
    <3>1. peer'.stream[r] = "reset" BY <1>9, ResetTaken
    <3>2. QED BY <3>1 DEF Counted
  <2>3. CASE r \in live
    <3>1. EndStreams([x \in {r} |-> ResetOutcome(r, code)]) BY <1>9, <2>3 DEF ServerReset
    <3>2. QED BY <1>1, <1>6, <2>1, <2>2, <3>1, OneLost DEF Crowd
  <2>4. CASE r \notin live
    <3>1. UNCHANGED <<live, open>> BY <1>9, <2>4 DEF ServerReset
    <3>2. QED BY <1>2, <2>1, <3>1
  <2>5. QED BY <2>3, <2>4
<1>10. ASSUME NEW last, NEW broken, PeerGoaway(last, broken) PROVE Passes
  <2>1. PICK D : /\ EndStreams(D) /\ DOMAIN D = Past(GoawayLast(last))
                 /\ goingAway' = TRUE /\ acted' = acted
    BY <1>10 DEF PeerGoaway
  <2>2. DOMAIN D \subseteq Requests
    BY <2>1, StreamsFinite DEF Past, QInv, WInv, SInv
  <2>3. open' <= open BY <2>1, <2>2, EndsFewer
  <2>4. QED BY <2>1, <2>3 DEF Passes, Losses, Crowd
<1>11. CASE ConnectionError
  <2>1. /\ EndStreams(AllUnanswered(TRUE)) /\ acted' = acted /\ dead'
    BY <1>11 DEF ConnectionError, Handled, serverVars
  <2>2. DOMAIN AllUnanswered(TRUE) = live /\ live \subseteq Requests
    BY StreamsFinite DEF AllUnanswered, QInv, WInv, SInv
  <2>3. open' <= open BY <2>1, <2>2, EndsFewer
  <2>4. QED BY <2>1, <2>3 DEF Passes, Losses, Crowd
<1>12. QED BY <1>3, <1>4, <1>5, <1>7, <1>8, <1>9, <1>10, <1>11 DEF Receive

LEMMA SessionPasses ==
    ASSUME QInv, Crowd,
           ReceiveDead \/ Lost \/ ReaderNotifies \/ ReaderLeaves \/ Close \/ CloseSends \/ CloseShuts
           \/ ConnectionFails \/ FlushStep(Reader) \/ UNCHANGED vars
    PROVE  Passes
<1>1. CASE Lost \/ Close
  <2>1. PICK broken : /\ dead' /\ acted' = acted
                      /\ IF dead THEN UNCHANGED <<live, open, outcome>>
                         ELSE EndStreams(AllUnanswered(broken))
    BY <1>1 DEF Lost, Close, serverVars
  <2>2. DOMAIN AllUnanswered(broken) = live /\ live \subseteq Requests
    BY StreamsFinite DEF AllUnanswered, QInv, WInv, SInv
  <2>3. open' <= open BY <2>1, <2>2, EndsFewer, OpenTyped
  <2>4. QED BY <2>1, <2>3 DEF Passes, Losses, Crowd
<1>2. CASE ~(Lost \/ Close)
  <2>1. UNCHANGED <<open, live, acted, dead, goingAway>>
    BY <1>2
    DEF ReceiveDead, ReaderNotifies, ReaderLeaves, CloseSends, CloseShuts, ConnectionFails,
        FlushStep, Flush, FlushSend, FlushLook, vars, streamVars, sessionVars, serverVars
  <2>2. QED BY <2>1, PassesBy
<1>3. QED BY <1>1, <1>2

\* So each step loses no stream that still counts.
LEMMA StepPasses ==
    ASSUME QInv, Crowd, [Next]_vars, Patient'
    PROVE  Passes
<1>1. ASSUME NEW r \in Requests, Act(r) PROVE Passes
  <2>1. /\ UNCHANGED <<open, live, dead, goingAway>> /\ acted' = acted \cup {r} /\ Opened(r)
    BY <1>1 DEF Act, streamVars, sessionVars
  <2>2. open' <= open BY <2>1, OpenTyped
  <2>3. Losses BY <2>1 DEF Losses
  <2>4. QED BY <2>1, <2>2, <2>3 DEF Passes, Crowd
<1>2. QED BY <1>1, RequestPasses, ReceivePasses, SessionPasses DEF Next, Over

\* Fewer streams count for no more.
LEMMA CountedFewer ==
    ASSUME NEW A, NEW B, A \subseteq B, B \subseteq Requests
    PROVE  /\ Cardinality(A) \in Nat /\ Cardinality(B) \in Nat /\ Cardinality(A) <= Cardinality(B)
           /\ IsFiniteSet(A) /\ IsFiniteSet(B)
<1>1. IsFiniteSet(B) BY RequestsAssumption, FS_Subset
<1>2. QED BY <1>1, FS_Subset, FS_CardinalityType

LEMMA OpeningFrom ==
    ASSUME QInv, StepKind, NEW r \in Requests, pc'[r] \in Opening
    PROVE  pc[r] \in Opening \/ Register(r)
<1>1. pc \in [Threads -> Places] /\ r \in Threads
  BY RequestIsThread DEF QInv, WInv, SInv, Stages
<1>2. CASE Quiet BY <1>2 DEF Quiet
<1>3. ASSUME NEW t \in Threads, NEW x, NEW own, Takes(t, x, own)
      PROVE  pc[r] \in Opening
  <2>1. pc' = [pc EXCEPT ![t] = x] BY <1>3 DEF Takes
  <2>2. CASE r = t BY <1>1, <1>3, <2>1, <2>2 DEF Takes, Opening, Keeping
  <2>3. CASE r # t BY <1>1, <2>1, <2>3
  <2>4. QED BY <2>2, <2>3
<1>4. ASSUME NEW t \in Threads, NEW x, Sends(t, x)
      PROVE  pc[r] \in Opening
  <2>1. pc' = [pc EXCEPT ![t] = x] /\ x \notin Opening BY <1>4 DEF Sends
  <2>2. QED BY <1>1, <2>1
<1>5. QED BY <1>2, <1>3, <1>4 DEF StepKind

\* What every step keeps, whatever it does to the frames.
LEMMA CrowdCommon ==
    ASSUME QInv, Crowd, StepKind, Passes, [Next]_vars, settings' \in Speaks,
           settings'.limit >= settings.limit
    PROVE  /\ open' <= settings'.limit /\ OpeningLive'
           /\ acted' \subseteq Requests /\ \A r \in acted' : Opened(r)'
<1>1. open' <= settings'.limit
  <2>1. settings.limit \in Nat /\ settings'.limit \in Nat BY DEF QInv, WInv, Amounts, Speaks
  <2>2. open \in Nat BY OpenTyped
  <2>3. open <= settings.limit BY DEF Crowd
  <2>4. CASE open < settings.limit /\ open' = open + 1 BY <2>1, <2>2, <2>4
  <2>5. CASE open' <= open /\ open' \in Nat BY <2>1, <2>2, <2>3, <2>5
  <2>6. open' \in Nat \/ (open < settings.limit /\ open' = open + 1)
    <3>1. SInv' BY StructureKept DEF QInv, WInv
    <3>2. PICK a \in Nat, b \in Nat : open' = a + b
      <4>1. /\ IsFiniteSet(live') /\ IsFiniteSet(Slotted')
        <5>1. live' \subseteq Requests /\ Slotted' \subseteq Requests
          BY <3>1 DEF SInv, Streams, Slotted
        <5>2. QED BY <5>1, RequestsAssumption, FS_Subset
      <4>2. Cardinality(live') \in Nat /\ Cardinality(Slotted') \in Nat
        BY <4>1, FS_CardinalityType
      <4>3. open' = Cardinality(live') + Cardinality(Slotted') BY <3>1 DEF SInv, Slots
      <4>4. QED BY <4>2, <4>3
    <3>3. QED BY <3>2
  <2>7. QED BY <2>4, <2>5, <2>6 DEF Passes
<1>2. OpeningLive'
  <2>1. SUFFICES ASSUME ~dead', ~goingAway', NEW r \in Requests, pc'[r] \in Opening
                 PROVE  r \in live'
    BY DEF OpeningLive
  <2>2. CASE Register(r) BY <2>2 DEF Register
  <2>3. CASE pc[r] \in Opening
    <3>1. ~dead /\ ~goingAway BY <2>1 DEF Passes, Losses
    <3>2. r \in live BY <2>3, <3>1 DEF Crowd, OpeningLive
    <3>3. QED BY <2>1, <2>3, <3>2 DEF Passes, Losses
  <2>4. QED BY <2>1, <2>2, <2>3, OpeningFrom
<1>3. acted' \subseteq Requests /\ \A r \in acted' : Opened(r)'
  <2>1. acted' \subseteq Requests /\ \A r \in acted' : Opened(r) BY DEF Passes, Crowd
  <2>2. QED BY <2>1, OpenedStays DEF QInv
<1>4. QED BY <1>1, <1>2, <1>3

\* The frames after a quiet step.
LEMMA QuietOwes ==
    ASSUME QInv, Quiet
    PROVE  \A s : Withdrawn(s, output, Len(output)) => Withdrawn(s, output', Len(output'))
<1>1. output \in Seq(FramesOn(Numbered)) BY DEF QInv, WInv, Wire
<1>2. CASE output' = output BY <1>2
<1>3. CASE \E f : output' = Append(output, f) BY <1>1, <1>3, WithdrawnLast
<1>4. QED BY <1>2, <1>3 DEF Quiet

\* A slot taken here is one the server has, or will have.
LEMMA RegisterSlot ==
    ASSUME QInv, Crowd, ~shut, NEW r \in Requests, Register(r)
    PROVE  Cardinality(Burden(output) \cup {r}) <= settings.limit
<1>1. pc[r] = "locked" /\ ~dead /\ ~goingAway BY DEF Register, GoneSince
<1>2. r \in Threads /\ r # None BY RequestIsThread, RequestsAssumption
<1>3. writer = r BY <1>1, <1>2 DEF QInv, WInv, SInv, Holding, HoldingPlaces
<1>4. Held = <<>> BY <1>1, <1>2, <1>3 DEF Held, QInv, Queues, Keeping
<1>5. Burden(output) \subseteq live
  <2>1. \A s : ~Withdrawn(s, Held, Len(Held))
    <3>1. Len(<<>>) = 0 /\ \A i \in 1..0 : FALSE OBVIOUS
    <3>2. QED BY <1>4, <3>1 DEF Withdrawn
  <2>2. QED BY <1>1, <2>1 DEF Burden, Crowd, Accounted
<1>6. live \subseteq Requests /\ r \notin live /\ r \in Slotted /\ Slotted \subseteq Requests
  BY <1>1, <1>2, StreamsFinite DEF QInv, WInv, SInv, Streams, Slotted, SlotPlaces, BeforeId
<1>7. PICK a \in Nat, b \in Nat : a = Cardinality(live) /\ b = Cardinality(Slotted) /\ open = a + b
  BY StreamsFinite DEF QInv, WInv, SInv, Slots
<1>8. b >= 1
  <2>1. Cardinality({r}) = 1 /\ Cardinality({r}) <= Cardinality(Slotted)
    BY <1>6, CountedFewer, FS_Singleton
  <2>2. QED BY <1>7, <2>1
<1>9. Cardinality(live \cup {r}) = a + 1
  <2>1. IsFiniteSet(live) BY <1>6, CountedFewer
  <2>2. QED BY <1>6, <1>7, <2>1, FS_AddElement
<1>10. Cardinality(Burden(output) \cup {r}) \in Nat /\ Cardinality(Burden(output) \cup {r}) <= a + 1
  <2>1. Burden(output) \cup {r} \subseteq live \cup {r} /\ live \cup {r} \subseteq Requests
    BY <1>5, <1>6
  <2>2. QED BY <1>9, <2>1, CountedFewer
<1>11. open <= settings.limit /\ settings.limit \in Nat
  BY DEF Crowd, QInv, WInv, Amounts, Speaks
<1>12. QED BY <1>7, <1>8, <1>10, <1>11

\* What is counted only shrinks in a quiet step, and a registration has its slot.
LEMMA CrowdQuiet ==
    ASSUME QInv, Crowd, Quiet, Passes, settings' \in Speaks, settings'.limit >= settings.limit,
           ~shut'
    PROVE  Accounted' /\ \A r \in Requests : SlotAhead(r)' /\ SlotOnWire(r)'
<1>1. ~shut /\ PeerCalm BY DEF Quiet
<1>2. Counted(peer)' \subseteq Counted(peer) /\ Counted(peer) \subseteq Requests
  BY <1>1 DEF PeerCalm, Counted
<1>3. \A s : Withdrawn(s, output, Len(output)) => Withdrawn(s, output', Len(output'))
  BY QuietOwes
<1>4. settings.limit \in Nat /\ settings'.limit \in Nat BY DEF QInv, WInv, Amounts, Speaks
<1>5. Accounted'
  <2>1. SUFFICES ASSUME ~dead', ~goingAway', NEW s \in Counted(peer)'
                 PROVE  s \in live' \/ Withdrawn(s, Held', Len(Held'))
                          \/ Withdrawn(s, output', Len(output'))
    BY DEF Accounted
  <2>2. ~dead /\ ~goingAway BY <2>1 DEF Passes, Losses
  <2>3. s \in live \/ Withdrawn(s, Held, Len(Held)) \/ Withdrawn(s, output, Len(output))
    BY <1>1, <1>2, <2>1, <2>2 DEF Crowd, Accounted
  <2>4. Held' = Held BY DEF Quiet
  <2>5. QED BY <1>3, <2>1, <2>3, <2>4 DEF Passes, Losses
<1>6. ASSUME NEW fs, NEW gs, \A s : Withdrawn(s, fs, Len(fs)) => Withdrawn(s, gs, Len(gs))
      PROVE  {s \in Counted(peer)' : ~Withdrawn(s, gs, Len(gs))} \subseteq Burden(fs)
  BY <1>2, <1>6 DEF Burden
<1>7. ASSUME NEW r \in Requests PROVE SlotAhead(r)' /\ SlotOnWire(r)'
  <2>1. r \in Threads BY RequestIsThread
  <2>2. pc'[r] = pc[r] \/ (pc[r] \notin Keeping /\ pc'[r] \notin Keeping) BY <2>1 DEF Quiet
  <2>3. ASSUME pc'[r] = "registered" PROVE Cardinality(Burden(output)' \cup {r}) <= settings'.limit
    <3>1. pc[r] = "registered" \/ Register(r) BY <2>2, <2>3 DEF Quiet, Opening, Keeping
    <3>2. Cardinality(Burden(output) \cup {r}) <= settings.limit
      BY <1>1, <3>1, RegisterSlot DEF Crowd, SlotAhead
    <3>3. Burden(output)' \subseteq Burden(output) BY <1>3, <1>6 DEF Burden
    <3>4. Burden(output) \cup {r} \subseteq Requests BY <1>2 DEF Burden
    <3>5. QED
      <4>1. Burden(output)' \cup {r} \subseteq Burden(output) \cup {r} BY <3>3
      <4>2. /\ Cardinality(Burden(output)' \cup {r}) <= Cardinality(Burden(output) \cup {r})
            /\ Cardinality(Burden(output)' \cup {r}) \in Nat
            /\ Cardinality(Burden(output) \cup {r}) \in Nat
        BY <3>4, <4>1, CountedFewer
      <4>3. QED BY <1>4, <3>2, <4>2
  <2>4. ASSUME pc'[r] = "sending" PROVE SlotOnWire(r)'
    <3>1. pc[r] = "sending" BY <2>2, <2>4 DEF Keeping
    <3>2. PICK m \in Speaks : /\ Says(buffer[r], Len(buffer[r]), peer.acked, m)
                              /\ Cardinality(Burden(buffer[r]) \cup {r}) <= m.limit
      BY <1>1, <3>1 DEF Crowd, SlotOnWire
    <3>3. buffer' = buffer /\ peer'.acked = peer.acked BY <1>1 DEF Quiet, PeerCalm
    <3>4. PICK fs : fs = buffer[r] OBVIOUS
    <3>5. Burden(buffer[r])' \subseteq Burden(buffer[r]) BY <1>6, <3>3 DEF Burden
    <3>6. Burden(buffer[r]) \cup {r} \subseteq Requests BY <1>2 DEF Burden
    <3>7. m.limit \in Nat BY DEF Speaks
    <3>8. Cardinality(Burden(buffer[r])' \cup {r}) <= m.limit
      <4>1. Burden(buffer[r])' \cup {r} \subseteq Burden(buffer[r]) \cup {r} BY <3>5
      <4>2. /\ Cardinality(Burden(buffer[r])' \cup {r}) <= Cardinality(Burden(buffer[r]) \cup {r})
            /\ Cardinality(Burden(buffer[r])' \cup {r}) \in Nat
            /\ Cardinality(Burden(buffer[r]) \cup {r}) \in Nat
        BY <3>6, <4>1, CountedFewer
      <4>3. QED BY <3>2, <3>7, <4>2
    <3>9. QED BY <3>2, <3>3, <3>8 DEF SlotOnWire
  <2>5. QED BY <2>3, <2>4 DEF SlotAhead, SlotOnWire
<1>8. QED BY <1>5, <1>7

\* What was owed is in hand now, ahead of the HEADERS.
LEMMA CrowdTaken ==
    ASSUME QInv, QInv', Crowd, NEW t \in Threads, NEW x, NEW own, Takes(t, x, own), Passes, ~shut'
    PROVE  Accounted' /\ \A r \in Requests : SlotAhead(r)' /\ SlotOnWire(r)'
<1>1. /\ ~shut /\ UNCHANGED <<peer, answered, settings>> /\ writer' = t /\ Held = <<>>
      /\ pc' = [pc EXCEPT ![t] = x] /\ x \in Keeping
      /\ x = "sending" => pc[t] = "registered" /\ own = <<Headers(t)>>
  BY DEF Takes, Keeping
<1>2. Counted(peer)' = Counted(peer) /\ Counted(peer) \subseteq Requests BY <1>1 DEF Counted
<1>3. pc'[t] = x /\ buffer'[t] = output \o own
      /\ Says(buffer'[t], Len(buffer'[t]), peer.acked, settings)
  BY <1>1, QueuesTaken
<1>4. Held' = output \o own
  <2>1. None \notin Threads BY RequestsAssumption, ThreadsAssumption DEF Threads
  <2>2. QED BY <1>1, <1>3, <2>1 DEF Held
<1>5. output \in Seq(FramesOn(Requests)) /\ own \in Seq(FramesOn(Requests))
  <2>1. Numbered \subseteq Requests BY DEF Numbered
  <2>2. output \in Seq(FramesOn(Requests)) BY <2>1, FramesGrow DEF QInv, WInv, Wire
  <2>3. CASE x \in {"flushing", "closing"}
    <3>1. own \in {<<>>, <<Goaway>>} BY <2>3 DEF Takes
    <3>2. PICK g \in FramesOn(Requests) : g = Goaway BY FramesTyped
    <3>3. <<>> \in Seq(FramesOn(Requests)) /\ <<g>> \in Seq(FramesOn(Requests)) OBVIOUS
    <3>4. QED BY <2>2, <3>1, <3>2, <3>3
  <2>4. CASE x \in {"sending", "writing"}
    <3>1. t \in Requests
      <4>1. pc'[t] \in {"sending", "writing"} BY <1>3, <2>4
      <4>2. QED
        BY <4>1, RequestsAssumption, ThreadsAssumption
        DEF QInv, WInv, SInv, Stages, Fits, Threads, ReaderPlaces, CloserPlaces, Flushing
    <3>2. reserved[t] \in Int BY <3>1 DEF QInv, WInv, Amounts
    <3>3. PICK f \in FramesOn(Requests) : own = <<f>>
      BY <2>4, <3>1, <3>2, FramesTyped DEF Takes
    <3>4. QED BY <2>2, <3>3
  <2>5. QED BY <1>1, <2>3, <2>4 DEF Keeping
<1>6. \A s : Withdrawn(s, output, Len(output)) => Withdrawn(s, output \o own, Len(output \o own))
  BY <1>5, WithdrawnJoined
<1>7. Accounted'
  <2>1. SUFFICES ASSUME ~dead', ~goingAway', NEW s \in Counted(peer)'
                 PROVE  s \in live' \/ Withdrawn(s, Held', Len(Held'))
                          \/ Withdrawn(s, output', Len(output'))
    BY DEF Accounted
  <2>2. ~dead /\ ~goingAway BY <2>1 DEF Passes, Losses
  <2>3. s \in live \/ Withdrawn(s, Held, Len(Held)) \/ Withdrawn(s, output, Len(output))
    BY <1>1, <1>2, <2>1, <2>2 DEF Crowd, Accounted
  <2>4. ~Withdrawn(s, Held, Len(Held))
    <3>1. Len(<<>>) = 0 /\ \A i \in 1..0 : FALSE OBVIOUS
    <3>2. QED BY <1>1, <3>1 DEF Withdrawn
  <2>5. QED BY <1>4, <1>6, <2>1, <2>3, <2>4 DEF Passes, Losses
<1>8. ASSUME NEW r \in Requests, pc'[r] \in Opening PROVE r = t /\ pc'[r] = "sending"
  <2>1. r \in Threads /\ pc'[r] \in HoldingPlaces
    BY <1>8, RequestIsThread DEF Opening, HoldingPlaces
  <2>2. writer' = r BY <2>1 DEF QInv, WInv, SInv, Holding
  <2>3. QED BY <1>1, <1>3, <1>8, <2>2 DEF Opening, Keeping
<1>9. ASSUME NEW r \in Requests, pc'[r] = "sending" PROVE SlotOnWire(r)'
  <2>1. r = t /\ pc[r] = "registered" BY <1>1, <1>3, <1>8, <1>9 DEF Opening
  <2>2. Cardinality(Burden(output) \cup {r}) <= settings.limit
    BY <1>1, <2>1 DEF Crowd, SlotAhead
  <2>3. Burden(buffer[r])' \subseteq Burden(output)
    BY <1>2, <1>3, <1>6, <2>1 DEF Burden
  <2>4. settings \in Speaks /\ settings.limit \in Nat BY DEF QInv, WInv, Amounts, Speaks
  <2>5. Burden(output) \cup {r} \subseteq Requests BY <1>2 DEF Burden
  <2>6. Cardinality(Burden(buffer[r])' \cup {r}) <= settings.limit
    <3>1. Burden(buffer[r])' \cup {r} \subseteq Burden(output) \cup {r} BY <2>3
    <3>2. /\ Cardinality(Burden(buffer[r])' \cup {r}) <= Cardinality(Burden(output) \cup {r})
          /\ Cardinality(Burden(buffer[r])' \cup {r}) \in Nat
          /\ Cardinality(Burden(output) \cup {r}) \in Nat
      BY <2>5, <3>1, CountedFewer
    <3>3. QED BY <2>2, <2>4, <3>2
  <2>7. Says(buffer'[r], Len(buffer'[r]), peer'.acked, settings) BY <1>1, <1>3, <2>1
  <2>8. QED BY <2>4, <2>6, <2>7 DEF SlotOnWire
<1>10. ASSUME NEW r \in Requests PROVE SlotAhead(r)' /\ SlotOnWire(r)'
  <2>1. pc'[r] # "registered" BY <1>8 DEF Opening
  <2>2. QED BY <1>9, <2>1 DEF SlotAhead, SlotOnWire
<1>11. QED BY <1>7, <1>10

\* A write: what it acknowledges and resets is what had been counted on.
LEMMA CrowdSent ==
    ASSUME QInv, QInv', Crowd, NEW t \in Threads, NEW x, Sends(t, x), Passes, Patient'
    PROVE  /\ ~peer'.crowded
           /\ ~shut' => Accounted' /\ \A r \in Requests : SlotAhead(r)' /\ SlotOnWire(r)'
<1>1. /\ pc[t] \in Keeping /\ x \notin Keeping /\ pc' = [pc EXCEPT ![t] = x]
      /\ peer' = Sent(t) /\ writer' = None
      /\ UNCHANGED <<output, shut, live, dead, goingAway, answered>>
  BY DEF Sends
<1>2. CASE shut
  <2>1. peer' = peer /\ shut' BY <1>1, <1>2 DEF Sent
  <2>2. QED BY <2>1 DEF Crowd
<1>3. CASE ~shut
  <2>1. PICK q : Written(t, q) BY <1>1, <1>3, WriteTells
  <2>2. /\ q \in PeerStates /\ q.crowded = peer.crowded
        /\ Says(buffer[t], Len(buffer[t]), peer.acked, q.acked)
        /\ \A r \in Requests :
              q.stream[r] = IF Withdrawn(r, buffer[t], Len(buffer[t])) THEN "reset"
                            ELSE peer.stream[r]
    BY <2>1 DEF Written, After
  <2>3. Counted(q) = Burden(buffer[t]) /\ Counted(q) \subseteq Requests
    BY <2>2 DEF Counted, Burden
  <2>4. writer = t /\ Held = buffer[t]
    <3>1. t # None BY RequestsAssumption, ThreadsAssumption DEF Threads
    <3>2. pc[t] \in HoldingPlaces BY <1>1 DEF Keeping, HoldingPlaces
    <3>3. writer = t BY <3>2 DEF QInv, WInv, SInv, Holding
    <3>4. QED BY <3>1, <3>3 DEF Held
  <2>5. \A r \in Requests : pc'[r] \notin Opening
    <3>1. None \notin Threads BY RequestsAssumption, ThreadsAssumption DEF Threads
    <3>2. ASSUME NEW r \in Requests PROVE pc'[r] \notin HoldingPlaces
      <4>1. r \in Threads /\ writer' # r BY <1>1, <3>1, RequestIsThread
      <4>2. QED BY <4>1 DEF QInv, WInv, SInv, Holding
    <3>3. QED BY <3>2 DEF Opening, HoldingPlaces
  <2>6. \A r \in Requests : SlotAhead(r)' /\ SlotOnWire(r)'
    BY <2>5 DEF SlotAhead, SlotOnWire, Opening
  <2>7. pc[t] \in {"sending", "writing"} => t \in Requests
    BY RequestsAssumption, ThreadsAssumption
    DEF QInv, WInv, SInv, Stages, Fits, Threads, ReaderPlaces, CloserPlaces, Flushing
  <2>8. ASSUME NEW s \in Counted(q), ~dead', ~goingAway'
        PROVE  s \in live' \/ Withdrawn(s, output', Len(output'))
    <3>1. s \in Counted(peer) /\ ~Withdrawn(s, Held, Len(Held)) BY <2>3, <2>4 DEF Burden
    <3>2. QED BY <1>1, <1>3, <2>8, <3>1 DEF Crowd, Accounted
  <2>9. CASE pc[t] \in {"flushing", "closing"}
    <3>1. peer' = q BY <1>1, <2>1, <2>9 DEF Written
    <3>2. Counted(peer)' = Counted(q) BY <1>1, <3>1 DEF Counted
    <3>3. Accounted' BY <2>8, <3>2 DEF Accounted
    <3>4. QED BY <2>2, <2>6, <3>1, <3>3 DEF Crowd
  <2>10. CASE pc[t] = "sending"
    <3>1. t \in Requests /\ peer' = Received(q, Headers(t)) BY <1>1, <2>1, <2>7, <2>10 DEF Written
    <3>2. HeadersOn(peer', q, t) BY <2>2, <3>1, HeadersTaken
    <3>3. q.stream \in [Requests -> StreamStates] BY <2>2 DEF PeerStates
    <3>4. \A s \in Requests \ {t} : peer'.stream[s] = q.stream[s] BY <3>2, <3>3 DEF HeadersOn
    <3>5. Counted(peer)' \subseteq Counted(q) \cup {t}
      BY <1>1, <3>4 DEF Counted
    <3>6. ASSUME ~dead', ~goingAway' PROVE t \in live'
      BY <1>1, <2>10, <3>1, <3>6 DEF Crowd, OpeningLive, Opening
    <3>7. Accounted' BY <2>8, <3>5, <3>6 DEF Accounted
    <3>8. ~peer'.crowded
      <4>1. PICK m \in Speaks : /\ Says(buffer[t], Len(buffer[t]), peer.acked, m)
                                /\ Cardinality(Burden(buffer[t]) \cup {t}) <= m.limit
        BY <1>3, <2>10, <3>1 DEF Crowd, SlotOnWire
      <4>2. Len(buffer[t]) \in Nat BY DEF QInv, WInv, Wire
      <4>3. m = q.acked BY <2>2, <4>1, <4>2, SaysOne
      <4>4. t \notin Counted(q)
        <5>1. peer.stream[t] = "idle"
          BY <2>10, <3>1 DEF QInv, Unopened, Opening, Opened
        <5>2. QED BY <2>3, <5>1 DEF Burden, Counted
      <4>5. PICK k \in Nat : k = Cardinality(Counted(q)) BY <2>3, CountedFewer
      <4>6. Cardinality(Counted(q) \cup {t}) = k + 1
        BY <2>3, <4>4, <4>5, CountedFewer, FS_AddElement
      <4>7. k + 1 <= q.acked.limit /\ q.acked.limit \in Nat
        BY <2>3, <4>1, <4>3, <4>6 DEF Speaks
      <4>8. ~(Cardinality(Counted(q)) >= q.acked.limit) BY <4>5, <4>7
      <4>9. QED BY <2>2, <3>2, <4>8 DEF HeadersOn, Crowd
    <3>9. QED BY <2>6, <3>7, <3>8
  <2>11. CASE pc[t] = "writing"
    <3>1. PICK end \in BOOLEAN : t \in Requests /\ peer' = Received(q, Data(t, reserved[t], end))
      BY <1>1, <2>1, <2>7, <2>11 DEF Written
    <3>2. reserved[t] \in Nat BY <3>1 DEF QInv, WInv, Amounts
    <3>3. DataOn(peer', q, t, reserved[t], end) BY <2>2, <3>1, <3>2, DataTaken
    <3>4. q.stream \in [Requests -> StreamStates] BY <2>2 DEF PeerStates
    <3>5. \A s \in Requests \ {t} : peer'.stream[s] = q.stream[s] BY <3>3, <3>4 DEF DataOn
    <3>6. t \in Counted(peer)' => t \in Counted(q)
      <4>1. SUFFICES ASSUME t \in Counted(peer)' PROVE t \in Counted(q) OBVIOUS
      <4>2. t \notin answered BY <1>1, <4>1 DEF Counted, Patient
      <4>3. peer'.stream[t] # "reset" BY <4>1 DEF Counted
      <4>4. q.stream[t] # "reset" BY <3>1, <3>3, <3>4, <4>3 DEF DataOn
      <4>5. Opened(t)
        BY <1>3, <2>11, <3>1 DEF QInv, WInv, SInv, Streams, Stages, Wire, WithId, Opening, Threads
      <4>6. q.stream[t] # "idle" BY <2>2, <3>1, <4>5 DEF Opened
      <4>7. q.stream[t] \in {"open", "ended"} BY <3>1, <3>4, <4>4, <4>6 DEF StreamStates
      <4>8. QED BY <3>1, <4>2, <4>7 DEF Counted
    <3>7. Counted(peer)' \subseteq Counted(q) BY <1>1, <3>5, <3>6 DEF Counted
    <3>8. Accounted' BY <2>8, <3>7 DEF Accounted
    <3>9. ~peer'.crowded BY <2>2, <3>3 DEF DataOn, Crowd
    <3>10. QED BY <2>6, <3>8, <3>9
  <2>12. QED BY <1>1, <2>9, <2>10, <2>11 DEF Keeping
<1>4. QED BY <1>2, <1>3

LEMMA CrowdInit == Init => Crowd
<1> SUFFICES ASSUME Init PROVE Crowd OBVIOUS
<1>1. /\ ~peer.crowded /\ acted = {} /\ open = 0 /\ settings = Defaults /\ Counted(peer) = {}
      /\ \A r \in Requests : pc[r] = "slot"
  BY RequestIsThread DEF Init, Counted
<1>2. Defaults.limit \in Nat BY SettingsAssumption
<1>3. QED BY <1>1, <1>2 DEF Crowd, OpeningLive, Opening, Accounted, SlotAhead, SlotOnWire

LEMMA CrowdKept ==
    QInv /\ QInv' /\ Crowd /\ [Next]_vars /\ Patient' /\ settings'.limit >= settings.limit => Crowd'
<1> SUFFICES ASSUME QInv, QInv', Crowd, [Next]_vars, Patient', settings'.limit >= settings.limit
             PROVE  Crowd'
    OBVIOUS
<1>1. StepKind /\ Passes BY StepKinds, StepPasses
<1>2. settings' \in Speaks BY DEF QInv, WInv, Amounts
<1>3. /\ open' <= settings'.limit /\ OpeningLive'
      /\ acted' \subseteq Requests /\ \A r \in acted' : Opened(r)'
  BY <1>1, <1>2, CrowdCommon
<1>4. /\ ~peer'.crowded
      /\ ~shut' => Accounted' /\ \A r \in Requests : SlotAhead(r)' /\ SlotOnWire(r)'
  <2>1. CASE Quiet
    <3>1. ~peer'.crowded BY <2>1 DEF Quiet, PeerCalm, Crowd
    <3>2. QED BY <1>1, <1>2, <2>1, <3>1, CrowdQuiet
  <2>2. ASSUME NEW t \in Threads, NEW x, NEW own, Takes(t, x, own)
        PROVE  /\ ~peer'.crowded
               /\ ~shut' => Accounted' /\ \A r \in Requests : SlotAhead(r)' /\ SlotOnWire(r)'
    <3>1. ~peer'.crowded BY <2>2 DEF Takes, Crowd
    <3>2. QED BY <1>1, <2>2, <3>1, CrowdTaken
  <2>3. ASSUME NEW t \in Threads, NEW x, Sends(t, x)
        PROVE  /\ ~peer'.crowded
               /\ ~shut' => Accounted' /\ \A r \in Requests : SlotAhead(r)' /\ SlotOnWire(r)'
    BY <1>1, <2>3, CrowdSent
  <2>4. QED BY <1>1, <2>1, <2>2, <2>3 DEF StepKind
<1>5. QED BY <1>3, <1>4 DEF Crowd

\* The server's limit never falls: no SETTINGS allows fewer streams than the last.
LimitNeverFalls == [][settings'.limit >= settings.limit]_settings

\* The server never counts a stream too many, if its limit never falls and it
\* ends no response before the whole request has reached it: m_open is given
\* back when a stream ends here, its RST_STREAM may still be queued or in the
\* hands of the write lock's holder, and the HEADERS that take the slot come
\* behind it.
THEOREM PeerNeverCrowded == Spec /\ LimitNeverFalls /\ []Patient => []PeerNeverCountsTooMany
<1>1. Init => QInv /\ Crowd BY QueuesInit, CrowdInit
<1>2. ASSUME QInv, Crowd, [Next]_vars, [settings'.limit >= settings.limit]_settings, Patient'
      PROVE  (QInv /\ Crowd)'
  <2>1. QInv' BY <1>2, QueuesKept
  <2>2. settings.limit \in Nat BY <1>2 DEF QInv, WInv, Amounts, Speaks
  <2>3. settings'.limit >= settings.limit BY <1>2, <2>2
  <2>4. QED BY <1>2, <2>1, <2>3, CrowdKept
<1>3. QInv /\ Crowd => PeerNeverCountsTooMany BY DEF Crowd, PeerNeverCountsTooMany
<1>4. QED BY <1>1, <1>2, <1>3, PTL DEF Spec, LimitNeverFalls
=============================================================================
