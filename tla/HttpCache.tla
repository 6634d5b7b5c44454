----------------------------- MODULE HttpCache -----------------------------
(***************************************************************************)
(* net/HttpCache: the entries in memory, the two files of each in the      *)
(* directory, the two caps.  A call holds m_mutex to its end, so calls are *)
(* actions, but their file operations are steps of their own: any of them  *)
(* may fail, and the browser may die between two of them.  A response is   *)
(* known by the number of the store that brought it; sizes are in units.   *)
(* Which variant of a URL answers is modelled in Fetch.                     *)
(***************************************************************************)
EXTENDS Integers, Sequences, FiniteSets, SequencesExt, FiniteSetsExt

CONSTANTS
    Keys,          \* URLs without their fragment
    Responses,     \* what servers answer: [size, life, validator]
    NoStore,       \* the life of a response that must not be kept
    MaxTotal, MaxEntry, MaxDisk,   \* m_max_total_bytes, m_max_entry_bytes, m_max_disk_bytes
    Failures,      \* how file operations may fail in this instance (bound)
    MaxStores,     \* how many responses are stored (bound)
    MaxNow,        \* how long time runs, in seconds (bound)
    None

ASSUME SizesAssumption ==
    /\ IsFiniteSet(Keys)
    /\ Responses \subseteq [size : Nat, life : Nat \cup {NoStore}, validator : BOOLEAN]
    /\ Failures \subseteq {"short", "lost", "unopened", "stays"}
    /\ {MaxTotal, MaxDisk, MaxEntry, MaxStores, MaxNow} \subseteq Nat /\ MaxEntry <= MaxDisk

\* An entry in memory; what its text in the directory says, and its body there.
Entry == [store : Nat, size : Nat, at : Nat, freshUntil : Nat, validator : BOOLEAN,
          body : Nat \cup {None}, onDisk : BOOLEAN]
Text == [store : Nat, size : Nat, at : Nat, freshUntil : Nat, validator : BOOLEAN]
BodyFile == [store : Nat, length : Nat]

ASSUME NothingAssumption ==
    None \notin Nat \cup Entry \cup Text \cup BodyFile

VARIABLES
    up,            \* the browser runs
    entries,       \* m_entries, None for no entry
    bytes,         \* m_bytes
    diskBytes,     \* m_disk_bytes
    now,           \* the clock
    meta, body,    \* the files of each URL's stem, None for no such file
    work,          \* the file operations the call in progress has still to do
    served,        \* what the last lookup or refresh handed out, and for which URL
    stores,        \* how many responses have been stored
    spoilt         \* (history) URLs of which a file has stayed that was to go

memory == <<entries, bytes, diskBytes>>
files == <<meta, body>>
vars == <<up, memory, now, files, work, served, stores, spoilt>>

\* File operations, in the order a call makes them.
RemoveFiles(k) == << <<"removeMeta", k>>, <<"removeBody", k>> >>
WriteBody(k, e) == <<"writeBody", k, [store |-> e.store, length |-> e.size]>>
WriteMeta(k, e) == <<"writeMeta", k,
    [store |-> e.store, size |-> e.size, at |-> e.at, freshUntil |-> e.freshUntil,
     validator |-> e.validator]>>

Held == {k \in Keys : entries[k] # None}
Loaded(e) == e.body # None

\* cost_of: the headers, one unit, and the body while it is loaded.
Cost(e) == 1 + (IF Loaded(e) THEN e.size ELSE 0)

\* The sums over a set of an entries map.
Total(w, ks) == MapThenSumSet(LAMBDA k : w[k], ks)
CostOf(m, ks) == Total([k \in ks |-> Cost(m[k])], ks)
SizeOf(m, ks) == Total([k \in ks |-> m[k].size], ks)
OnDisk(m, ks) == {k \in ks : m[k].onDisk}
DiskCostOf(m, ks) == SizeOf(m, OnDisk(m, ks))

Init ==
    /\ up = TRUE
    /\ entries = [k \in Keys |-> None] /\ bytes = 0 /\ diskBytes = 0
    /\ now = 0
    /\ meta = [k \in Keys |-> None] /\ body = [k \in Keys |-> None]
    /\ work = <<>> /\ served = None /\ stores = 0 /\ spoilt = {}

-----------------------------------------------------------------------------
\* A call works on the cache as it stands: its entries, its sums and the file
\* operations it has asked for so far.
Cache == [entries |-> entries, bytes |-> bytes, diskBytes |-> diskBytes, work |-> <<>>]
In(c) == {k \in Keys : c.entries[k] # None}

\* drop(it, true), for each of a set of entries: only an entry on disk has files.
FilesLeft(c, ks) == <<>>                             \* slip: files_too forgotten
FilesOf(c, ks) ==
    LET order == SetToSeq(OnDisk(c.entries, ks))
    IN  [i \in 1..(2 * Len(order)) |-> RemoveFiles(order[(i + 1) \div 2])[2 - (i % 2)]]

\* slip: an entry in memory only is discounted from the disk too
DiskBytesWithoutAll(c, ks) == c.diskBytes - SizeOf(c.entries, ks)
DiskBytesWithout(c, ks) == c.diskBytes - DiskCostOf(c.entries, ks)

Drop(c, ks) ==
    [entries |-> [k \in Keys |-> IF k \in ks THEN None ELSE c.entries[k]],
     bytes |-> c.bytes - CostOf(c.entries, ks),
     diskBytes |-> DiskBytesWithout(c, ks),
     work |-> c.work \o FilesOf(c, ks)]

\* The candidates an eviction takes, oldest first, until it has taken enough (one
\* of the sets that make room) or none is left.  Entries of the same second go in
\* any order.
OldestFirst(c, from, taken) ==
    \A k \in taken, l \in from \ taken : c.entries[k].at <= c.entries[l].at

Taken(c, from, enough) ==
    {ks \in SUBSET from :
        /\ OldestFirst(c, from, ks)
        /\ ks \in enough \cup {from}
        /\ ks # {} => \E last \in ks : OldestFirst(c, from, ks \ {last}) /\ ks \ {last} \notin enough}

\* evict_to_fit: dead weight first, then bodies that are on disk are let go of
\* and entries that are not go whole.
DeadWeight(c, keep) ==
    {k \in In(c) \ keep : c.entries[k].freshUntil <= now /\ ~c.entries[k].validator}

Unload(c, ks) ==
    [c EXCEPT !.entries = [k \in Keys |-> IF k \in ks THEN [@[k] EXCEPT !.body = None] ELSE @[k]],
              !.bytes = @ - SizeOf(c.entries, ks)]

FreedBy(c, ks) ==
    CostOf(c.entries, ks \ OnDisk(c.entries, ks)) + DiskCostOf(c.entries, ks)

Evictable(c, keep) == {k \in In(c) \ keep : Loaded(c.entries[k])}

\* slip: the newcomer's cost is not counted in
RoomAlready(c, incoming, ks) == c.bytes - FreedBy(c, ks) <= MaxTotal
RoomFor(c, incoming, ks) == c.bytes - FreedBy(c, ks) + incoming <= MaxTotal

EvictToFit(c, incoming, keep) ==
    LET lean == Drop(c, DeadWeight(c, keep))
        from == Evictable(lean, keep)
    IN  {Drop(Unload(lean, OnDisk(lean.entries, ks)), ks \ OnDisk(lean.entries, ks)) :
          ks \in Taken(lean, from, {s \in SUBSET from : RoomFor(lean, incoming, s)})}

\* slip: up to the cap before the newcomer, not after
DiskRoomBefore(c, incoming, ks) == c.diskBytes - DiskCostOf(c.entries, ks) <= MaxDisk
DiskRoomFor(c, incoming, ks) == c.diskBytes - DiskCostOf(c.entries, ks) + incoming <= MaxDisk

\* evict_disk_to_fit
EvictDiskToFit(c, incoming) ==
    LET from == OnDisk(c.entries, In(c))
    IN  {Drop(c, ks) : ks \in Taken(c, from, {s \in SUBSET from : DiskRoomFor(c, incoming, s)})}

\* What a call leaves: it returns once its file operations are done.
Becomes(c) ==
    /\ entries' = c.entries /\ bytes' = c.bytes /\ diskBytes' = c.diskBytes
    /\ work' = c.work

Free == up /\ work = <<>>                            \* m_mutex can be taken

-----------------------------------------------------------------------------
\* Freshness (fresh_until): None when the response may not be kept at all.
FreshUntil(life) == IF life = NoStore THEN None ELSE now + life

Answer(e) == [headers |-> e.store, body |-> e.body]
HandOut(k, e) == [url |-> k, response |-> Answer(e)]

\* load_body: the whole body is there, as long as its entry says.
Readable(k) == body[k] # None /\ entries[k].onDisk /\ body[k].length >= entries[k].size

\* The body read, and room made for it at the expense of the others'.
WithBody(k) ==
    LET c == [Cache EXCEPT !.entries[k].body = body[k].store, !.bytes = @ + entries[k].size]
    IN  EvictToFit(c, 0, {k})

\* What lookup and refresh find: the cache with the entry's body loaded, or,
\* when it cannot be, without the entry.
Found(k) ==
    IF Loaded(entries[k]) THEN {Cache}
    ELSE IF Readable(k) THEN WithBody(k)
    ELSE {Drop(Cache, {k})}

Lookup(k) ==
    /\ Free /\ k \in Held
    /\ \E c \in Found(k) :
          /\ Becomes(c)
          /\ served' = IF c.entries[k] = None THEN None ELSE HandOut(k, c.entries[k])
    /\ UNCHANGED <<up, now, files, stores, spoilt>>

\* A 304 renews whatever is there now: its fields replace those stored, and may
\* add a validator, never take one away; they may also say not to keep it.
Renewed(e, life, validator) ==
    [e EXCEPT !.freshUntil = FreshUntil(life), !.at = now, !.validator = @ \/ validator]

Refresh(k, life, validator) ==
    /\ Free /\ k \in Held
    /\ \E c \in Found(k) :
          IF c.entries[k] = None \/ FreshUntil(life) = None
            THEN /\ Becomes(IF c.entries[k] = None THEN c ELSE Drop(c, {k}))
                 /\ served' = None
            ELSE LET e == Renewed(c.entries[k], life, validator) IN
                 /\ Becomes([c EXCEPT !.entries[k] = e, !.work = Append(@, WriteMeta(k, e))])
                 /\ served' = HandOut(k, e)
    /\ UNCHANGED <<up, now, files, stores, spoilt>>

Storable(r) ==
    /\ FreshUntil(r.life) # None
    /\ r.life > 0 \/ r.validator
    /\ 1 + r.size <= MaxEntry

MetaFirst(k, e) == <<WriteMeta(k, e), WriteBody(k, e)>>    \* slip: the text before the body
BodyFirst(k, e) == <<WriteBody(k, e), WriteMeta(k, e)>>

Store(k, r) ==
    /\ Free /\ stores < MaxStores /\ Storable(r)
    /\ LET e == [store |-> stores + 1, size |-> r.size, at |-> now,
                 freshUntil |-> FreshUntil(r.life), validator |-> r.validator,
                 body |-> stores + 1, onDisk |-> FALSE]
           cleared == IF k \in Held THEN Drop(Cache, {k}) ELSE Cache
       IN  \E c \in EvictToFit(cleared, Cost(e), {}) :
             \E d \in EvictDiskToFit([c EXCEPT !.bytes = @ + Cost(e)], e.size) :
               Becomes([d EXCEPT !.entries[k] = e, !.work = @ \o BodyFirst(k, e)])
    /\ stores' = stores + 1
    /\ UNCHANGED <<up, now, files, served, spoilt>>

Clear ==
    /\ Free
    /\ Becomes([Drop(Cache, Held) EXCEPT !.bytes = 0, !.diskBytes = 0])
    /\ UNCHANGED <<up, now, files, served, stores, spoilt>>

-----------------------------------------------------------------------------
\* The file operations of the call in progress.

Op == Head(work)
Key == Op[2]

RemoveFile ==
    /\ work # <<>>
    /\ \/ Op[1] = "removeMeta" /\ meta' = [meta EXCEPT ![Key] = None] /\ UNCHANGED body
       \/ Op[1] = "removeBody" /\ body' = [body EXCEPT ![Key] = None] /\ UNCHANGED meta
    /\ work' = Tail(work)
    /\ UNCHANGED <<up, memory, now, served, stores, spoilt>>

\* The removal that fails: remove_files looks at neither error, so the call goes
\* on.  Only a text that stays can bring anything back.
FileStays ==
    /\ "stays" \in Failures
    /\ work # <<>> /\ Op[1] \in {"removeMeta", "removeBody"}
    /\ work' = Tail(work)
    /\ spoilt' = IF Op[1] = "removeMeta" THEN spoilt \cup {Key} ELSE spoilt
    /\ UNCHANGED <<up, memory, now, files, served, stores>>

\* A write that fails leaves the body short, or the file as it was (an older
\* body's, perhaps) when it could not be opened; the text is not written then.  A
\* small body fails only as its file is closed: nobody looks, and the text follows.
WriteFileBody(how) ==
    /\ work # <<>> /\ Op[1] = "writeBody"
    /\ body' = [body EXCEPT ![Key] = CASE how = "whole" -> Op[3]
                                        [] how \in {"short", "lost"} -> [Op[3] EXCEPT !.length = 0]
                                        [] how = "unopened" -> @]
    /\ work' = IF how \in {"whole", "lost"} THEN Tail(work) ELSE <<>>
    /\ spoilt' = IF how = "unopened" /\ body[Key] # None THEN spoilt \cup {Key} ELSE spoilt
    /\ UNCHANGED <<up, memory, now, meta, served, stores>>

\* The text, written aside and renamed over the old; counted on disk once.
NewOnDisk(e) == ~e.onDisk

WriteFileMeta ==
    /\ work # <<>> /\ Op[1] = "writeMeta"
    /\ meta' = [meta EXCEPT ![Key] = Op[3]]
    /\ entries' = [entries EXCEPT ![Key].onDisk = TRUE]
    /\ diskBytes' = IF NewOnDisk(entries[Key]) THEN diskBytes + entries[Key].size ELSE diskBytes
    /\ work' = Tail(work)
    /\ UNCHANGED <<up, bytes, now, body, served, stores, spoilt>>

MetaNotWritten ==
    /\ work # <<>> /\ Op[1] = "writeMeta"
    /\ work' = Tail(work)
    /\ UNCHANGED <<up, memory, now, files, served, stores, spoilt>>

-----------------------------------------------------------------------------
\* Time, the end of the browser at any moment, and its start: set_directory
\* reads what is there and removes the files that are not a pair, if it can.

Tick ==
    /\ now < MaxNow
    /\ now' = now + 1
    /\ UNCHANGED <<up, memory, files, work, served, stores, spoilt>>

Stop ==
    /\ up /\ up' = FALSE
    /\ entries' = [k \in Keys |-> None] /\ bytes' = 0 /\ diskBytes' = 0
    /\ work' = <<>> /\ served' = None
    /\ UNCHANGED <<now, files, stores, spoilt>>

Paired(k) == meta[k] # None /\ body[k] # None

ReadBack(k) ==
    [store |-> meta[k].store, size |-> meta[k].size, at |-> meta[k].at,
     freshUntil |-> meta[k].freshUntil, validator |-> meta[k].validator,
     body |-> None, onDisk |-> TRUE]

\* The URLs whose lone file may fail to be removed.
LoneStays == IF "stays" \in Failures THEN SUBSET {k \in Keys : ~Paired(k)} ELSE {{}}

Start ==
    /\ ~up /\ up' = TRUE
    /\ entries' = [k \in Keys |-> IF Paired(k) THEN ReadBack(k) ELSE None]
    /\ bytes' = CostOf(entries', {k \in Keys : Paired(k)})
    /\ diskBytes' = DiskCostOf(entries', {k \in Keys : Paired(k)})
    /\ \E lone \in LoneStays :
          /\ meta' = [k \in Keys |-> IF Paired(k) \/ k \in lone THEN meta[k] ELSE None]
          /\ body' = [k \in Keys |-> IF Paired(k) \/ k \in lone THEN body[k] ELSE None]
          /\ spoilt' = spoilt \cup {k \in lone : meta[k] # None}
    /\ UNCHANGED <<now, work, served, stores>>

Lives == {r.life : r \in Responses} \cup {NoStore}

Next ==
    \/ \E k \in Keys :
          \/ Lookup(k)
          \/ \E life \in Lives, validator \in BOOLEAN : Refresh(k, life, validator)
          \/ \E r \in Responses : Store(k, r)
    \/ Clear
    \/ RemoveFile \/ FileStays \/ (\E how \in {"whole"} \cup (Failures \ {"stays"}) : WriteFileBody(how))
    \/ WriteFileMeta \/ MetaNotWritten
    \/ Tick \/ Stop \/ Start

Spec == Init /\ [][Next]_vars

-----------------------------------------------------------------------------
\* Properties.

\* m_bytes and m_disk_bytes are what the entries hold, whichever of the ways in
\* and out each has come: nothing leaks from the caps and nothing is counted twice.
SumsAreExact ==
    /\ bytes = CostOf(entries, Held)
    /\ diskBytes = DiskCostOf(entries, Held)

\* Memory goes over its cap only for the one body that is being served or has
\* just been stored (headers that stay behind aside).
OverCapForOneOnly ==
    bytes > MaxTotal => Cardinality({k \in Held : Loaded(entries[k])}) <= 1

\* A store has made its room on disk before it writes, and the one that comes
\* always fits.
RoomOnDiskFirst ==
    [][stores' # stores =>
         \A k \in Keys : entries'[k] # None /\ entries'[k].store = stores' =>
             diskBytes' + entries'[k].size <= MaxDisk]_vars

\* Between calls an entry on disk has its text in the directory, of its own store,
\* and no other text is there: a restart reads back what there was.  But for the
\* texts that could not be removed, which are of URLs that are not on disk.
FilesFollowEntries ==
    Free => \A k \in Keys :
        /\ k \in Held /\ entries[k].onDisk => meta[k] # None /\ meta[k].store = entries[k].store
        /\ meta[k] # None => (k \in Held /\ entries[k].onDisk) \/ k \in spoilt

\* A URL whose old text has still to be removed is still, for a restart, what
\* it was.
Replacing(k) == \E i \in 1..Len(work) : work[i] = <<"removeMeta", k>>

FromFiles(k) ==
    IF Paired(k) /\ body[k].length >= meta[k].size
      THEN [headers |-> meta[k].store, body |-> body[k].store] ELSE None

FromMemory(k) ==
    IF k \notin Held THEN None
    ELSE IF Loaded(entries[k]) THEN Answer(entries[k])
    ELSE IF Readable(k) THEN [headers |-> entries[k].store, body |-> body[k].store]
    ELSE None

Unseen == {entries[k].store : k \in {l \in Held : Replacing(l)}}

\* "What is handed out is a copy made under the lock": a whole response, the
\* last stored for its URL; one replaced, refused or cleared never comes back,
\* not even from the files of a run that died in the middle of a call.  Nothing is
\* promised of a URL with a file that was to go and could not be removed, or not
\* be opened to be written anew; of the other URLs all of it is.
Promise == INSTANCE CacheStore WITH
    held <- [k \in Keys |-> IF k \in spoilt THEN None
                            ELSE IF ~up \/ Replacing(k) THEN FromFiles(k) ELSE FromMemory(k)],
    used <- (1..stores) \ Unseen,
    served <- IF served # None /\ served.url \in spoilt THEN None ELSE served
KeepsPromise == Promise!Spec
=============================================================================
