---------------------------- MODULE Http2Session ----------------------------
(***************************************************************************)
(* net/Http2Session: one HTTP/2 connection shared by the threads that make *)
(* requests on it (exchange) and the thread that reads it (run).  Steps    *)
(* are what a thread does under m_mutex; m_write_mutex is held across      *)
(* steps, so a frame the reader owes may find it taken.  The server is a   *)
(* correct HTTP/2 peer: what it sends is chosen freely within what it has  *)
(* received, and it keeps its word (a stream it refuses, or leaves out of  *)
(* a GOAWAY, is one it never acts on).  Times are not modelled: a stall    *)
(* timeout may come whenever its wait is on.                               *)
(***************************************************************************)
EXTENDS Integers, Sequences, FiniteSets

CONSTANTS
    Requests,      \* the threads inside exchange(), one request each
    Uploads,       \* the requests with a body
    Replayable,    \* the requests whose method is idempotent
    BodySize,      \* of an upload, in units of flow control
    MaxId,         \* how many stream ids there are (2^30)
    Settings,      \* what the server's SETTINGS may say
    MaxFrames,     \* WINDOW_UPDATE and PING frames the server sends, together (bound)
    MaxSettings,   \* SETTINGS frames the server sends (bound)
    Events,        \* what the server, the network and close() do in this instance (bound)
    Reader, Closer, None

\* [limit, window, frame]: MAX_CONCURRENT_STREAMS, INITIAL_WINDOW_SIZE, MAX_FRAME_SIZE.
\* The peer's are taken to be Defaults until its first SETTINGS.
CONSTANT Defaults

AllEvents == {"act", "error", "reset", "goaway", "badFrame", "lost", "close"}
ASSUME EventsAssumption == Events \subseteq AllEvents
ASSUME RequestsAssumption == IsFiniteSet(Requests) /\ {Reader, Closer, None} \cap Requests = {}
ASSUME ThreadsAssumption == Reader # Closer /\ Reader # None /\ Closer # None
ASSUME BoundsAssumption == MaxId \in Nat /\ BodySize \in Nat
ASSUME SettingsAssumption ==
    Settings \cup {Defaults} \subseteq [limit: Nat, window: Nat, frame: Nat \ {0}]

Threads == Requests \cup {Reader, Closer}

VARIABLES
    pc,                \* where each thread is
    writer,            \* who holds m_write_mutex
    buffer,            \* what a holder of it is about to send
    after,             \* where a thread goes once flush_output returns
    live,              \* m_streams, by request
    id,                \* the request's stream id, 0 before it has one
    outcome,           \* stream->ended and stream->outcome, or what refused() said
    headersDone,       \* stream->headers_done
    open,              \* m_open
    nextId,            \* m_next_stream, counted in streams
    dead, goingAway, goawayLast, protocolFailure, settingsReceived,
    settings,          \* the peer's, as last received
    sendWindow,        \* m_send_window
    streamWindow,      \* stream->send_window
    reserved,          \* chunk: the DATA taken from the windows and not yet written
    at,                \* how much of the body has been handed to the socket
    output,            \* m_output: the frames the reader owes
    shut,              \* the connection was shut down or lost
    peer,              \* what has reached the server
    acted,             \* the requests the server acted on
    forsworn,          \* the requests it said it never will
    answered,          \* the streams the server has ended from its side
    sentByPeer         \* how many frames of the bounded kinds the server sent

streamVars == <<live, id, outcome, headersDone, open, nextId>>
sessionVars == <<dead, goingAway, goawayLast, protocolFailure, settingsReceived, settings>>
windowVars == <<sendWindow, streamWindow, reserved, at>>
serverVars == <<acted, forsworn, answered, sentByPeer>>
writeVars == <<writer, buffer, after>>
vars == <<pc, writeVars, streamVars, sessionVars, windowVars, output, shut, peer, serverVars>>

\* Frames this side writes.
Frame(kind, r, n, end) == [kind |-> kind, r |-> r, n |-> n, end |-> end, says |-> None]
Headers(r) == Frame("HEADERS", r, 0, r \notin Uploads)
Data(r, n, end) == Frame("DATA", r, n, end)
Rst(r) == Frame("RST_STREAM", r, 0, TRUE)
Goaway == Frame("GOAWAY", None, 0, TRUE)
Pong == Frame("PING", None, 0, FALSE)
Ack(s) == [Frame("SETTINGS", None, 0, FALSE) EXCEPT !.says = s]

\* The streams a server counts against its MAX_CONCURRENT_STREAMS: those not
\* closed from both sides, as far as it has heard.
Counted(p) == {r \in Requests : \/ p.stream[r] = "open"
                                \/ p.stream[r] = "ended" /\ r \notin answered}

\* The server on receipt of a frame: the stream's state, the room it has left
\* the client, the settings the client has acknowledged, and what went past them.
Received(p, f) ==
    CASE f.kind = "HEADERS" ->
            [p EXCEPT !.stream[f.r] = IF f.end THEN "ended" ELSE "open",
                      !.room[f.r] = p.acked.window,
                      !.crowded = @ \/ Cardinality(Counted(p)) >= p.acked.limit]
      [] f.kind = "DATA" ->
            [p EXCEPT !.stream[f.r] = IF @ = "reset" THEN @ ELSE IF f.end THEN "ended" ELSE "open",
                      !.room[f.r] = @ - f.n, !.allRoom = @ - f.n,
                      !.overrun = @ \/ f.n > p.room[f.r] \/ f.n > p.allRoom]
      [] f.kind = "RST_STREAM" -> [p EXCEPT !.stream[f.r] = "reset"]
      [] f.kind = "SETTINGS" ->
            [p EXCEPT !.room = [r \in Requests |-> @[r] + (f.says.window - p.acked.window)],
                      !.acked = f.says]
      [] OTHER -> p

Init ==
    /\ pc = [t \in Threads |-> IF t = Reader THEN "receive" ELSE IF t = Closer THEN "idle" ELSE "slot"]
    /\ writer = None
    /\ buffer = [t \in Threads |-> <<>>]
    /\ after = [t \in Threads |-> "none"]
    /\ live = {} /\ id = [r \in Requests |-> 0] /\ open = 0 /\ nextId = 1
    /\ outcome = [r \in Requests |-> "none"]
    /\ headersDone = [r \in Requests |-> FALSE]
    /\ dead = FALSE /\ goingAway = FALSE /\ goawayLast = 0
    /\ protocolFailure = FALSE /\ settingsReceived = FALSE
    /\ settings = Defaults
    /\ sendWindow = Defaults.window
    /\ streamWindow = [r \in Requests |-> 0]
    /\ reserved = [r \in Requests |-> 0] /\ at = [r \in Requests |-> 0]
    /\ output = <<>> /\ shut = FALSE
    /\ peer = [stream |-> [r \in Requests |-> "idle"], room |-> [r \in Requests |-> 0],
               allRoom |-> Defaults.window, acked |-> Defaults,
               overrun |-> FALSE, crowded |-> FALSE]
    /\ acted = {} /\ forsworn = {} /\ answered = {}
    /\ sentByPeer = [settings |-> 0, frames |-> 0]

Ended(r) == outcome[r] # "none"

\* m_changed.notify_all(): only the wait for a slot has no deadline of its own.
Notified == [t \in Threads |-> IF pc[t] = "slotAsleep" THEN "slot" ELSE pc[t]]

\* end_stream for each request of DOMAIN outcomes.
EndStreams(outcomes) ==
    /\ live' = live \ DOMAIN outcomes
    /\ open' = open - Cardinality(DOMAIN outcomes)
    /\ outcome' = [r \in Requests |-> IF r \in DOMAIN outcomes THEN outcomes[r] ELSE outcome[r]]

\* unanswered(): what becomes of an open stream when its connection ends under it.
Unanswered(r, broken) ==
    IF headersDone[r] THEN "Failed"
    ELSE IF broken /\ ~settingsReceived THEN "ProtocolFailure"
    ELSE IF r \notin Replayable THEN "Failed"
    ELSE IF broken THEN "ProtocolFailure" ELSE "Retry"

AllUnanswered(broken) == [r \in live |-> Unanswered(r, broken)]
-----------------------------------------------------------------------------
\* The write lock and flush_output(), for any thread.

\* take_output(), with the lock just taken: what was owed, then the holder's own.
Taken(own) == output \o own

WriteLockTaken == TRUE                           \* slip: no lock
WriteLockFree == writer = None

Acquire(t, own, then) ==
    /\ WriteLockFree
    /\ writer' = t
    /\ buffer' = [buffer EXCEPT ![t] = Taken(own)]
    /\ output' = <<>>
    /\ pc' = [pc EXCEPT ![t] = then]

\* send_all(), which reaches the server unless the connection is gone.
Sent(t) ==
    LET frames == buffer[t]
        upto[n \in 0..Len(frames)] ==
            IF n = 0 THEN peer ELSE Received(upto[n - 1], frames[n])
    IN  IF shut THEN peer ELSE upto[Len(frames)]

Flush(t) ==
    /\ pc[t] = "flush"
    /\ \/ Acquire(t, <<>>, "flushing") /\ UNCHANGED after
       \/ /\ ~WriteLockFree                      \* its holder looks when it lets go
          /\ pc' = [pc EXCEPT ![t] = after[t]]
          /\ UNCHANGED <<writeVars, output>>
    /\ UNCHANGED <<streamVars, sessionVars, windowVars, shut, peer, serverVars>>

NotLookedAgain(t) == after[t]                    \* slip: the lock let go without a look
LookedAgain(t) == "flushed"

FlushSend(t) ==
    /\ pc[t] = "flushing"
    /\ peer' = Sent(t)
    /\ buffer' = [buffer EXCEPT ![t] = <<>>]
    /\ writer' = None
    /\ pc' = [pc EXCEPT ![t] = LookedAgain(t)]
    /\ UNCHANGED <<after, streamVars, sessionVars, windowVars, output, shut, serverVars>>

FlushLook(t) ==
    /\ pc[t] = "flushed"
    /\ pc' = [pc EXCEPT ![t] = IF output = <<>> THEN after[t] ELSE "flush"]
    /\ UNCHANGED <<writeVars, streamVars, sessionVars, windowVars, output, shut, peer, serverVars>>

FlushStep(t) == Flush(t) \/ FlushSend(t) \/ FlushLook(t)

-----------------------------------------------------------------------------
\* exchange(): a slot under the peer's limit, then a stream.

Refusal == IF protocolFailure THEN "ProtocolFailure" ELSE "Retry"
Refuses == dead \/ goingAway \/ settings.limit = 0

Refuse(r) ==
    /\ outcome' = [outcome EXCEPT ![r] = Refusal]
    /\ pc' = [Notified EXCEPT ![r] = "done"]

FreeSlot == open < settings.limit

Slot(r) ==
    /\ pc[r] = "slot"
    /\ \/ /\ Refuses
          /\ outcome' = [outcome EXCEPT ![r] = Refusal]
          /\ pc' = [pc EXCEPT ![r] = "done"]
          /\ UNCHANGED open
       \/ /\ ~Refuses /\ FreeSlot
          /\ open' = open + 1
          /\ pc' = [pc EXCEPT ![r] = "write"]
          /\ UNCHANGED outcome
       \/ /\ ~Refuses /\ ~FreeSlot
          /\ pc' = [pc EXCEPT ![r] = "slotAsleep"]
          /\ UNCHANGED <<open, outcome>>
    /\ UNCHANGED <<writeVars, live, id, headersDone, nextId, sessionVars, windowVars,
                   output, shut, peer, serverVars>>

LockWrite(r) ==
    /\ pc[r] = "write" /\ WriteLockFree
    /\ writer' = r
    /\ pc' = [pc EXCEPT ![r] = "locked"]
    /\ UNCHANGED <<buffer, after, streamVars, sessionVars, windowVars, output, shut, peer,
                   serverVars>>

\* With both locks: the session may have gone since, or its ids run out.  The
\* refused thread lets go of the write lock and returns.
OutOfIds == nextId > MaxId
GoneUnlooked == OutOfIds                         \* slip: the session not looked at again
GoneSince == dead \/ goingAway \/ OutOfIds

SlotKept == open                                 \* slip: the slot is not given back
SlotReturned == open - 1

Unregistered(r) ==
    /\ pc[r] = "locked"
    /\ GoneSince
    /\ goingAway' = (goingAway \/ OutOfIds)
    /\ open' = SlotReturned
    /\ Refuse(r)
    /\ writer' = None
    /\ UNCHANGED <<buffer, after, live, id, headersDone, nextId, dead, goawayLast,
                   protocolFailure, settingsReceived, settings, windowVars, output, shut,
                   peer, serverVars>>

Register(r) ==
    /\ pc[r] = "locked"
    /\ ~GoneSince
    /\ id' = [id EXCEPT ![r] = nextId]
    /\ nextId' = nextId + 1
    /\ live' = live \cup {r}
    /\ streamWindow' = [streamWindow EXCEPT ![r] = settings.window]
    /\ pc' = [pc EXCEPT ![r] = "registered"]
    /\ UNCHANGED <<writeVars, outcome, headersDone, open, sessionVars, sendWindow, reserved, at,
                   output, shut, peer, serverVars>>

Smaller(a, b) == IF a < b THEN a ELSE b
HeadersFirst(r) == <<Headers(r)>> \o output      \* slip: ahead of what is owed
HeadersLast(r) == output \o <<Headers(r)>>

TakeAndEncode(r) ==
    /\ pc[r] = "registered"
    /\ buffer' = [buffer EXCEPT ![r] = HeadersLast(r)]
    /\ output' = <<>>
    /\ pc' = [pc EXCEPT ![r] = "sending"]
    /\ UNCHANGED <<writer, after, streamVars, sessionVars, windowVars, shut, peer, serverVars>>

\* The write ends and the lock is let go.  A write fails when the connection is
\* gone; the reader sees that and ends the stream.
SendHeaders(r) ==
    /\ pc[r] = "sending"
    /\ peer' = Sent(r)
    /\ buffer' = [buffer EXCEPT ![r] = <<>>]
    /\ writer' = None
    /\ after' = [after EXCEPT ![r] = IF shut THEN "wait" ELSE "body"]
    /\ pc' = [pc EXCEPT ![r] = "flush"]
    /\ UNCHANGED <<streamVars, sessionVars, windowVars, output, shut, serverVars>>

-----------------------------------------------------------------------------
\* exchange(): the body, as the windows let it go.

Left(r) == (IF r \in Uploads THEN BodySize ELSE 0) - at[r]
Ready(r) == sendWindow > 0 /\ streamWindow[r] > 0

ChunkPastConnection(r) == Smaller(Smaller(Left(r), streamWindow[r]), settings.frame) \* slip: one window only
Chunk(r) == Smaller(Smaller(Left(r), sendWindow), Smaller(streamWindow[r], settings.frame))

ReserveChunk(r) ==
    /\ pc[r] = "body" /\ Left(r) > 0 /\ ~Ended(r) /\ ~dead /\ Ready(r)
    /\ sendWindow' = sendWindow - Chunk(r)
    /\ streamWindow' = [streamWindow EXCEPT ![r] = @ - Chunk(r)]
    /\ reserved' = [reserved EXCEPT ![r] = Chunk(r)]
    /\ pc' = [pc EXCEPT ![r] = "chunk"]
    /\ UNCHANGED <<writeVars, streamVars, sessionVars, at, output, shut, peer, serverVars>>

TakeAndWrite(r) ==
    /\ pc[r] = "chunk"
    /\ Acquire(r, <<Data(r, reserved[r], reserved[r] = Left(r))>>, "writing")
    /\ UNCHANGED <<after, streamVars, sessionVars, windowVars, shut, peer, serverVars>>

SendData(r) ==
    /\ pc[r] = "writing"
    /\ peer' = Sent(r)
    /\ buffer' = [buffer EXCEPT ![r] = <<>>]
    /\ writer' = None
    /\ at' = [at EXCEPT ![r] = IF shut THEN @ ELSE @ + reserved[r]]
    /\ reserved' = [reserved EXCEPT ![r] = 0]
    /\ after' = [after EXCEPT ![r] = IF shut THEN "bodyOver" ELSE "body"]
    /\ pc' = [pc EXCEPT ![r] = "flush"]
    /\ UNCHANGED <<streamVars, sessionVars, sendWindow, streamWindow, output, shut, serverVars>>

\* The whole body went, or the stream ended while it was going.
BodyOver(r) ==
    /\ pc[r] = "body" /\ (Left(r) = 0 \/ Ended(r) \/ dead)
    /\ pc' = [pc EXCEPT ![r] = "bodyOver"]
    /\ UNCHANGED <<writeVars, streamVars, sessionVars, windowVars, output, shut, peer, serverVars>>

GiveUpAloud(r) == output' = Append(output, Rst(r))

\* A stall timeout, in the body's wait for room or the wait for the answer.
TimedWhileSending(r) ==                          \* slip: no deadline on the answer
    pc[r] = "body" /\ Left(r) > 0 /\ ~dead /\ ~Ready(r)
Timed(r) ==
    \/ pc[r] = "body" /\ Left(r) > 0 /\ ~dead /\ ~Ready(r)
    \/ pc[r] = "wait"

Stall(r) ==
    /\ Timed(r) /\ ~Ended(r)
    /\ GiveUpAloud(r)
    /\ EndStreams([x \in {r} |-> "Failed"])
    /\ after' = [after EXCEPT ![r] = "wait"]
    /\ pc' = [Notified EXCEPT ![r] = "flush"]
    /\ UNCHANGED <<writer, buffer, id, headersDone, nextId, sessionVars, windowVars, shut, peer,
                   serverVars>>

\* The answer came before the whole body went: the rest is not wanted.
CloseOurSide(r) ==
    /\ pc[r] = "bodyOver"
    /\ IF Left(r) > 0 /\ Ended(r) /\ ~dead
         THEN /\ output' = Append(output, Rst(r))
              /\ after' = [after EXCEPT ![r] = "wait"]
              /\ pc' = [pc EXCEPT ![r] = "flush"]
         ELSE /\ pc' = [pc EXCEPT ![r] = "wait"]
              /\ UNCHANGED <<output, after>>
    /\ UNCHANGED <<writer, buffer, streamVars, sessionVars, windowVars, shut, peer, serverVars>>

Return(r) ==
    /\ pc[r] = "wait" /\ Ended(r)
    /\ pc' = [pc EXCEPT ![r] = "done"]
    /\ UNCHANGED <<writeVars, streamVars, sessionVars, windowVars, output, shut, peer, serverVars>>

RequestStep(r) ==
    \/ Slot(r) \/ LockWrite(r) \/ Unregistered(r) \/ Register(r)
    \/ TakeAndEncode(r) \/ SendHeaders(r)
    \/ ReserveChunk(r) \/ TakeAndWrite(r) \/ SendData(r) \/ BodyOver(r) \/ CloseOurSide(r)
    \/ Stall(r) \/ Return(r)
    \/ FlushStep(r)

-----------------------------------------------------------------------------
\* run(): one frame, under m_mutex; the session ends with an error, or when it
\* is going away and its last stream has ended.

Handled(fatal) ==
    /\ dead' = (fatal \/ (goingAway' /\ live' = {}))
    /\ pc' = [pc EXCEPT ![Reader] = "handled"]
    /\ after' = [after EXCEPT ![Reader] = IF dead' THEN "leave" ELSE "receive"]
    /\ UNCHANGED <<writer, buffer, id, nextId, reserved, at, shut>>

Receiving == pc[Reader] = "receive" /\ ~dead
Opened(r) == peer.stream[r] # "idle"

\* The server's SETTINGS, the first of which is its preface.
NewSettings(s) ==
    /\ Receiving /\ sentByPeer.settings < MaxSettings
    /\ sentByPeer' = [sentByPeer EXCEPT !.settings = @ + 1]
    /\ settings' = s
    /\ streamWindow' = [r \in Requests |->
          IF r \in live THEN streamWindow[r] + (s.window - settings.window) ELSE streamWindow[r]]
    /\ settingsReceived' = TRUE
    /\ output' = Append(output, Ack(s))
    /\ UNCHANGED <<live, outcome, headersDone, open, goingAway, goawayLast, protocolFailure,
                   sendWindow, acted, forsworn, answered, peer>>
    /\ Handled(FALSE)

Ping ==
    /\ Receiving /\ settingsReceived /\ sentByPeer.frames < MaxFrames
    /\ sentByPeer' = [sentByPeer EXCEPT !.frames = @ + 1]
    /\ output' = Append(output, Pong)
    /\ UNCHANGED <<live, outcome, headersDone, open, goingAway, goawayLast, protocolFailure,
                   settingsReceived, settings, sendWindow, streamWindow, acted, forsworn,
                   answered, peer>>
    /\ Handled(FALSE)

\* WINDOW_UPDATE on a stream (r) and on the connection (None).
WindowUpdate(r) ==
    /\ Receiving /\ settingsReceived /\ sentByPeer.frames < MaxFrames
    /\ r # None => Opened(r)
    /\ sentByPeer' = [sentByPeer EXCEPT !.frames = @ + 1]
    /\ IF r = None
         THEN sendWindow' = sendWindow + 1 /\ UNCHANGED streamWindow
         ELSE /\ streamWindow' = [streamWindow EXCEPT ![r] = IF r \in live THEN @ + 1 ELSE @]
              /\ UNCHANGED sendWindow
    /\ peer' = IF r = None THEN [peer EXCEPT !.allRoom = @ + 1] ELSE [peer EXCEPT !.room[r] = @ + 1]
    /\ UNCHANGED <<live, outcome, headersDone, open, goingAway, goawayLast, protocolFailure,
                   settingsReceived, settings, output, acted, forsworn, answered>>
    /\ Handled(FALSE)

\* HEADERS, DATA or trailers of the response, with END_STREAM or without (once: a
\* response comes in two parts, a bound).  "Done" stands for a response that has
\* ended, as long as it said or not.
Response(r, end) ==
    /\ Receiving /\ settingsReceived
    /\ Opened(r) /\ r \notin forsworn \cup answered
    /\ ~end => r \in live /\ ~headersDone[r]
    /\ acted' = acted \cup {r}
    /\ headersDone' = [headersDone EXCEPT ![r] = @ \/ r \in live]
    /\ IF end /\ r \in live
         THEN EndStreams([x \in {r} |-> "Done"])
         ELSE UNCHANGED <<live, open, outcome>>
    /\ answered' = IF end THEN answered \cup {r} ELSE answered
    /\ UNCHANGED <<goingAway, goawayLast, protocolFailure, settingsReceived, settings, sendWindow,
                   streamWindow, output, forsworn, sentByPeer, peer>>
    /\ Handled(FALSE)

\* A stream error: this side resets a stream whose response it will not have.
StreamError(r) ==
    /\ Receiving /\ settingsReceived /\ "error" \in Events
    /\ r \in acted /\ r \notin answered /\ r \in live
    /\ output' = Append(output, Rst(r))
    /\ EndStreams([x \in {r} |-> "Failed"])
    /\ UNCHANGED <<headersDone, goingAway, goawayLast, protocolFailure, settingsReceived, settings,
                   sendWindow, streamWindow, serverVars, peer>>
    /\ Handled(FALSE)

\* RST_STREAM from the server.  REFUSED_STREAM and HTTP_1_1_REQUIRED say that
\* the request was not acted on.
ResetOutcome(r, code) ==
    CASE code = "refused" -> "Retry"
      [] code = "http11" -> IF headersDone[r] THEN "Failed" ELSE "ProtocolFailure"
      [] code = "broken" -> Unanswered(r, TRUE)
      [] code = "other" -> "Failed"

ServerReset(r, code) ==
    /\ Receiving /\ settingsReceived /\ "reset" \in Events
    /\ Opened(r) /\ r \notin answered
    /\ code \in {"refused", "http11"} => r \notin acted
    /\ IF r \in live
         THEN EndStreams([x \in {r} |-> ResetOutcome(r, code)])
         ELSE UNCHANGED <<live, open, outcome>>
    /\ answered' = answered \cup {r}
    /\ forsworn' = IF code \in {"refused", "http11"} THEN forsworn \cup {r} ELSE forsworn
    /\ peer' = [peer EXCEPT !.stream[r] = "reset"]
    /\ UNCHANGED <<headersDone, goingAway, goawayLast, protocolFailure, settingsReceived, settings,
                   sendWindow, streamWindow, output, acted, sentByPeer>>
    /\ Handled(FALSE)

\* GOAWAY: the streams past the last one the server names were never processed.
PastIncluded(last) == {r \in live : id[r] >= last}     \* slip: off by one
Past(last) == {r \in live : id[r] > last}

GoawayLast(last) == IF goingAway THEN Smaller(goawayLast, last) ELSE last

PeerGoaway(last, broken) ==
    /\ Receiving /\ settingsReceived /\ "goaway" \in Events
    /\ \A r \in acted : id[r] <= last
    /\ forsworn' = forsworn \cup {r \in Requests : id[r] = 0 \/ id[r] > last}
    /\ goawayLast' = GoawayLast(last)
    /\ goingAway' = TRUE
    /\ protocolFailure' = (protocolFailure \/ broken)
    /\ EndStreams([r \in Past(GoawayLast(last)) |-> IF broken THEN "ProtocolFailure" ELSE "Retry"])
    /\ UNCHANGED <<headersDone, settingsReceived, settings, sendWindow, streamWindow, output, acted,
                   answered, sentByPeer, peer>>
    /\ Handled(FALSE)

\* A frame HTTP/2 does not allow, or no SETTINGS first: connection_error.
ConnectionError ==
    /\ Receiving /\ "badFrame" \in Events
    /\ output' = Append(output, Goaway)
    /\ protocolFailure' = TRUE
    /\ EndStreams(AllUnanswered(TRUE))
    /\ UNCHANGED <<headersDone, goingAway, goawayLast, settingsReceived, settings, sendWindow,
                   streamWindow, serverVars, peer>>
    /\ Handled(TRUE)

\* Something arrives after the session has ended: it is not looked at.
ReceiveDead ==
    /\ pc[Reader] = "receive" /\ dead
    /\ pc' = [pc EXCEPT ![Reader] = "handled"]
    /\ after' = [after EXCEPT ![Reader] = "leave"]
    /\ UNCHANGED <<writer, buffer, streamVars, sessionVars, windowVars, output, shut, peer, serverVars>>

\* The network takes the connection away; whoever uses it next finds out.
ConnectionFails ==
    /\ ~shut /\ "lost" \in Events
    /\ shut' = TRUE
    /\ UNCHANGED <<pc, writeVars, streamVars, sessionVars, windowVars, output, peer, serverVars>>

\* lost(): the server closed the connection, it failed, or it was shut down here.
Lost ==
    /\ pc[Reader] = "receive" /\ (shut \/ "lost" \in Events)
    /\ shut' = TRUE
    /\ dead' = TRUE
    /\ protocolFailure' = (protocolFailure \/ (~dead /\ ~settingsReceived))
    /\ IF dead THEN UNCHANGED <<live, open, outcome>>
       ELSE EndStreams(AllUnanswered(protocolFailure'))
    /\ pc' = [pc EXCEPT ![Reader] = "handled"]
    /\ after' = [after EXCEPT ![Reader] = "leave"]
    /\ UNCHANGED <<writer, buffer, id, headersDone, nextId, goingAway, goawayLast,
                   settingsReceived, settings, windowVars, output, peer, serverVars>>

ReaderNotifies ==
    /\ pc[Reader] = "handled"
    /\ pc' = [Notified EXCEPT ![Reader] = "flush"]
    /\ UNCHANGED <<writeVars, streamVars, sessionVars, windowVars, output, shut, peer, serverVars>>

ReaderLeaves ==
    /\ pc[Reader] = "leave"
    /\ shut' = TRUE
    /\ pc' = [pc EXCEPT ![Reader] = "gone"]
    /\ UNCHANGED <<writeVars, streamVars, sessionVars, windowVars, output, peer, serverVars>>

-----------------------------------------------------------------------------
\* close(): only tries the write lock, ends every stream, says what is owed and
\* its GOAWAY if it may write, and shuts the connection down.

Close ==
    /\ pc[Closer] = "idle" /\ "close" \in Events
    /\ dead' = TRUE
    /\ IF dead THEN UNCHANGED <<live, open, outcome>> ELSE EndStreams(AllUnanswered(FALSE))
    /\ IF writer = None
         THEN Acquire(Closer, IF dead THEN <<>> ELSE <<Goaway>>, "closing")
         ELSE pc' = [pc EXCEPT ![Closer] = "shutting"] /\ UNCHANGED <<writer, buffer, output>>
    /\ UNCHANGED <<after, id, headersDone, nextId, goingAway, goawayLast, protocolFailure,
                   settingsReceived, settings, windowVars, shut, peer, serverVars>>

CloseSends ==
    /\ pc[Closer] = "closing"
    /\ peer' = Sent(Closer)
    /\ buffer' = [buffer EXCEPT ![Closer] = <<>>]
    /\ writer' = None
    /\ pc' = [pc EXCEPT ![Closer] = "shutting"]
    /\ UNCHANGED <<after, streamVars, sessionVars, windowVars, output, shut, serverVars>>

CloseShuts ==
    /\ pc[Closer] = "shutting"
    /\ shut' = TRUE
    /\ pc' = [Notified EXCEPT ![Closer] = "closed"]
    /\ UNCHANGED <<writeVars, streamVars, sessionVars, windowVars, output, peer, serverVars>>

-----------------------------------------------------------------------------
\* The server acts on a request that reached it, unless it has said it will not.
Act(r) ==
    /\ "act" \in Events
    /\ Opened(r) /\ r \notin acted \cup forsworn
    /\ acted' = acted \cup {r}
    /\ UNCHANGED <<pc, writeVars, streamVars, sessionVars, windowVars, output, shut, peer,
                   forsworn, answered, sentByPeer>>

Receive ==
    \/ \E s \in Settings : NewSettings(s)
    \/ Ping
    \/ \E r \in Requests \cup {None} : WindowUpdate(r)
    \/ \E r \in Requests : (\E end \in BOOLEAN : Response(r, end)) \/ StreamError(r)
    \/ \E r \in Requests, code \in {"refused", "http11", "broken", "other"} : ServerReset(r, code)
    \/ \E last \in 0..nextId - 1, broken \in BOOLEAN : PeerGoaway(last, broken)
    \/ ConnectionError

Over == (\A r \in Requests : pc[r] = "done") /\ UNCHANGED vars

Next ==
    \/ \E r \in Requests : RequestStep(r) \/ Act(r)
    \/ Receive \/ ReceiveDead \/ Lost \/ ConnectionFails
    \/ ReaderNotifies \/ FlushStep(Reader) \/ ReaderLeaves
    \/ Close \/ CloseSends \/ CloseShuts
    \/ Over

\* Threads that can run do; a write returns (the server reads, or TCP gives up)
\* and every wait for the server has its deadline.  The server owes nothing; once
\* the connection is gone, what it had sent runs out (SF).
Fairness ==
    /\ \A r \in Requests : WF_vars(RequestStep(r))
    /\ WF_vars(ReaderNotifies \/ FlushStep(Reader) \/ ReaderLeaves)
    /\ SF_vars(shut /\ Lost)
    /\ WF_vars(CloseSends \/ CloseShuts)

Spec == Init /\ [][Next]_vars /\ Fairness

-----------------------------------------------------------------------------
\* Properties.

TypeOK ==
    /\ writer \in Threads \cup {None}
    /\ live \subseteq Requests /\ open \in 0..Cardinality(Requests)
    /\ id \in [Requests -> 0..MaxId] /\ nextId \in 1..MaxId + 1
    /\ outcome \in [Requests -> {"none", "Done", "Retry", "ProtocolFailure", "Failed"}]
    /\ sendWindow \in Nat
    /\ at \in [Requests -> 0..BodySize]

\* m_open counts the streams that are open and the slots reserved for streams
\* about to be: on no path out of exchange or of the reader is one lost or
\* given back twice.
SlotsAreCounted ==
    open = Cardinality(live) + Cardinality({r \in Requests : pc[r] \in {"write", "locked"}})

\* Once the session is dead no stream is open, so nobody waits for one: a
\* request that registers late is refused rather than left to its timeout.
DeadHasNoStreams == dead => \A r \in Requests : id[r] # 0 => Ended(r)

\* Stream ids rise on the wire with the HEADERS that open them.
IdsRiseOnTheWire ==
    \A r, s \in Requests :
        0 < id[r] /\ id[r] < id[s] /\ Opened(s) => Opened(r)

\* "Frames queued while the lock was held are never stranded": while the
\* session takes requests, a frame the reader owes has somebody to send it, the
\* holder of the write lock or a thread about to try for it.
NothingStranded ==
    output # <<>> /\ ~dead /\ ~goingAway =>
        writer # None \/ \E t \in Threads : pc[t] \in {"handled", "flush", "flushed"}

\* A request goes out again only if the server never acted on it, or its method
\* is idempotent, or the server's SETTINGS were never seen (what Outcome::Retry
\* and Outcome::ProtocolFailure say of themselves).
Resent(r) == outcome[r] \in {"Retry", "ProtocolFailure"}
ReplayIsSafe ==
    \A r \in acted : Resent(r) => r \in Replayable \/ ~settingsReceived

\* A stream never reaches a server that already counts as many as the limit it
\* knows acknowledged: the RST_STREAM that freed a slot goes out ahead of the
\* HEADERS that take it.
PeerNeverCountsTooMany == ~peer.crowded

\* DATA stays "within the peer's windows", the stream's and the connection's, as
\* the server has granted them and knows them acknowledged.
NeverOverrun == ~peer.overrun

\* Every exchange returns: it is answered, refused, resent or failed, whatever
\* the server and the other threads do.
ExchangeEnds == \A r \in Requests : pc[r] = "slot" ~> pc[r] = "done"
=============================================================================
