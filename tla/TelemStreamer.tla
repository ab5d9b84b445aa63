---------------------------- MODULE TelemStreamer ----------------------------
(***************************************************************************)
(* Live telemetry in Pluto: the Streamer that shares one stream among all  *)
(* handlers (pluto/src/telem/client/streamer.ts), the framer Streamer of   *)
(* the TypeScript client it opens (client/ts/src/framer/streamer.ts) and   *)
(* the websocket underneath (freighter/ts/src/websocket.ts).               *)
(*                                                                         *)
(* JavaScript runs a piece of code without interruption up to its next     *)
(* await: an action is such a piece.  Calls of stream() and of the         *)
(* destructor it returns queue for one FIFO mutex; the run loop that reads *)
(* the socket and Core.close do not take it.                               *)
(***************************************************************************)
EXTENDS Naturals, Sequences, FiniteSets

CONSTANTS
    Handlers,    \* stream handlers; each is registered once
    Channels,    \* channel keys
    KeysOf,      \* the channels a handler asks for
    None,        \* no streamer
    MaxRecv,     \* bound on the messages waiting to be received
    MaxFaults    \* bound on the faults of the cluster and the network

ASSUME StreamerAssumption ==
    /\ KeysOf \in [Handlers -> SUBSET Channels]
    /\ \A keys \in SUBSET Channels : keys # None
    /\ MaxRecv \in Nat \ {0} /\ MaxFaults \in Nat

VARIABLES
    call,       \* where each handler's calls of stream and its destructor are
    toFetch,    \* per handler: the keys populateMissing is retrieving
    cache,      \* the keys the cache has an entry for
    behind,     \* per handler: the channels whose leading buffer it was not given
    listeners,  \* Streamer.listeners: absent, valid or invalid
    queue,      \* the tasks in the mutex, the running one first
    step,       \* where the running task is
    streamer,   \* Streamer.streamer: None or the keys of its adapter
    loop,       \* Streamer.streamerRunLoop
    closer,     \* where Core.close is
    closed,     \* Streamer.closed
    ws,         \* the websocket stream, and what the server makes of it
    faults,     \* the faults so far
    raced       \* history: close ended while a streamer was being opened

vars == <<call, toFetch, cache, behind, listeners, queue, step, streamer,
          loop, closer, closed, ws, faults, raced>>

Task(op, h) == [op |-> op, h |-> h]

-----------------------------------------------------------------------------
(* WebSocketStream                                                         *)

NoSocket ==
    [up |-> FALSE, toServer |-> <<>>, recv |-> <<>>, sendClosed |-> FALSE,
     serverClosed |-> "no", serverKeys |-> {}, acked |-> FALSE]

Data(keys) == [type |-> "data", keys |-> keys]
CloseMsg(error) == [type |-> "close", error |-> error]

(* send and StreamProxy.send: either way of failing throws.                 *)
SendFails(s) == s.serverClosed # "no" \/ s.sendClosed
Send(s, keys) ==
    IF SendFails(s) THEN s ELSE [s EXCEPT !.toServer = Append(@, Data(keys))]

(* Mutant: the stream is marked closed, the server is not told.             *)
closeSend_Untold(s) == [s EXCEPT !.sendClosed = TRUE]

closeSend(s) ==
    IF s.sendClosed \/ s.serverClosed # "no" THEN s
    ELSE [s EXCEPT !.toServer = Append(@, CloseMsg("")), !.sendClosed = TRUE]

(* receive of a close message remembers its error.                          *)
Receive(s) ==
    LET msg == Head(s.recv)
    IN  [s EXCEPT !.recv = Tail(@),
                  !.serverClosed = IF msg.type = "close" THEN msg.error ELSE @]

CanReceive(s) == s.recv # <<>>

-----------------------------------------------------------------------------
(* The server: the other end of the socket.                                *)

(* The first keys are acknowledged, later ones replace them; a close is     *)
(* answered with the end of the stream.                                     *)
ServerHandles ==
    /\ ws.up /\ ws.toServer # <<>>
    /\ LET msg == Head(ws.toServer)
           rest == [ws EXCEPT !.toServer = Tail(@)]
       IN  ws' = IF msg.type = "close"
                 THEN [rest EXCEPT !.recv = Append(@, CloseMsg("eof")), !.up = FALSE]
                 ELSE [rest EXCEPT !.serverKeys = msg.keys, !.acked = TRUE,
                                   !.recv = IF ws.acked THEN @
                                            ELSE Append(@, [type |-> "ack"])]
    /\ UNCHANGED <<call, toFetch, cache, behind, listeners, queue, step,
                   streamer, loop, closer, closed, faults, raced>>

ServerSendsFrame ==
    /\ ws.up /\ ws.acked /\ Len(ws.recv) < MaxRecv
    /\ \E keys \in SUBSET ws.serverKeys \ {{}} :
          ws' = [ws EXCEPT !.recv = Append(@, Data(keys))]
    /\ UNCHANGED <<call, toFetch, cache, behind, listeners, queue, step,
                   streamer, loop, closer, closed, faults, raced>>

(* onclose: the server goes away, which reads as the end of the stream, or  *)
(* the connection is lost.                                                  *)
ConnectionEnds ==
    /\ ws.up /\ faults < MaxFaults
    /\ faults' = faults + 1
    /\ \E error \in {"eof", "lost"} :
          ws' = [ws EXCEPT !.up = FALSE, !.toServer = <<>>,
                           !.recv = Append(@, CloseMsg(error))]
    /\ UNCHANGED <<call, toFetch, cache, behind, listeners, queue, step,
                   streamer, loop, closer, closed, raced>>

-----------------------------------------------------------------------------
(* Streamer.updateStreamer, the tail of the tasks that change listeners.    *)

(* The keys of every listener, the invalid ones included.                   *)
Wanted(ls) == UNION {KeysOf[h] : h \in {g \in Handlers : ls[g] # "absent"}}

(* The running task leaves the mutex and its caller goes on.                *)
EndTask(outcome) ==
    /\ queue' = Tail(queue)
    /\ step' = "idle"
    /\ call' = [call EXCEPT ![Head(queue).h] =
                   CASE Head(queue).op = "delete" -> "gone"
                     [] Head(queue).op # "delete" /\ outcome = "threw" -> "rejected"
                     [] OTHER -> "streaming"]

Await(where) == step' = where /\ UNCHANGED <<queue, call>>

(* Up to the first await: a closed streamer is left alone, no keys close    *)
(* the stream, unchanged keys need nothing, a missing streamer is opened    *)
(* and an existing one is told the new keys, which its adapter takes over   *)
(* before they are sent.                                                    *)
updateStreamer(ls) ==
    LET keys == Wanted(ls)
    IN  \/ /\ closed
           /\ EndTask("done")
           /\ UNCHANGED <<streamer, ws>>
        \/ /\ ~closed /\ keys = {}
           /\ ws' = IF streamer # None THEN closeSend(ws) ELSE ws
           /\ IF loop = "none"
              THEN streamer' = None /\ EndTask("done")
              ELSE UNCHANGED streamer /\ Await("awaitLoop")
        \/ /\ ~closed /\ keys # {} /\ streamer = keys
           /\ EndTask("done")
           /\ UNCHANGED <<streamer, ws>>
        \/ /\ ~closed /\ keys # {} /\ streamer = None
           /\ ws' = NoSocket
           /\ Await("opening")
           /\ UNCHANGED streamer
        \/ /\ ~closed /\ keys # {} /\ streamer \notin {None, keys}
           /\ streamer' = keys
           /\ ws' = Send(ws, keys)
           /\ EndTask(IF SendFails(ws) THEN "threw" ELSE "done")

(* No keys left: the end of the run loop is awaited before the streamer is  *)
(* forgotten; a loop that failed throws here and the streamer stays.        *)
LoopAwaited ==
    /\ step = "awaitLoop" /\ loop \in {"ended", "failed"}
    /\ streamer' = IF loop = "ended" THEN None ELSE streamer
    /\ EndTask(IF loop = "ended" THEN "done" ELSE "threw")
    /\ UNCHANGED <<toFetch, cache, behind, listeners, loop, closer, closed,
                   ws, faults, raced>>

(* framer.Streamer._open: connect and send the keys, which are those of the *)
(* listeners when the task began, for the mutex keeps others out.           *)
(* A close that waits for the old loop resumes before a socket connects.    *)
SocketOpens ==
    /\ step = "opening" /\ ~ws.up /\ ws = NoSocket
    /\ closer # "awaitLoop" \/ loop = "running"
    /\ ws' = Send([NoSocket EXCEPT !.up = TRUE], Wanted(listeners))
    /\ UNCHANGED <<call, toFetch, cache, behind, listeners, queue, step,
                   streamer, loop, closer, closed, faults, raced>>

SocketFails ==
    /\ step = "opening" /\ ws = NoSocket /\ faults < MaxFaults
    /\ faults' = faults + 1
    /\ EndTask("threw")
    /\ UNCHANGED <<toFetch, cache, behind, listeners, streamer, loop, closer,
                   closed, ws, raced>>

(* The acknowledgement: the run loop starts and the keys are sent again.    *)
(* Whether the client has been closed meanwhile is not looked at.           *)
StreamerOpened ==
    /\ step = "opening" /\ CanReceive(ws) /\ Head(ws.recv).type = "ack"
    /\ streamer' = Wanted(listeners)
    /\ loop' = "running"
    /\ ws' = Send(Receive(ws), Wanted(listeners))
    /\ EndTask(IF SendFails(ws) THEN "threw" ELSE "done")
    /\ UNCHANGED <<toFetch, cache, behind, listeners, closer, closed,
                   faults, raced>>

StreamerRefused ==
    /\ step = "opening" /\ CanReceive(ws) /\ Head(ws.recv).type = "close"
    /\ ws' = Receive(ws)
    /\ EndTask("threw")
    /\ UNCHANGED <<toFetch, cache, behind, listeners, streamer, loop, closer,
                   closed, faults, raced>>

-----------------------------------------------------------------------------
(* Streamer.stream and removeStreamHandler                                 *)

stream(h) ==
    /\ call[h] = "idle"
    /\ call' = [call EXCEPT ![h] = "populating"]
    /\ toFetch' = [toFetch EXCEPT ![h] = KeysOf[h] \ cache]
    /\ UNCHANGED <<cache, behind, listeners, queue, step, streamer, loop,
                   closer, closed, ws, faults, raced>>

(* Cache.populateMissing after its await: entries are made for the channels *)
(* that were retrieved, in a cache that may have been closed meanwhile.     *)
Populated(h) ==
    /\ call[h] = "populating"
    /\ cache' = cache \cup toFetch[h]
    /\ toFetch' = [toFetch EXCEPT ![h] = {}]
    /\ queue' = Append(queue, Task("add", h))
    /\ call' = [call EXCEPT ![h] = "queued"]
    /\ UNCHANGED <<behind, listeners, step, streamer, loop, closer, closed,
                   ws, faults, raced>>

RetrieveFails(h) ==
    /\ call[h] = "populating" /\ toFetch[h] # {} /\ faults < MaxFaults
    /\ faults' = faults + 1
    /\ toFetch' = [toFetch EXCEPT ![h] = {}]
    /\ call' = [call EXCEPT ![h] = "rejected"]
    /\ UNCHANGED <<cache, behind, listeners, queue, step, streamer, loop,
                   closer, closed, ws, raced>>

Running(op, h) == step = "idle" /\ queue # <<>> /\ Head(queue) = Task(op, h)

(* The listener is registered first: it stays when its channel is missing   *)
(* from the cache or the streamer cannot be updated.                        *)
AddHandler(h) ==
    /\ Running("add", h)
    /\ listeners' = [listeners EXCEPT ![h] = "valid"]
    /\ IF KeysOf[h] \subseteq cache
       THEN /\ behind' = [behind EXCEPT ![h] = {}]
            /\ updateStreamer(listeners')
       ELSE /\ EndTask("threw")
            /\ UNCHANGED <<behind, streamer, ws>>
    /\ UNCHANGED <<toFetch, cache, loop, closer, closed, faults, raced>>

(* The destructor that stream() returned.                                   *)
removeStreamHandler(h) ==
    /\ call[h] = "streaming"
    /\ call' = [call EXCEPT ![h] = "removing"]
    /\ queue' = Append(queue, Task("invalidate", h))
    /\ UNCHANGED <<toFetch, cache, behind, listeners, step, streamer, loop,
                   closer, closed, ws, faults, raced>>

Invalidate(h) ==
    /\ Running("invalidate", h)
    /\ listeners' = [listeners EXCEPT ![h] = IF @ = "absent" THEN @ ELSE "invalid"]
    /\ queue' = Tail(queue)
    /\ call' = [call EXCEPT ![h] = "timer"]
    /\ UNCHANGED <<toFetch, cache, behind, step, streamer, loop, closer,
                   closed, ws, faults, raced>>

(* Five seconds later the listener is to be deleted.                        *)
RemovalDue(h) ==
    /\ call[h] = "timer"
    /\ call' = [call EXCEPT ![h] = "leaving"]
    /\ queue' = Append(queue, Task("delete", h))
    /\ UNCHANGED <<toFetch, cache, behind, listeners, step, streamer, loop,
                   closer, closed, ws, faults, raced>>

(* Mutant: the streamer is not updated when a listener is deleted.          *)
DeleteHandler_NoUpdate(h) ==
    /\ Running("delete", h)
    /\ listeners' = [listeners EXCEPT ![h] = "absent"]
    /\ EndTask("done")
    /\ UNCHANGED <<toFetch, cache, behind, streamer, ws, loop, closer, closed, faults,
                   raced>>

DeleteHandler(h) ==
    /\ Running("delete", h)
    /\ listeners' = [listeners EXCEPT ![h] = "absent"]
    /\ IF listeners[h] # "absent"
       THEN updateStreamer(listeners')
       ELSE EndTask("done") /\ UNCHANGED <<streamer, ws>>
    /\ UNCHANGED <<toFetch, cache, behind, loop, closer, closed, faults, raced>>

-----------------------------------------------------------------------------
(* Streamer.runStreamer                                                    *)

(* Mutant: only handlers all of whose channels are in the frame.            *)
Notified_WholeOnly(keys) ==
    {h \in Handlers : listeners[h] = "valid" /\ KeysOf[h] \subseteq keys}

Notified(keys) == {h \in Handlers : listeners[h] = "valid" /\ KeysOf[h] \cap keys # {}}

(* Channels `new' have a new leading buffer, which handlers hs are given.   *)
BehindAfter(new, hs) ==
    [h \in Handlers |-> IF h \in hs THEN behind[h] \ (new \cap KeysOf[h])
                        ELSE behind[h] \cup (new \cap KeysOf[h])]

(* Every channel of the frame is written, then every valid listener that    *)
(* asked for one of them is given what its channels allocated.              *)
HandleFrame ==
    /\ loop = "running"
    /\ CanReceive(ws) /\ Head(ws.recv).type = "data"
    /\ Head(ws.recv).keys \subseteq cache
    /\ LET keys == Head(ws.recv).keys
       IN  \E new \in SUBSET keys : behind' = BehindAfter(new, Notified(keys))
    /\ ws' = Receive(ws)
    /\ UNCHANGED <<call, toFetch, cache, listeners, queue, step, streamer, loop, closer,
                   closed, faults, raced>>

(* A frame for a channel that has no cache entry, or that its cache refuses *)
(* (Static.checkIntegrity), throws and ends the loop.  Nobody is told, not  *)
(* even of the buffers that the channels before it allocated.               *)
FrameThrows ==
    /\ loop = "running"
    /\ CanReceive(ws) /\ Head(ws.recv).type = "data"
    /\ IF Head(ws.recv).keys \subseteq cache
       THEN faults < MaxFaults /\ faults' = faults + 1
       ELSE UNCHANGED faults
    /\ \E new \in SUBSET (Head(ws.recv).keys \cap cache) \ {Head(ws.recv).keys} :
          behind' = BehindAfter(new, {})
    /\ ws' = Receive(ws)
    /\ loop' = "failed"
    /\ UNCHANGED <<call, toFetch, cache, listeners, queue, step, streamer,
                   closer, closed, raced>>

StreamEnds ==
    /\ loop = "running"
    /\ CanReceive(ws) /\ Head(ws.recv).type = "close"
    /\ ws' = Receive(ws)
    /\ loop' = IF Head(ws.recv).error = "eof" THEN "ended" ELSE "failed"
    /\ UNCHANGED <<call, toFetch, cache, behind, listeners, queue, step,
                   streamer, closer, closed, faults, raced>>

-----------------------------------------------------------------------------
(* Core.close: the streamer, then the cache.  It takes no mutex.            *)

(* Neither closed is set nor the cache closed when the loop has failed.     *)
CloseRejects == closer' = "rejected" /\ UNCHANGED <<closed, cache, raced>>

(* Mutant: the streamer is not marked closed.                               *)
CacheClosed_Unmarked ==
    /\ closer' = "done"
    /\ closed' = closed
    /\ cache' = {}
    /\ raced' = (step = "opening")

CacheClosed ==
    /\ closer' = "done"
    /\ closed' = TRUE
    /\ cache' = {}
    /\ raced' = (step = "opening")

close ==
    /\ closer = "open"
    /\ ws' = IF streamer # None THEN closeSend(ws) ELSE ws
    /\ \/ loop \in {"none", "ended"} /\ CacheClosed
       \/ loop = "failed" /\ CloseRejects
       \/ /\ loop = "running"
          /\ closer' = "awaitLoop"
          /\ UNCHANGED <<closed, cache, raced>>
    /\ UNCHANGED <<call, toFetch, behind, listeners, queue, step, streamer, loop, faults>>

CloseResumes ==
    /\ closer = "awaitLoop" /\ loop \in {"ended", "failed"}
    /\ IF loop = "ended" THEN CacheClosed ELSE CloseRejects
    /\ UNCHANGED <<call, toFetch, behind, listeners, queue, step, streamer, loop, ws,
                   faults>>

-----------------------------------------------------------------------------
Init ==
    /\ call = [h \in Handlers |-> "idle"]
    /\ toFetch = [h \in Handlers |-> {}]
    /\ cache = {}
    /\ behind = [h \in Handlers |-> {}]
    /\ listeners = [h \in Handlers |-> "absent"]
    /\ queue = <<>>
    /\ step = "idle"
    /\ streamer = None
    /\ loop = "none"
    /\ closer = "open"
    /\ closed = FALSE
    /\ ws = NoSocket
    /\ faults = 0
    /\ raced = FALSE

(* What the system does by itself once called.                              *)
Progress ==
    \/ \E h \in Handlers : \/ Populated(h) \/ AddHandler(h) \/ Invalidate(h)
                           \/ RemovalDue(h) \/ DeleteHandler(h)
    \/ LoopAwaited \/ SocketOpens \/ StreamerOpened \/ StreamerRefused
    \/ CloseResumes

(* The run loop takes every message.                                        *)
Loop == HandleFrame \/ FrameThrows \/ StreamEnds

Faults ==
    \/ ConnectionEnds \/ SocketFails
    \/ \E h \in Handlers : RetrieveFails(h)

Calls ==
    \/ \E h \in Handlers : stream(h) \/ removeStreamHandler(h)
    \/ close

Next == Calls \/ Progress \/ Loop \/ ServerHandles \/ ServerSendsFrame \/ Faults

(* Timers fire, promises settle in order and the mutex is fair; the server  *)
(* answers as long as the connection lasts.                                 *)
Fairness ==
    /\ WF_vars(Progress)
    /\ WF_vars(Loop)
    /\ WF_vars(ServerHandles)

Spec == Init /\ [][Next]_vars /\ Fairness

-----------------------------------------------------------------------------
(* Properties *)

Tasks == [op : {"add", "invalidate", "delete"}, h : Handlers]
Frames == [type : {"data"}, keys : SUBSET Channels]
Requests == Frames \cup [type : {"close"}, error : {""}]
Responses == Frames \cup [type : {"close"}, error : {"eof", "lost"}] \cup [type : {"ack"}]
Sockets ==
    [up : BOOLEAN, toServer : Seq(Requests), recv : Seq(Responses), sendClosed : BOOLEAN,
     serverClosed : {"no", "eof", "lost"}, serverKeys : SUBSET Channels, acked : BOOLEAN]

(* Every variable has its type, and only the owner of the mutex is between  *)
(* two awaits.                                                              *)
TypeOK ==
    /\ call \in [Handlers -> {"idle", "populating", "queued", "streaming", "rejected",
                              "removing", "timer", "leaving", "gone"}]
    /\ toFetch \in [Handlers -> SUBSET Channels]
    /\ cache \subseteq Channels
    /\ behind \in [Handlers -> SUBSET Channels]
    /\ listeners \in [Handlers -> {"absent", "valid", "invalid"}]
    /\ queue \in Seq(Tasks)
    /\ step \in {"idle", "opening", "awaitLoop"} /\ (queue = <<>> => step = "idle")
    /\ streamer = None \/ streamer \subseteq Channels
    /\ loop \in {"none", "running", "ended", "failed"}
    /\ closer \in {"open", "awaitLoop", "done", "rejected"}
    /\ closed \in BOOLEAN /\ raced \in BOOLEAN
    /\ ws \in Sockets
    /\ faults \in 0 .. MaxFaults

(* A handler that is being streamed to always has the buffer its channels   *)
(* are written to, although it is told of a buffer only once, when it       *)
(* registers or when the run loop allocates one: the two never miss each    *)
(* other.  A loop that failed may leave the handlers behind.  With types.   *)
HandlersHaveLeadingBuffer ==
    /\ TypeOK
    /\ ~closed /\ loop # "failed" =>
        \A h \in Handlers :
            listeners[h] = "valid" /\ call[h] # "rejected" => behind[h] = {}

(* The keys the server streams once it has read what was sent to it.        *)
Asked ==
    LET sent == {i \in DOMAIN ws.toServer : ws.toServer[i].type = "data"}
    IN  IF sent = {} THEN ws.serverKeys
        ELSE ws.toServer[CHOOSE i \in sent : \A j \in sent : j <= i].keys

(* Whenever no task holds the mutex, the cluster has been asked for exactly *)
(* the channels of the registered listeners, however their additions and    *)
(* delayed removals interleave.  (Without faults: the streamer is not       *)
(* reopened after one.)                                                     *)
ServerAskedForListeners ==
    queue = <<>> /\ faults = 0 /\ closer = "open" =>
        IF Wanted(listeners) = {}
        THEN streamer = None /\ loop # "running"
        ELSE streamer = Wanted(listeners) /\ Asked = Wanted(listeners)

(* Once the client is closed no run loop is left, unless close() ended      *)
(* while a task was opening a streamer: that task does not look again.      *)
NoStreamAfterClose ==
    closer = "done" /\ ~raced => loop # "running" /\ step # "opening"

Underway == {"populating", "queued", "removing", "timer", "leaving"}

(* Every call of stream() and close() ends, by resolving or rejecting, and  *)
(* every handler whose removal was asked for is removed, whatever fails     *)
(* meanwhile: nobody waits for a run loop that nobody ends.                 *)
CallsEnd ==
    /\ \A h \in Handlers : call[h] \in Underway ~> call[h] \notin Underway
    /\ closer = "awaitLoop" ~> closer # "awaitLoop"

=============================================================================
