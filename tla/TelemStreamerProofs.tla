------------------------- MODULE TelemStreamerProofs -------------------------
(***************************************************************************)
(* Proofs about TelemStreamer, for any handlers and channels, any number   *)
(* of faults and any traffic.                                              *)
(***************************************************************************)
EXTENDS TelemStreamer, TLAPS

-----------------------------------------------------------------------------
(* The inductive invariant.                                                *)

Place == [add |-> "queued", invalidate |-> "removing", delete |-> "leaving"]

(* A handler has at most one task in the mutex, the one it waits for.      *)
TasksAwaited ==
    /\ \A i \in DOMAIN queue : call[queue[i].h] = Place[queue[i].op]
    /\ \A i, j \in DOMAIN queue : queue[i].h = queue[j].h => i = j

(* Without a streamer there is no run loop to fail, and only without one   *)
(* is one opened.                                                          *)
LoopHasStreamer ==
    /\ streamer = None => loop \in {"none", "ended"}
    /\ step = "opening" => streamer = None

(* The streamer is marked closed by the end of close.                      *)
ClosedAtEnd == closed <=> closer = "done"

(* Until close has ended, what a handler asks for is in the cache once it  *)
(* has been retrieved.                                                     *)
Cached ==
    closer # "done" =>
        \A h \in Handlers :
            /\ call[h] = "populating" => KeysOf[h] \subseteq cache \cup toFetch[h]
            /\ call[h] \notin {"idle", "populating", "rejected"} => KeysOf[h] \subseteq cache
            /\ listeners[h] # "absent" => KeysOf[h] \subseteq cache

(* Only channels of known are asked for and sent, and the stream ends      *)
(* orderly if it ends.                                                     *)
OrderlySocket(s, known) ==
    /\ s.serverKeys \subseteq known
    /\ \A i \in DOMAIN s.toServer :
          s.toServer[i].type = "data" => s.toServer[i].keys \subseteq known
    /\ \A i \in DOMAIN s.recv :
          /\ s.recv[i].type = "data" => s.recv[i].keys \subseteq known
          /\ s.recv[i].type = "close" => s.recv[i].error = "eof"

(* Until close has ended and as long as nothing fails, only cached         *)
(* channels are streamed, so the run loop does not fail.                   *)
Orderly == closer # "done" /\ faults = 0 => OrderlySocket(ws, cache) /\ loop # "failed"

(* The socket is open at both ends and the server was last asked for keys. *)
AskedFor(s, keys) ==
    /\ s.up /\ ~s.sendClosed /\ s.serverClosed = "no"
    /\ \A i \in DOMAIN s.toServer : s.toServer[i].type = "data"
    /\ \A i \in DOMAIN s.recv : s.recv[i].type # "close"
    /\ s.toServer = <<>> => s.serverKeys = keys
    /\ s.toServer # <<>> => s.toServer[Len(s.toServer)].keys = keys

(* Between two tasks the streamer asks for what the listeners want; a task *)
(* that opens one asks for the same, and one that awaits the end of the    *)
(* run loop does so because they want nothing.                             *)
InStep ==
    closer = "open" /\ faults = 0 =>
        /\ step = "idle" /\ Wanted(listeners) = {} => streamer = None
        /\ step = "idle" /\ Wanted(listeners) # {} =>
               streamer = Wanted(listeners) /\ AskedFor(ws, Wanted(listeners))
        /\ step = "opening" =>
               /\ Wanted(listeners) # {}
               /\ ws = NoSocket \/ AskedFor(ws, Wanted(listeners))
        /\ step = "awaitLoop" => Wanted(listeners) = {}

IInv ==
    /\ HandlersHaveLeadingBuffer
    /\ TasksAwaited /\ LoopHasStreamer /\ ClosedAtEnd /\ Cached /\ Orderly
    /\ InStep /\ NoStreamAfterClose

-----------------------------------------------------------------------------
(* Facts about the socket.                                                 *)

(* What is left of a sequence whose head is taken.                         *)
LEMMA TailFacts ==
    ASSUME NEW S, NEW q \in Seq(S), q # <<>>
    PROVE  /\ Tail(q) \in Seq(S)
           /\ 1 \in DOMAIN q /\ Head(q) = q[1] /\ Head(q) \in S
           /\ Len(q) \in Nat \ {0} /\ Len(Tail(q)) = Len(q) - 1
           /\ \A i \in DOMAIN Tail(q) :
                 i \in Nat \ {0} /\ i + 1 \in DOMAIN q /\ Tail(q)[i] = q[i + 1]
           /\ Tail(q) = <<>> => Len(q) = 1
           /\ Tail(q) # <<>> =>
                 Len(Tail(q)) \in DOMAIN Tail(q) /\ Tail(q)[Len(Tail(q))] = q[Len(q)]
<1>1. /\ Tail(q) \in Seq(S)
      /\ 1 \in DOMAIN q /\ Head(q) = q[1] /\ Head(q) \in S
      /\ Len(q) \in Nat \ {0} /\ Len(Tail(q)) = Len(q) - 1
      /\ DOMAIN q = 1 .. Len(q) /\ DOMAIN Tail(q) = 1 .. Len(q) - 1
  OBVIOUS
<1>2. \A i \in 1 .. Len(q) - 1 : Tail(q)[i] = q[i + 1]
  OBVIOUS
<1>3. Tail(q) = <<>> <=> Len(Tail(q)) = 0
  BY <1>1
<1> QED
  BY <1>1, <1>2, <1>3

(* What joins a sequence comes last.                                       *)
LEMMA AppendFacts ==
    ASSUME NEW S, NEW q \in Seq(S), NEW x \in S
    PROVE  /\ Append(q, x) \in Seq(S) /\ Append(q, x) # <<>>
           /\ Append(q, x)[Len(Append(q, x))] = x
           /\ \A i \in DOMAIN Append(q, x) :
                 \/ i \in DOMAIN q /\ Append(q, x)[i] = q[i] /\ i # Len(q) + 1
                 \/ i = Len(q) + 1 /\ Append(q, x)[i] = x
OBVIOUS

(* A message is of one type and has the fields of that type.               *)
LEMMA RequestFacts ==
    ASSUME NEW msg \in Requests
    PROVE  /\ msg.type = "data" => msg.keys \in SUBSET Channels
           /\ msg.type \in {"data", "close"}
BY DEF Requests, Frames

LEMMA ResponseFacts ==
    ASSUME NEW msg \in Responses
    PROVE  /\ msg.type = "data" => msg.keys \in SUBSET Channels
           /\ msg.type = "close" => msg.error \in {"eof", "lost"}
           /\ msg.type \in {"data", "close", "ack"}
BY DEF Responses, Frames

LEMMA MessageFacts ==
    /\ \A keys \in SUBSET Channels :
          Data(keys) \in Requests /\ Data(keys) \in Responses
          /\ Data(keys).type = "data" /\ Data(keys).keys = keys
    /\ CloseMsg("") \in Requests /\ CloseMsg("").type = "close"
    /\ \A error \in {"eof", "lost"} :
          /\ CloseMsg(error) \in Responses
          /\ CloseMsg(error).type = "close" /\ CloseMsg(error).error = error
    /\ [type |-> "ack"] \in Responses /\ [type |-> "ack"].type = "ack"
BY DEF Data, CloseMsg, Requests, Responses, Frames

(* A socket that is not there holds and knows nothing.                     *)
LEMMA NoSocketFacts ==
    /\ NoSocket \in Sockets /\ ~NoSocket.up /\ NoSocket.recv = <<>>
    /\ \A known : OrderlySocket(NoSocket, known)
BY DEF NoSocket, Sockets, OrderlySocket

(* A socket that connects changes in nothing else.                         *)
LEMMA ConnectFacts ==
    ASSUME NEW s \in Sockets, NEW t, t = [s EXCEPT !.up = TRUE]
    PROVE  t = [up |-> TRUE, toServer |-> s.toServer, recv |-> s.recv,
                sendClosed |-> s.sendClosed, serverClosed |-> s.serverClosed,
                serverKeys |-> s.serverKeys, acked |-> s.acked]
BY DEF Sockets

(* More channels being known does no harm.                                 *)
LEMMA MoreKnown ==
    ASSUME NEW s, NEW known, NEW more, known \subseteq more, OrderlySocket(s, known)
    PROVE  OrderlySocket(s, more)
BY DEF OrderlySocket

(* Asking for other channels.                                              *)
LEMMA SendFacts ==
    ASSUME NEW s \in Sockets, NEW keys \in SUBSET Channels
    PROVE  /\ Send(s, keys) \in Sockets
           /\ \A known \in SUBSET Channels :
                 OrderlySocket(s, known) /\ keys \subseteq known => OrderlySocket(Send(s, keys), known)
           /\ \A old : AskedFor(s, old) => AskedFor(Send(s, keys), keys)
<1>1. CASE SendFails(s)
  BY <1>1 DEF Send, AskedFor, SendFails
<1>2. CASE ~SendFails(s)
  <2> DEFINE q == Append(s.toServer, Data(keys))
  <2>1. /\ Send(s, keys) = [s EXCEPT !.toServer = q]
        /\ Send(s, keys) = [up |-> s.up, toServer |-> q, recv |-> s.recv, sendClosed |-> s.sendClosed,
               serverClosed |-> s.serverClosed, serverKeys |-> s.serverKeys, acked |-> s.acked]
    BY <1>2 DEF Send, Sockets
  <2>2. s.toServer \in Seq(Requests) /\ Data(keys) \in Requests /\ Data(keys).type = "data"
        /\ Data(keys).keys = keys
    BY MessageFacts DEF Sockets
  <2>3. /\ q \in Seq(Requests) /\ q # <<>>
        /\ q[Len(q)] = Data(keys)
        /\ \A i \in DOMAIN q :
              \/ i \in DOMAIN s.toServer /\ q[i] = s.toServer[i] 
              \/ q[i] = Data(keys)
    BY <2>2, AppendFacts
  <2> HIDE DEF q
  <2>4. Send(s, keys) \in Sockets
    BY <2>1, <2>3 DEF Sockets
  <2>5. ASSUME NEW known \in SUBSET Channels, OrderlySocket(s, known), keys \subseteq known
        PROVE  OrderlySocket(Send(s, keys), known)
    BY <2>1, <2>2, <2>3, <2>5 DEF OrderlySocket
  <2>6. ASSUME NEW old, AskedFor(s, old)
        PROVE  AskedFor(Send(s, keys), keys)
    BY <2>1, <2>2, <2>3, <2>6 DEF AskedFor
  <2> QED
    BY <2>4, <2>5, <2>6
<1> QED
  BY <1>1, <1>2

(* Ending the stream from this side.                                       *)
LEMMA closeSendFacts ==
    ASSUME NEW s \in Sockets
    PROVE  /\ closeSend(s) \in Sockets
           /\ \A known : OrderlySocket(s, known) => OrderlySocket(closeSend(s), known)
<1>1. CASE s.sendClosed \/ s.serverClosed # "no"
  BY <1>1 DEF closeSend
<1>2. CASE ~(s.sendClosed \/ s.serverClosed # "no")
  <2> DEFINE bye == CloseMsg("")
  <2> DEFINE q == Append(s.toServer, bye)
  <2>1. closeSend(s) = [up |-> s.up, toServer |-> q, recv |-> s.recv, sendClosed |-> TRUE,
             serverClosed |-> s.serverClosed, serverKeys |-> s.serverKeys, acked |-> s.acked]
    BY <1>2 DEF closeSend, Sockets
  <2>2. /\ s.toServer \in Seq(Requests) /\ bye \in Requests
        /\ bye.type = "close"
    BY MessageFacts DEF Sockets
  <2> HIDE DEF bye
  <2>3. /\ q \in Seq(Requests)
        /\ \A i \in DOMAIN q :
              \/ i \in DOMAIN s.toServer /\ q[i] = s.toServer[i]
              \/ q[i] = bye
    BY <2>2, AppendFacts
  <2> HIDE DEF q
  <2>4. closeSend(s) \in Sockets
    BY <2>1, <2>3 DEF Sockets
  <2>5. ASSUME NEW known, OrderlySocket(s, known)
        PROVE  OrderlySocket(closeSend(s), known)
    BY <2>1, <2>2, <2>3, <2>5 DEF OrderlySocket
  <2> QED
    BY <2>4, <2>5
<1> QED
  BY <1>1, <1>2

(* Taking the first message received.                                      *)
LEMMA ReceiveFacts ==
    ASSUME NEW s \in Sockets, CanReceive(s)
    PROVE  /\ Head(s.recv) \in Responses /\ Head(s.recv) = s.recv[1] /\ 1 \in DOMAIN s.recv
           /\ Receive(s) \in Sockets
           /\ \A known : OrderlySocket(s, known) => OrderlySocket(Receive(s), known)
           /\ \A keys : AskedFor(s, keys) =>
                 AskedFor(Receive(s), keys) /\ Head(s.recv).type # "close"
<1> DEFINE q == Tail(s.recv)
<1> DEFINE end == IF Head(s.recv).type = "close" THEN Head(s.recv).error ELSE s.serverClosed
<1>1. Receive(s) = [up |-> s.up, toServer |-> s.toServer, recv |-> q, sendClosed |-> s.sendClosed,
           serverClosed |-> end, serverKeys |-> s.serverKeys, acked |-> s.acked]
  <2>1. Receive(s) = [s EXCEPT !.recv = q, !.serverClosed = end]
    BY DEF Receive, Sockets
  <2> HIDE DEF q, end
  <2> QED
    BY <2>1 DEF Sockets
<1>2. s.recv \in Seq(Responses) /\ s.recv # <<>>
  BY DEF Sockets, CanReceive
<1>3. /\ q \in Seq(Responses)
      /\ 1 \in DOMAIN s.recv /\ Head(s.recv) = s.recv[1] /\ Head(s.recv) \in Responses
      /\ \A i \in DOMAIN q : i + 1 \in DOMAIN s.recv /\ q[i] = s.recv[i + 1]
  BY <1>2, TailFacts
<1>4. /\ end \in {"no", "eof", "lost"}
      /\ Head(s.recv).type # "close" => end = s.serverClosed
  BY <1>3, ResponseFacts DEF Sockets
<1> HIDE DEF q, end
<1>5. Receive(s) \in Sockets
  BY <1>1, <1>3, <1>4 DEF Sockets
<1>6. ASSUME NEW known, OrderlySocket(s, known)
      PROVE  OrderlySocket(Receive(s), known)
  BY <1>1, <1>3, <1>6 DEF OrderlySocket
<1>7. ASSUME NEW keys, AskedFor(s, keys)
      PROVE  AskedFor(Receive(s), keys) /\ Head(s.recv).type # "close"
  BY <1>1, <1>3, <1>4, <1>7 DEF AskedFor
<1> QED
  BY <1>3, <1>5, <1>6, <1>7

(* The last keys that were sent are those the server will stream.          *)
LEMMA AskedIsAsked ==
    ASSUME NEW keys, ws \in Sockets, AskedFor(ws, keys)
    PROVE  Asked = keys
<1> DEFINE sent == {i \in DOMAIN ws.toServer : ws.toServer[i].type = "data"}
<1>1. ws.toServer \in Seq(Requests)
  BY DEF Sockets
<1>2. sent = 1 .. Len(ws.toServer) /\ Len(ws.toServer) \in Nat
  BY <1>1 DEF AskedFor
<1>3. CASE ws.toServer = <<>>
  BY <1>2, <1>3 DEF Asked, AskedFor
<1>4. CASE ws.toServer # <<>>
  <2>1. Len(ws.toServer) > 0
    BY <1>1, <1>4
  <2>2. sent # {} /\ (CHOOSE i \in sent : \A j \in sent : j <= i) = Len(ws.toServer)
    BY <1>2, <2>1
  <2> QED
    BY <1>4, <2>2 DEF Asked, AskedFor
<1> QED
  BY <1>3, <1>4

-----------------------------------------------------------------------------
(* Facts about the mutex and the listeners.                                *)

CallPlaces == {"idle", "populating", "queued", "streaming", "rejected", "removing",
               "timer", "leaving", "gone"}

(* What listeners want are channels, and cached ones if theirs are.        *)
LEMMA WantedFacts ==
    ASSUME NEW ls \in [Handlers -> {"absent", "valid", "invalid"}]
    PROVE  /\ Wanted(ls) \in SUBSET Channels /\ Wanted(ls) # None
           /\ \A known : (\A h \in Handlers : ls[h] # "absent" => KeysOf[h] \subseteq known)
                            => Wanted(ls) \subseteq known
<1>1. Wanted(ls) \in SUBSET Channels
  BY StreamerAssumption DEF Wanted
<1>2. Wanted(ls) # None
  BY <1>1, StreamerAssumption
<1>3. ASSUME NEW known, \A h \in Handlers : ls[h] # "absent" => KeysOf[h] \subseteq known
      PROVE  Wanted(ls) \subseteq known
  BY <1>3 DEF Wanted
<1> QED
  BY <1>1, <1>2, <1>3

LEMMA PlaceFacts ==
    ASSUME NEW task \in Tasks
    PROVE  /\ task.h \in Handlers /\ task.op \in {"add", "invalidate", "delete"}
           /\ Place[task.op] \in {"queued", "removing", "leaving"}
BY DEF Tasks, Place

LEMMA TaskFacts ==
    ASSUME NEW op \in {"add", "invalidate", "delete"}, NEW h \in Handlers
    PROVE  Task(op, h) \in Tasks /\ Task(op, h).op = op /\ Task(op, h).h = h
BY DEF Tasks, Task

(* The task at the head is awaited by its handler and no other task is.    *)
LEMMA HeadFacts ==
    ASSUME TypeOK, TasksAwaited, queue # <<>>
    PROVE  /\ Head(queue) \in Tasks /\ Head(queue).h \in Handlers
           /\ call[Head(queue).h] = Place[Head(queue).op]
           /\ call[Head(queue).h] \in {"queued", "removing", "leaving"}
           /\ Tail(queue) \in Seq(Tasks)
           /\ \A i \in DOMAIN Tail(queue) :
                 /\ Tail(queue)[i].h # Head(queue).h
                 /\ call[Tail(queue)[i].h] = Place[Tail(queue)[i].op]
           /\ \A i, j \in DOMAIN Tail(queue) : Tail(queue)[i].h = Tail(queue)[j].h => i = j
<1> DEFINE q == Tail(queue)
<1>1. queue \in Seq(Tasks)
  BY DEF TypeOK
<1>2. /\ q \in Seq(Tasks)
      /\ 1 \in DOMAIN queue /\ Head(queue) = queue[1] /\ Head(queue) \in Tasks
      /\ \A i \in DOMAIN q : i \in Nat \ {0} /\ i + 1 \in DOMAIN queue /\ q[i] = queue[i + 1]
  BY <1>1, TailFacts
<1> HIDE DEF q
<1>3. /\ Head(queue).h \in Handlers
      /\ Place[Head(queue).op] \in {"queued", "removing", "leaving"}
  BY <1>2, PlaceFacts
<1>4. call[Head(queue).h] = Place[Head(queue).op]
  BY <1>2 DEF TasksAwaited
<1>5. \A i \in DOMAIN q : q[i].h # Head(queue).h /\ call[q[i].h] = Place[q[i].op]
  BY <1>2 DEF TasksAwaited
<1>6. \A i, j \in DOMAIN q : q[i].h = q[j].h => i = j
  BY <1>2 DEF TasksAwaited
<1> QED
  BY <1>2, <1>3, <1>4, <1>5, <1>6 DEF q

(* A handler that is elsewhere has no task in the mutex.                   *)
LEMMA AwaitedFacts ==
    ASSUME TypeOK, TasksAwaited, NEW h \in Handlers,
           call[h] \notin {"queued", "removing", "leaving"}
    PROVE  \A i \in DOMAIN queue : queue[i].h \in Handlers /\ queue[i].h # h
<1> SUFFICES ASSUME NEW i \in DOMAIN queue
             PROVE  queue[i].h \in Handlers /\ queue[i].h # h
  OBVIOUS
<1>1. queue[i] \in Tasks
  BY DEF TypeOK
<1>2. queue[i].h \in Handlers /\ Place[queue[i].op] \in {"queued", "removing", "leaving"}
  BY <1>1, PlaceFacts
<1> QED
  BY <1>2 DEF TasksAwaited

(* A task leaves the mutex and its handler goes on elsewhere.              *)
LEMMA TaskLeaves ==
    ASSUME TypeOK, TasksAwaited, queue # <<>>, NEW to \in CallPlaces,
           queue' = Tail(queue), call' = [call EXCEPT ![Head(queue).h] = to]
    PROVE  /\ queue' \in Seq(Tasks) /\ call' \in [Handlers -> CallPlaces]
           /\ TasksAwaited'
           /\ call'[Head(queue).h] = to
           /\ \A g \in Handlers : g # Head(queue).h => call'[g] = call[g]
<1>1. call \in [Handlers -> CallPlaces]
  BY DEF TypeOK, CallPlaces
<1>2. /\ Head(queue).h \in Handlers
      /\ queue' \in Seq(Tasks)
      /\ \A i \in DOMAIN queue' :
            queue'[i].h # Head(queue).h /\ call[queue'[i].h] = Place[queue'[i].op]
      /\ \A i, j \in DOMAIN queue' : queue'[i].h = queue'[j].h => i = j
  BY HeadFacts
<1>3. \A i \in DOMAIN queue' : queue'[i] \in Tasks /\ queue'[i].h \in Handlers
  <2>1. \A i \in DOMAIN queue' : queue'[i] \in Tasks
    BY <1>2
  <2> QED
    BY <2>1, PlaceFacts
<1> QED
  BY <1>1, <1>2, <1>3 DEF TasksAwaited

(* A handler that has no task in the mutex queues one.                     *)
LEMMA TaskJoins ==
    ASSUME TypeOK, TasksAwaited, NEW h \in Handlers, NEW op \in {"add", "invalidate", "delete"},
           call[h] \notin {"queued", "removing", "leaving"},
           queue' = Append(queue, Task(op, h)), call' = [call EXCEPT ![h] = Place[op]]
    PROVE  /\ queue' \in Seq(Tasks) /\ queue' # <<>> /\ call' \in [Handlers -> CallPlaces]
           /\ TasksAwaited'
<1> DEFINE task == Task(op, h)
<1>1. call \in [Handlers -> CallPlaces] /\ queue \in Seq(Tasks)
  BY DEF TypeOK, CallPlaces
<1>2. task \in Tasks /\ task.op = op /\ task.h = h
  BY TaskFacts
<1>3. Place[op] \in {"queued", "removing", "leaving"}
  BY DEF Place
<1>4. queue' = Append(queue, task)
  OBVIOUS
<1> HIDE DEF task
<1>5. /\ queue' \in Seq(Tasks) /\ queue' # <<>>
      /\ \A i \in DOMAIN queue' :
            \/ i \in DOMAIN queue /\ queue'[i] = queue[i] /\ i # Len(queue) + 1
            \/ i = Len(queue) + 1 /\ queue'[i] = task
  BY <1>1, <1>2, <1>4, AppendFacts
<1>6. \A i \in DOMAIN queue :
          queue[i].h \in Handlers /\ queue[i].h # h /\ call[queue[i].h] = Place[queue[i].op]
  BY AwaitedFacts DEF TasksAwaited
<1>7. call' \in [Handlers -> CallPlaces]
  BY <1>1, <1>3 DEF CallPlaces
<1>8. \A i \in DOMAIN queue' : call'[queue'[i].h] = Place[queue'[i].op]
  BY <1>1, <1>2, <1>5, <1>6
<1>9. \A i, j \in DOMAIN queue' : queue'[i].h = queue'[j].h => i = j
  BY <1>2, <1>5, <1>6 DEF TasksAwaited
<1> QED
  BY <1>5, <1>7, <1>8, <1>9 DEF TasksAwaited

(* The running task ends.                                                  *)
LEMMA EndTaskFacts ==
    ASSUME TypeOK, TasksAwaited, queue # <<>>, NEW outcome, EndTask(outcome)
    PROVE  /\ queue' \in Seq(Tasks) /\ call' \in [Handlers -> CallPlaces] /\ step' = "idle"
           /\ TasksAwaited'
           /\ call[Head(queue).h] \in {"queued", "removing", "leaving"}
           /\ call'[Head(queue).h] \in {"gone", "rejected", "streaming"}
           /\ Head(queue).op = "add" /\ outcome = "threw" => call'[Head(queue).h] = "rejected"
           /\ \A g \in Handlers : g # Head(queue).h => call'[g] = call[g]
<1> DEFINE to == CASE Head(queue).op = "delete" -> "gone"
                   [] Head(queue).op # "delete" /\ outcome = "threw" -> "rejected"
                   [] OTHER -> "streaming"
<1>1. /\ to \in {"gone", "rejected", "streaming"}
      /\ Head(queue).op = "add" /\ outcome = "threw" => to = "rejected"
  OBVIOUS
<1>2. queue' = Tail(queue) /\ call' = [call EXCEPT ![Head(queue).h] = to] /\ step' = "idle"
  BY DEF EndTask
<1> HIDE DEF to
<1>3. to \in CallPlaces
  BY <1>1 DEF CallPlaces
<1> QED
  BY <1>1, <1>2, <1>3, HeadFacts, TaskLeaves

-----------------------------------------------------------------------------
(* Every action preserves the invariant.                                   *)

(* Nobody listens and nothing is open in the beginning.                    *)
LEMMA InitIInv == Init => IInv
<1> SUFFICES ASSUME Init PROVE IInv
  OBVIOUS
<1>1. TypeOK
  <2>1. <<>> \in Seq(Tasks) /\ 0 \in 0 .. MaxFaults
    BY StreamerAssumption
  <2> QED
    BY <2>1, NoSocketFacts DEF Init, TypeOK
<1>2. Wanted(listeners) = {}
  BY DEF Init, Wanted
<1>3. HandlersHaveLeadingBuffer /\ TasksAwaited /\ LoopHasStreamer /\ ClosedAtEnd /\ Cached
  BY <1>1 DEF Init, HandlersHaveLeadingBuffer, TasksAwaited, LoopHasStreamer, ClosedAtEnd, Cached
<1>4. Orderly /\ InStep /\ NoStreamAfterClose
  BY <1>2, NoSocketFacts DEF Init, Orderly, InStep, NoStreamAfterClose
<1> QED
  BY <1>3, <1>4 DEF IInv

(* The server takes a message.                                             *)
LEMMA ServerHandlesStep == ASSUME IInv, ServerHandles PROVE IInv'
<1> DEFINE msg == Head(ws.toServer)
<1> DEFINE q == Tail(ws.toServer)
<1>1. TypeOK /\ ws \in Sockets
  BY DEF IInv, HandlersHaveLeadingBuffer, TypeOK
<1>2. /\ ws.up \in BOOLEAN /\ ws.toServer \in Seq(Requests) /\ ws.recv \in Seq(Responses)
      /\ ws.sendClosed \in BOOLEAN /\ ws.serverClosed \in {"no", "eof", "lost"}
      /\ ws.serverKeys \in SUBSET Channels /\ ws.acked \in BOOLEAN
  BY <1>1 DEF Sockets
<1>3. ws.toServer # <<>>
  BY DEF ServerHandles
<1>4. /\ q \in Seq(Requests)
      /\ 1 \in DOMAIN ws.toServer /\ msg = ws.toServer[1] /\ msg \in Requests
      /\ Len(ws.toServer) \in Nat \ {0}
      /\ \A i \in DOMAIN q : i + 1 \in DOMAIN ws.toServer /\ q[i] = ws.toServer[i + 1]
      /\ q = <<>> => Len(ws.toServer) = 1
      /\ q # <<>> => q[Len(q)] = ws.toServer[Len(ws.toServer)]
  BY <1>2, <1>3, TailFacts
<1>5. msg.type = "data" => msg.keys \in SUBSET Channels
  BY <1>4, RequestFacts
<1>6. /\ ws' \in Sockets
      /\ \A known : OrderlySocket(ws, known) => OrderlySocket(ws', known)
      /\ \A keys : AskedFor(ws, keys) => AskedFor(ws', keys)
  <2>1. CASE msg.type = "close"
    <3> DEFINE r == Append(ws.recv, CloseMsg("eof"))
    <3>1. ws' = [[ws EXCEPT !.toServer = q] EXCEPT !.recv = Append(ws.recv, CloseMsg("eof")),
                                                  !.up = FALSE]
      BY <1>1, <2>1 DEF ServerHandles, Sockets
    <3>2. CloseMsg("eof") \in Responses /\ CloseMsg("eof").type = "close"
          /\ CloseMsg("eof").error = "eof"
      BY MessageFacts
    <3>3. r \in Seq(Responses)
          /\ \A i \in DOMAIN r : (i \in DOMAIN ws.recv /\ r[i] = ws.recv[i]) \/ r[i] = CloseMsg("eof")
      BY <1>2, <3>2, AppendFacts
    <3>4. ws' = [up |-> FALSE, toServer |-> q, recv |-> r, sendClosed |-> ws.sendClosed,
                 serverClosed |-> ws.serverClosed, serverKeys |-> ws.serverKeys,
                 acked |-> ws.acked]
      <4> HIDE DEF q
      <4> QED
        BY <1>1, <3>1 DEF Sockets
    <3> HIDE DEF r, q, msg
    <3>5. ws' \in Sockets
      BY <1>2, <1>4, <3>3, <3>4 DEF Sockets
    <3>6. \A known : OrderlySocket(ws, known) => OrderlySocket(ws', known)
      BY <1>4, <3>2, <3>3, <3>4 DEF OrderlySocket
    <3>7. \A keys : ~AskedFor(ws, keys)
      BY <1>4, <2>1 DEF AskedFor
    <3> QED
      BY <3>5, <3>6, <3>7
  <2>2. CASE msg.type # "close"
    <3> DEFINE r == IF ws.acked THEN ws.recv ELSE Append(ws.recv, [type |-> "ack"])
    <3>1. msg.type = "data"
      BY <1>4, <2>2, RequestFacts
    <3>2. [type |-> "ack"] \in Responses /\ [type |-> "ack"].type = "ack"
      BY MessageFacts
    <3>3. r \in Seq(Responses)
          /\ \A i \in DOMAIN r : (i \in DOMAIN ws.recv /\ r[i] = ws.recv[i]) \/ r[i].type = "ack"
      <4>1. /\ Append(ws.recv, [type |-> "ack"]) \in Seq(Responses)
            /\ \A i \in DOMAIN Append(ws.recv, [type |-> "ack"]) :
                  \/ i \in DOMAIN ws.recv /\ Append(ws.recv, [type |-> "ack"])[i] = ws.recv[i]
                  \/ Append(ws.recv, [type |-> "ack"])[i] = [type |-> "ack"]
        BY <1>2, <3>2, AppendFacts
      <4> QED
        BY <1>2, <3>2, <4>1
    <3>4. ws' = [[ws EXCEPT !.toServer = q] EXCEPT !.serverKeys = msg.keys, !.acked = TRUE,
                                                  !.recv = r]
      BY <1>1, <2>2 DEF ServerHandles, Sockets
    <3>5. ws' = [up |-> ws.up, toServer |-> q, recv |-> r, sendClosed |-> ws.sendClosed,
                 serverClosed |-> ws.serverClosed, serverKeys |-> msg.keys, acked |-> TRUE]
      <4> HIDE DEF q, r, msg
      <4> QED
        BY <1>1, <3>4 DEF Sockets
    <3> HIDE DEF r, q, msg
    <3>6. ws' \in Sockets
      BY <1>2, <1>4, <1>5, <3>1, <3>3, <3>5 DEF Sockets
    <3>7. \A known : OrderlySocket(ws, known) => OrderlySocket(ws', known)
      BY <1>4, <3>1, <3>3, <3>5 DEF OrderlySocket
    <3>8. \A keys : AskedFor(ws, keys) => AskedFor(ws', keys)
      BY <1>3, <1>4, <3>3, <3>5 DEF AskedFor
    <3> QED
      BY <3>6, <3>7, <3>8
  <2> QED
    BY <2>1, <2>2
<1>7. ws # NoSocket
  BY NoSocketFacts DEF ServerHandles
<1>8. HandlersHaveLeadingBuffer' /\ TasksAwaited' /\ LoopHasStreamer' /\ ClosedAtEnd' /\ Cached'
  BY <1>1, <1>6 DEF IInv, ServerHandles, HandlersHaveLeadingBuffer, TypeOK, TasksAwaited,
     LoopHasStreamer, ClosedAtEnd, Cached
<1>9. Orderly' /\ InStep' /\ NoStreamAfterClose'
  BY <1>6, <1>7 DEF IInv, ServerHandles, Orderly, InStep, NoStreamAfterClose
<1> QED
  BY <1>8, <1>9 DEF IInv

(* The server sends data of channels it was asked for.                     *)
LEMMA ServerSendsFrameStep == ASSUME IInv, ServerSendsFrame PROVE IInv'
<1>1. TypeOK /\ ws \in Sockets
  BY DEF IInv, HandlersHaveLeadingBuffer, TypeOK
<1>2. PICK keys \in SUBSET ws.serverKeys : ws' = [ws EXCEPT !.recv = Append(@, Data(keys))]
  BY DEF ServerSendsFrame
<1> DEFINE r == Append(ws.recv, Data(keys))
<1>3. /\ ws.up \in BOOLEAN /\ ws.toServer \in Seq(Requests) /\ ws.recv \in Seq(Responses)
      /\ ws.sendClosed \in BOOLEAN /\ ws.serverClosed \in {"no", "eof", "lost"}
      /\ ws.serverKeys \in SUBSET Channels /\ ws.acked \in BOOLEAN
  BY <1>1 DEF Sockets
<1>4. Data(keys) \in Responses /\ Data(keys).type = "data" /\ Data(keys).keys = keys
  BY <1>3, MessageFacts
<1>5. r \in Seq(Responses)
      /\ \A i \in DOMAIN r : (i \in DOMAIN ws.recv /\ r[i] = ws.recv[i]) \/ r[i] = Data(keys)
  BY <1>3, <1>4, AppendFacts
<1>6. ws' = [up |-> ws.up, toServer |-> ws.toServer, recv |-> r, sendClosed |-> ws.sendClosed,
             serverClosed |-> ws.serverClosed, serverKeys |-> ws.serverKeys, acked |-> ws.acked]
  BY <1>1, <1>2 DEF Sockets
<1> HIDE DEF r
<1>7. ws' \in Sockets
  BY <1>3, <1>5, <1>6 DEF Sockets
<1>8. \A known : OrderlySocket(ws, known) => OrderlySocket(ws', known)
  BY <1>4, <1>5, <1>6 DEF OrderlySocket
<1>9. \A ks : AskedFor(ws, ks) => AskedFor(ws', ks)
  BY <1>4, <1>5, <1>6 DEF AskedFor
<1>10. ws # NoSocket
  BY NoSocketFacts DEF ServerSendsFrame
<1>11. HandlersHaveLeadingBuffer' /\ TasksAwaited' /\ LoopHasStreamer' /\ ClosedAtEnd' /\ Cached'
  BY <1>1, <1>7 DEF IInv, ServerSendsFrame, HandlersHaveLeadingBuffer, TypeOK, TasksAwaited,
     LoopHasStreamer, ClosedAtEnd, Cached
<1>12. Orderly' /\ InStep' /\ NoStreamAfterClose'
  BY <1>8, <1>9, <1>10 DEF IInv, ServerSendsFrame, Orderly, InStep, NoStreamAfterClose
<1> QED
  BY <1>11, <1>12 DEF IInv

(* The connection ends, which is a fault.                                  *)
LEMMA ConnectionEndsStep == ASSUME IInv, ConnectionEnds PROVE IInv'
<1>1. TypeOK /\ ws \in Sockets
  BY DEF IInv, HandlersHaveLeadingBuffer, TypeOK
<1>2. PICK error \in {"eof", "lost"} :
         ws' = [ws EXCEPT !.up = FALSE, !.toServer = <<>>, !.recv = Append(@, CloseMsg(error))]
  BY DEF ConnectionEnds
<1> DEFINE r == Append(ws.recv, CloseMsg(error))
<1>3. r \in Seq(Responses)
  BY <1>1, MessageFacts, AppendFacts DEF Sockets
<1>4. ws' = [up |-> FALSE, toServer |-> <<>>, recv |-> r, sendClosed |-> ws.sendClosed,
             serverClosed |-> ws.serverClosed, serverKeys |-> ws.serverKeys, acked |-> ws.acked]
  BY <1>1, <1>2 DEF Sockets
<1> HIDE DEF r
<1>5. ws' \in Sockets
  BY <1>1, <1>3, <1>4 DEF Sockets
<1>6. faults' \in 0 .. MaxFaults /\ faults' # 0
  BY <1>1, StreamerAssumption DEF ConnectionEnds, TypeOK
<1>7. TypeOK'
  BY <1>1, <1>5, <1>6 DEF ConnectionEnds, TypeOK
<1>8. HandlersHaveLeadingBuffer' /\ TasksAwaited' /\ LoopHasStreamer' /\ ClosedAtEnd' /\ Cached'
  BY <1>7 DEF IInv, ConnectionEnds, HandlersHaveLeadingBuffer, TasksAwaited,
     LoopHasStreamer, ClosedAtEnd, Cached
<1>9. Orderly' /\ InStep' /\ NoStreamAfterClose'
  BY <1>6 DEF IInv, ConnectionEnds, Orderly, InStep, NoStreamAfterClose
<1> QED
  BY <1>8, <1>9 DEF IInv

(* A call, or its place in the mutex, ends or stays where it is.           *)
CallsGoOn ==
    \A g \in Handlers :
        \/ call'[g] = call[g]
        \/ /\ call[g] \in {"queued", "removing", "leaving"}
           /\ call'[g] \in {"gone", "rejected", "streaming"}

(* The part of the invariant that is about the mutex.                      *)
MutexOK ==
    /\ queue \in Seq(Tasks) /\ call \in [Handlers -> CallPlaces]
    /\ step \in {"idle", "opening", "awaitLoop"} /\ (queue = <<>> => step = "idle")
    /\ TasksAwaited

LEMMA TaskEnds ==
    ASSUME TypeOK, TasksAwaited, queue # <<>>, NEW outcome, EndTask(outcome)
    PROVE  MutexOK' /\ CallsGoOn /\ step' = "idle"
BY EndTaskFacts, HeadFacts DEF MutexOK, CallsGoOn

LEMMA TaskAwaits ==
    ASSUME TypeOK, TasksAwaited, queue # <<>>, NEW where \in {"opening", "awaitLoop"}, Await(where)
    PROVE  MutexOK' /\ CallsGoOn /\ step' = where
<1>1. queue' = queue /\ call' = call /\ step' = where
  BY DEF Await
<1>2. queue \in Seq(Tasks) /\ call \in [Handlers -> CallPlaces]
  BY DEF TypeOK, CallPlaces
<1> QED
  BY <1>1, <1>2 DEF MutexOK, CallsGoOn, TasksAwaited

(* The stream is brought in step with the listeners, which have changed.   *)
LEMMA UpdateFacts ==
    ASSUME IInv, queue # <<>>, step = "idle",
           listeners' \in [Handlers -> {"absent", "valid", "invalid"}],
           closer # "done" => Wanted(listeners') \subseteq cache,
           updateStreamer(listeners'),
           UNCHANGED <<cache, loop, closer, closed, faults, raced>>
    PROVE  /\ MutexOK' /\ CallsGoOn
           /\ streamer' = None \/ streamer' \subseteq Channels
           /\ ws' \in Sockets
           /\ LoopHasStreamer' /\ Orderly' /\ InStep' /\ NoStreamAfterClose'
<1> DEFINE keys == Wanted(listeners')
<1>1. TypeOK /\ TasksAwaited /\ ws \in Sockets /\ (streamer = None \/ streamer \subseteq Channels)
  BY DEF IInv, HandlersHaveLeadingBuffer, TypeOK
<1>2. keys \in SUBSET Channels /\ keys # None
  BY WantedFacts
<1>3. keys = Wanted(listeners)'
  OBVIOUS
<1>4. LoopHasStreamer /\ ClosedAtEnd /\ Orderly /\ InStep /\ NoStreamAfterClose
  BY DEF IInv
<1> HIDE DEF keys
<1>5. CASE closed /\ EndTask("done") /\ UNCHANGED <<streamer, ws>>
  <2>1. MutexOK' /\ CallsGoOn /\ step' = "idle"
    BY <1>1, <1>5, TaskEnds
  <2>2. LoopHasStreamer' /\ Orderly' /\ NoStreamAfterClose'
    BY <1>4, <1>5, <2>1 DEF LoopHasStreamer, Orderly, NoStreamAfterClose
  <2>3. InStep'
    BY <1>4, <1>5 DEF InStep, ClosedAtEnd
  <2> QED
    BY <1>1, <1>5, <2>1, <2>2, <2>3
<1>6. CASE /\ ~closed /\ keys = {}
           /\ ws' = IF streamer # None THEN closeSend(ws) ELSE ws
           /\ IF loop = "none"
              THEN streamer' = None /\ EndTask("done")
              ELSE UNCHANGED streamer /\ Await("awaitLoop")
  <2>1. ws' \in Sockets /\ \A known : OrderlySocket(ws, known) => OrderlySocket(ws', known)
    BY <1>1, <1>6, closeSendFacts
  <2>2. CASE loop = "none"
    <3>1. MutexOK' /\ CallsGoOn /\ step' = "idle" /\ streamer' = None
      BY <1>1, <1>6, <2>2, TaskEnds
    <3>2. LoopHasStreamer' /\ Orderly' /\ NoStreamAfterClose'
      BY <1>4, <2>1, <2>2, <3>1 DEF LoopHasStreamer, Orderly, NoStreamAfterClose
    <3>3. InStep'
      BY <1>3, <1>6, <3>1 DEF InStep
    <3> QED
      BY <2>1, <3>1, <3>2, <3>3
  <2>3. CASE loop # "none"
    <3>1. MutexOK' /\ CallsGoOn /\ step' = "awaitLoop" /\ streamer' = streamer
      BY <1>1, <1>6, <2>3, TaskAwaits
    <3>2. LoopHasStreamer' /\ Orderly' /\ NoStreamAfterClose'
      BY <1>4, <2>1, <3>1 DEF LoopHasStreamer, Orderly, NoStreamAfterClose
    <3>3. InStep'
      BY <1>3, <1>6, <3>1 DEF InStep
    <3> QED
      BY <1>1, <2>1, <3>1, <3>2, <3>3
  <2> QED
    BY <2>2, <2>3
<1>7. CASE /\ ~closed /\ keys # {} /\ streamer = keys
           /\ EndTask("done")
           /\ UNCHANGED <<streamer, ws>>
  <2>1. MutexOK' /\ CallsGoOn /\ step' = "idle"
    BY <1>1, <1>7, TaskEnds
  <2>2. LoopHasStreamer' /\ Orderly' /\ NoStreamAfterClose'
    BY <1>4, <1>7, <2>1 DEF LoopHasStreamer, Orderly, NoStreamAfterClose
  <2>3. InStep'
    BY <1>2, <1>3, <1>4, <1>7, <2>1 DEF InStep
  <2> QED
    BY <1>1, <1>7, <2>1, <2>2, <2>3
<1>8. CASE /\ ~closed /\ keys # {} /\ streamer = None
           /\ ws' = NoSocket
           /\ Await("opening")
           /\ UNCHANGED streamer
  <2>1. MutexOK' /\ CallsGoOn /\ step' = "opening"
    BY <1>1, <1>8, TaskAwaits
  <2>2. LoopHasStreamer' /\ Orderly' /\ NoStreamAfterClose'
    BY <1>4, <1>8, <2>1, NoSocketFacts
    DEF LoopHasStreamer, Orderly, NoStreamAfterClose, ClosedAtEnd
  <2>3. InStep'
    BY <1>3, <1>8, <2>1 DEF InStep
  <2> QED
    BY <1>1, <1>8, <2>1, <2>2, <2>3, NoSocketFacts
<1>9. CASE /\ ~closed /\ keys # {} /\ streamer \notin {None, keys}
           /\ streamer' = keys
           /\ ws' = Send(ws, keys)
           /\ EndTask(IF SendFails(ws) THEN "threw" ELSE "done")
  <2>1. MutexOK' /\ CallsGoOn /\ step' = "idle"
    BY <1>1, <1>9, TaskEnds
  <2>2. /\ ws' \in Sockets
        /\ \A known \in SUBSET Channels :
              OrderlySocket(ws, known) /\ keys \subseteq known => OrderlySocket(ws', known)
        /\ \A old : AskedFor(ws, old) => AskedFor(ws', keys)
    BY <1>1, <1>2, <1>9, SendFacts
  <2>3. Orderly'
    <3>1. cache \in SUBSET Channels
      BY <1>1 DEF TypeOK
    <3> QED
      BY <1>4, <2>2, <3>1 DEF Orderly, keys
  <2>4. LoopHasStreamer' /\ NoStreamAfterClose'
    BY <1>2, <1>4, <1>9, <2>1 DEF LoopHasStreamer, NoStreamAfterClose
  <2>5. InStep'
    BY <1>3, <1>4, <1>9, <2>1, <2>2 DEF InStep
  <2> QED
    BY <1>2, <1>9, <2>1, <2>2, <2>3, <2>4, <2>5
<1> QED
  BY <1>5, <1>6, <1>7, <1>8, <1>9 DEF updateStreamer, keys

(* Calls that go on leave their handlers' channels in the cache.           *)
LEMMA CachedCalls ==
    ASSUME Cached, CallsGoOn, UNCHANGED <<cache, toFetch, closer>>,
           closer # "done" =>
               \A g \in Handlers : listeners'[g] # "absent" => KeysOf[g] \subseteq cache
    PROVE  Cached'
<1> SUFFICES ASSUME closer # "done", NEW g \in Handlers
             PROVE  /\ call'[g] = "populating" => KeysOf[g] \subseteq cache \cup toFetch[g]
                    /\ call'[g] \notin {"idle", "populating", "rejected"} =>
                           KeysOf[g] \subseteq cache
  BY DEF Cached
<1>1. /\ call[g] = "populating" => KeysOf[g] \subseteq cache \cup toFetch[g]
      /\ call[g] \notin {"idle", "populating", "rejected"} => KeysOf[g] \subseteq cache
  BY DEF Cached
<1>2. \/ call'[g] = call[g]
      \/ /\ call[g] \in {"queued", "removing", "leaving"}
         /\ call'[g] \in {"gone", "rejected", "streaming"}
  BY DEF CallsGoOn
<1> QED
  BY <1>1, <1>2

(* The task at the head of the mutex when one runs.                        *)
LEMMA RunningFacts ==
    ASSUME IInv, NEW op \in {"add", "invalidate", "delete"}, NEW h \in Handlers, Running(op, h)
    PROVE  /\ TypeOK /\ TasksAwaited /\ queue # <<>> /\ step = "idle"
           /\ Head(queue).h = h /\ Head(queue).op = op /\ call[h] = Place[op]
<1>1. TypeOK /\ TasksAwaited /\ queue # <<>> /\ step = "idle" /\ Head(queue) = Task(op, h)
  BY DEF IInv, HandlersHaveLeadingBuffer, Running
<1>2. Head(queue).h = h /\ Head(queue).op = op
  BY <1>1, TaskFacts
<1> QED
  BY <1>1, <1>2, HeadFacts

(* A handler registers.                                                    *)
LEMMA AddHandlerStep == ASSUME IInv, NEW h \in Handlers, AddHandler(h) PROVE IInv'
<1>1. /\ TypeOK /\ TasksAwaited /\ queue # <<>> /\ step = "idle"
      /\ Head(queue).h = h /\ Head(queue).op = "add" /\ call[h] = Place["add"]
  BY RunningFacts DEF AddHandler
<1>2. /\ listeners' = [listeners EXCEPT ![h] = "valid"]
      /\ UNCHANGED <<toFetch, cache, loop, closer, closed, faults, raced>>
  BY DEF AddHandler
<1>3. call[h] = "queued"
  BY <1>1 DEF Place
<1>4. /\ listeners' \in [Handlers -> {"absent", "valid", "invalid"}]
      /\ listeners'[h] = "valid" /\ \A g \in Handlers : g # h => listeners'[g] = listeners[g]
  BY <1>1, <1>2 DEF TypeOK
<1>5. closer # "done" => KeysOf[h] \subseteq cache
  BY <1>3 DEF IInv, Cached
<1>6. closer # "done" =>
          \A g \in Handlers : listeners'[g] # "absent" => KeysOf[g] \subseteq cache
  BY <1>4, <1>5 DEF IInv, Cached
<1>7. ClosedAtEnd'
  BY <1>2 DEF IInv, ClosedAtEnd
<1>8. CASE KeysOf[h] \subseteq cache
  <2>1. behind' = [behind EXCEPT ![h] = {}] /\ updateStreamer(listeners')
    BY <1>8 DEF AddHandler
  <2>2. /\ MutexOK' /\ CallsGoOn
        /\ streamer' = None \/ streamer' \subseteq Channels
        /\ ws' \in Sockets
        /\ LoopHasStreamer' /\ Orderly' /\ InStep' /\ NoStreamAfterClose'
    <3>1. closer # "done" => Wanted(listeners') \subseteq cache
      BY <1>4, <1>6, WantedFacts
    <3> QED
      BY <1>1, <1>2, <1>4, <2>1, <3>1, UpdateFacts
  <2>3. behind' \in [Handlers -> SUBSET Channels] /\ behind'[h] = {}
        /\ \A g \in Handlers : g # h => behind'[g] = behind[g]
    BY <1>1, <2>1 DEF TypeOK
  <2>4. TypeOK'
    BY <1>1, <1>2, <1>4, <2>2, <2>3 DEF TypeOK, MutexOK, CallPlaces
  <2>5. HandlersHaveLeadingBuffer'
    BY <1>2, <1>4, <2>2, <2>3, <2>4 DEF IInv, HandlersHaveLeadingBuffer, CallsGoOn
  <2>6. Cached'
    BY <1>2, <1>6, <2>2, CachedCalls DEF IInv
  <2> QED
    BY <1>7, <2>2, <2>5, <2>6 DEF IInv, MutexOK
<1>9. CASE ~(KeysOf[h] \subseteq cache)
  <2>1. EndTask("threw") /\ UNCHANGED <<behind, streamer, ws>>
    BY <1>9 DEF AddHandler
  <2>2. MutexOK' /\ CallsGoOn /\ step' = "idle"
    BY <1>1, <2>1, TaskEnds
  <2>3. call'[h] = "rejected"
    BY <1>1, <2>1, EndTaskFacts
  <2>4. closer = "done"
    BY <1>5, <1>9
  <2>5. TypeOK'
    BY <1>1, <1>2, <1>4, <2>1, <2>2 DEF TypeOK, MutexOK, CallPlaces
  <2>6. HandlersHaveLeadingBuffer'
    BY <1>2, <1>4, <2>1, <2>2, <2>3, <2>5 DEF IInv, HandlersHaveLeadingBuffer, CallsGoOn
  <2>7. LoopHasStreamer' /\ Cached' /\ Orderly' /\ InStep' /\ NoStreamAfterClose'
    BY <1>2, <2>1, <2>2, <2>4
    DEF IInv, LoopHasStreamer, Cached, Orderly, InStep, NoStreamAfterClose
  <2> QED
    BY <1>7, <2>2, <2>6, <2>7 DEF IInv, MutexOK
<1> QED
  BY <1>8, <1>9

(* A listener is deleted.                                                  *)
LEMMA DeleteHandlerStep == ASSUME IInv, NEW h \in Handlers, DeleteHandler(h) PROVE IInv'
<1>1. /\ TypeOK /\ TasksAwaited /\ queue # <<>> /\ step = "idle"
      /\ Head(queue).h = h /\ Head(queue).op = "delete"
  BY RunningFacts DEF DeleteHandler
<1>2. /\ listeners' = [listeners EXCEPT ![h] = "absent"]
      /\ UNCHANGED <<toFetch, cache, behind, loop, closer, closed, faults, raced>>
  BY DEF DeleteHandler
<1>3. /\ listeners' \in [Handlers -> {"absent", "valid", "invalid"}]
      /\ listeners'[h] = "absent" /\ \A g \in Handlers : g # h => listeners'[g] = listeners[g]
  BY <1>1, <1>2 DEF TypeOK
<1>4. closer # "done" =>
          \A g \in Handlers : listeners'[g] # "absent" => KeysOf[g] \subseteq cache
  BY <1>3 DEF IInv, Cached
<1>5. /\ MutexOK' /\ CallsGoOn
      /\ streamer' = None \/ streamer' \subseteq Channels
      /\ ws' \in Sockets
      /\ LoopHasStreamer' /\ Orderly' /\ InStep' /\ NoStreamAfterClose'
  <2>1. CASE listeners[h] # "absent"
    <3>1. updateStreamer(listeners')
      BY <2>1 DEF DeleteHandler
    <3>2. closer # "done" => Wanted(listeners') \subseteq cache
      BY <1>3, <1>4, WantedFacts
    <3> QED
      BY <1>1, <1>2, <1>3, <3>1, <3>2, UpdateFacts
  <2>2. CASE listeners[h] = "absent"
    <3>1. EndTask("done") /\ UNCHANGED <<streamer, ws>>
      BY <2>2 DEF DeleteHandler
    <3>2. listeners' = listeners
      BY <1>1, <1>2, <2>2 DEF TypeOK
    <3>3. MutexOK' /\ CallsGoOn /\ step' = "idle"
      BY <1>1, <3>1, TaskEnds
    <3>4. LoopHasStreamer' /\ Orderly' /\ InStep' /\ NoStreamAfterClose'
      BY <1>1, <1>2, <3>1, <3>2, <3>3
      DEF IInv, LoopHasStreamer, Orderly, InStep, NoStreamAfterClose
    <3> QED
      BY <1>1, <3>1, <3>3, <3>4 DEF TypeOK
  <2> QED
    BY <2>1, <2>2
<1>6. TypeOK'
  BY <1>1, <1>2, <1>3, <1>5 DEF TypeOK, MutexOK, CallPlaces
<1>7. HandlersHaveLeadingBuffer'
  BY <1>2, <1>3, <1>5, <1>6 DEF IInv, HandlersHaveLeadingBuffer, CallsGoOn
<1>8. Cached' /\ ClosedAtEnd'
  BY <1>2, <1>4, <1>5, CachedCalls DEF IInv, ClosedAtEnd
<1> QED
  BY <1>5, <1>7, <1>8 DEF IInv, MutexOK

(* A listener is marked invalid and still asked for.                       *)
LEMMA InvalidateStep == ASSUME IInv, NEW h \in Handlers, Invalidate(h) PROVE IInv'
<1>1. /\ TypeOK /\ TasksAwaited /\ queue # <<>> /\ step = "idle"
      /\ Head(queue).h = h /\ call[h] = Place["invalidate"]
  BY RunningFacts DEF Invalidate
<1>2. /\ listeners' = [listeners EXCEPT ![h] = IF @ = "absent" THEN @ ELSE "invalid"]
      /\ queue' = Tail(queue) /\ call' = [call EXCEPT ![h] = "timer"]
      /\ UNCHANGED <<toFetch, cache, behind, step, streamer, loop, closer, closed,
                     ws, faults, raced>>
  BY DEF Invalidate
<1>3. call[h] = "removing"
  BY <1>1 DEF Place
<1>4. /\ queue' \in Seq(Tasks) /\ call' \in [Handlers -> CallPlaces] /\ TasksAwaited'
      /\ call'[h] = "timer" /\ \A g \in Handlers : g # h => call'[g] = call[g]
  BY <1>1, <1>2, TaskLeaves DEF CallPlaces
<1>5. /\ listeners' \in [Handlers -> {"absent", "valid", "invalid"}]
      /\ listeners'[h] # "valid"
      /\ \A g \in Handlers : g # h => listeners'[g] = listeners[g]
      /\ \A g \in Handlers : listeners'[g] = "absent" <=> listeners[g] = "absent"
  BY <1>1, <1>2 DEF TypeOK
<1>6. Wanted(listeners)' = Wanted(listeners)
  BY <1>5 DEF Wanted
<1>7. TypeOK'
  BY <1>1, <1>2, <1>4, <1>5 DEF TypeOK, CallPlaces
<1>8. HandlersHaveLeadingBuffer'
  BY <1>2, <1>4, <1>5, <1>7 DEF IInv, HandlersHaveLeadingBuffer
<1>9. LoopHasStreamer' /\ ClosedAtEnd' /\ Orderly' /\ InStep' /\ NoStreamAfterClose'
  BY <1>2, <1>6 DEF IInv, LoopHasStreamer, ClosedAtEnd, Orderly, InStep, NoStreamAfterClose
<1>10. Cached'
  BY <1>2, <1>3, <1>4, <1>5 DEF IInv, Cached
<1> QED
  BY <1>4, <1>8, <1>9, <1>10 DEF IInv

(* A call begins to retrieve the channels it misses.                       *)
LEMMA streamStep == ASSUME IInv, NEW h \in Handlers, stream(h) PROVE IInv'
<1>1. TypeOK /\ TasksAwaited
  BY DEF IInv, HandlersHaveLeadingBuffer
<1>2. /\ call \in [Handlers -> CallPlaces] /\ call[h] = "idle"
      /\ call' = [call EXCEPT ![h] = "populating"]
      /\ toFetch' = [toFetch EXCEPT ![h] = KeysOf[h] \ cache]
  BY <1>1 DEF stream, TypeOK, CallPlaces
<1>3. /\ call' \in [Handlers -> CallPlaces] /\ call'[h] = "populating"
      /\ \A g \in Handlers : g # h => call'[g] = call[g]
  BY <1>2 DEF CallPlaces
<1>4. /\ toFetch' \in [Handlers -> SUBSET Channels] /\ toFetch'[h] = KeysOf[h] \ cache
      /\ \A g \in Handlers : g # h => toFetch'[g] = toFetch[g]
  BY <1>1, <1>2, StreamerAssumption DEF TypeOK
<1>5. TypeOK'
  BY <1>1, <1>3, <1>4 DEF TypeOK, CallPlaces, stream
<1>6. HandlersHaveLeadingBuffer'
  BY <1>2, <1>3, <1>5 DEF IInv, HandlersHaveLeadingBuffer, stream
<1>7. TasksAwaited'
  <2>1. \A i \in DOMAIN queue : queue[i].h \in Handlers /\ queue[i].h # h
    BY <1>1, <1>2, AwaitedFacts
  <2> QED
    BY <1>3, <2>1 DEF IInv, TasksAwaited, stream
<1>8. Cached'
  BY <1>2, <1>3, <1>4 DEF IInv, Cached, stream
<1>9. LoopHasStreamer' /\ ClosedAtEnd' /\ Orderly' /\ InStep' /\ NoStreamAfterClose'
  BY DEF IInv, stream, LoopHasStreamer, ClosedAtEnd, Orderly, InStep, NoStreamAfterClose
<1> QED
  BY <1>6, <1>7, <1>8, <1>9 DEF IInv

(* The channels are retrieved.                                             *)
LEMMA PopulatedStep == ASSUME IInv, NEW h \in Handlers, Populated(h) PROVE IInv'
<1>1. TypeOK /\ TasksAwaited /\ call[h] = "populating"
  BY DEF IInv, HandlersHaveLeadingBuffer, Populated
<1>2. /\ queue' = Append(queue, Task("add", h)) /\ call' = [call EXCEPT ![h] = "queued"]
      /\ toFetch' = [toFetch EXCEPT ![h] = {}] /\ cache' = cache \cup toFetch[h]
      /\ UNCHANGED <<behind, listeners, step, streamer, loop, closer, closed, ws, faults,
                     raced>>
  BY DEF Populated
<1>3. queue' \in Seq(Tasks) /\ queue' # <<>> /\ call' \in [Handlers -> CallPlaces] /\ TasksAwaited'
  BY <1>1, <1>2, TaskJoins DEF Place
<1>4. call'[h] = "queued" /\ \A g \in Handlers : g # h => call'[g] = call[g]
  BY <1>1, <1>2 DEF TypeOK
<1>5. /\ toFetch' \in [Handlers -> SUBSET Channels]
      /\ \A g \in Handlers : g # h => toFetch'[g] = toFetch[g]
      /\ cache' \subseteq Channels /\ cache \subseteq cache' /\ toFetch[h] \subseteq cache'
  BY <1>1, <1>2 DEF TypeOK
<1>6. TypeOK'
  BY <1>1, <1>2, <1>3, <1>5 DEF TypeOK, CallPlaces
<1>7. HandlersHaveLeadingBuffer'
  BY <1>1, <1>2, <1>4, <1>6 DEF IInv, HandlersHaveLeadingBuffer
<1>8. Cached'
  <2> SUFFICES ASSUME closer # "done", NEW g \in Handlers
               PROVE  /\ call'[g] = "populating" => KeysOf[g] \subseteq cache' \cup toFetch'[g]
                      /\ call'[g] \notin {"idle", "populating", "rejected"} =>
                             KeysOf[g] \subseteq cache'
                      /\ listeners[g] # "absent" => KeysOf[g] \subseteq cache'
    BY <1>2 DEF Cached
  <2>1. /\ call[g] = "populating" => KeysOf[g] \subseteq cache \cup toFetch[g]
        /\ call[g] \notin {"idle", "populating", "rejected"} => KeysOf[g] \subseteq cache
        /\ listeners[g] # "absent" => KeysOf[g] \subseteq cache
    BY DEF IInv, Cached
  <2>2. CASE g = h
    BY <1>1, <1>4, <1>5, <2>1, <2>2
  <2>3. CASE g # h
    BY <1>4, <1>5, <2>1, <2>3
  <2> QED
    BY <2>2, <2>3
<1>9. Orderly'
  BY <1>2, <1>5, MoreKnown DEF IInv, Orderly
<1>10. LoopHasStreamer' /\ ClosedAtEnd' /\ InStep' /\ NoStreamAfterClose'
  BY <1>2 DEF IInv, LoopHasStreamer, ClosedAtEnd, InStep, NoStreamAfterClose
<1> QED
  BY <1>3, <1>7, <1>8, <1>9, <1>10 DEF IInv

(* The channels cannot be retrieved, which is a fault.                     *)
LEMMA RetrieveFailsStep == ASSUME IInv, NEW h \in Handlers, RetrieveFails(h) PROVE IInv'
<1>1. TypeOK /\ TasksAwaited
  BY DEF IInv, HandlersHaveLeadingBuffer
<1>2. /\ call \in [Handlers -> CallPlaces] /\ call[h] = "populating"
      /\ call' = [call EXCEPT ![h] = "rejected"]
      /\ toFetch' = [toFetch EXCEPT ![h] = {}]
  BY <1>1 DEF RetrieveFails, TypeOK, CallPlaces
<1>3. /\ call' \in [Handlers -> CallPlaces] /\ call'[h] = "rejected"
      /\ \A g \in Handlers : g # h => call'[g] = call[g]
  BY <1>2 DEF CallPlaces
<1>4. /\ toFetch' \in [Handlers -> SUBSET Channels]
      /\ \A g \in Handlers : g # h => toFetch'[g] = toFetch[g]
  BY <1>1, <1>2 DEF TypeOK
<1>5. faults' \in 0 .. MaxFaults /\ faults' # 0
  BY <1>1, StreamerAssumption DEF TypeOK, RetrieveFails
<1>6. TypeOK'
  BY <1>1, <1>3, <1>4, <1>5 DEF TypeOK, CallPlaces, RetrieveFails
<1>7. HandlersHaveLeadingBuffer'
  BY <1>2, <1>3, <1>6 DEF IInv, HandlersHaveLeadingBuffer, RetrieveFails
<1>8. TasksAwaited'
  <2>1. \A i \in DOMAIN queue : queue[i].h \in Handlers /\ queue[i].h # h
    BY <1>1, <1>2, AwaitedFacts
  <2> QED
    BY <1>3, <2>1 DEF IInv, TasksAwaited, RetrieveFails
<1>9. Cached'
  BY <1>2, <1>3, <1>4 DEF IInv, Cached, RetrieveFails
<1>10. LoopHasStreamer' /\ ClosedAtEnd' /\ Orderly' /\ InStep' /\ NoStreamAfterClose'
  BY <1>5 DEF IInv, RetrieveFails, LoopHasStreamer, ClosedAtEnd, Orderly, InStep,
     NoStreamAfterClose
<1> QED
  BY <1>7, <1>8, <1>9, <1>10 DEF IInv

(* A removal joins the mutex, by the destructor or by the timer.           *)
LEMMA RemovalJoins ==
    ASSUME IInv, NEW h \in Handlers, NEW op \in {"invalidate", "delete"},
           call[h] \in {"streaming", "timer"},
           queue' = Append(queue, Task(op, h)), call' = [call EXCEPT ![h] = Place[op]],
           UNCHANGED <<toFetch, cache, behind, listeners, step, streamer, loop,
                       closer, closed, ws, faults, raced>>
    PROVE  IInv'
<1>1. TypeOK /\ TasksAwaited
  BY DEF IInv, HandlersHaveLeadingBuffer
<1>2. queue' \in Seq(Tasks) /\ queue' # <<>> /\ call' \in [Handlers -> CallPlaces] /\ TasksAwaited'
  BY <1>1, TaskJoins
<1>3. /\ call'[h] \in {"removing", "leaving"}
      /\ \A g \in Handlers : g # h => call'[g] = call[g]
  BY <1>1 DEF TypeOK, Place
<1>4. TypeOK'
  BY <1>1, <1>2 DEF TypeOK, CallPlaces
<1>5. HandlersHaveLeadingBuffer'
  BY <1>3, <1>4 DEF IInv, HandlersHaveLeadingBuffer
<1>6. Cached'
  BY <1>3 DEF IInv, Cached
<1>7. LoopHasStreamer' /\ ClosedAtEnd' /\ Orderly' /\ InStep' /\ NoStreamAfterClose'
  BY DEF IInv, LoopHasStreamer, ClosedAtEnd, Orderly, InStep, NoStreamAfterClose
<1> QED
  BY <1>2, <1>5, <1>6, <1>7 DEF IInv

LEMMA RemovalStep ==
    ASSUME IInv, NEW h \in Handlers, removeStreamHandler(h) \/ RemovalDue(h)
    PROVE  IInv'
<1>1. CASE removeStreamHandler(h)
  <2>1. call' = [call EXCEPT ![h] = Place["invalidate"]]
    BY <1>1 DEF removeStreamHandler, Place
  <2> QED
    BY <1>1, <2>1, RemovalJoins DEF removeStreamHandler
<1>2. CASE RemovalDue(h)
  <2>1. call' = [call EXCEPT ![h] = Place["delete"]]
    BY <1>2 DEF RemovalDue, Place
  <2> QED
    BY <1>2, <2>1, RemovalJoins DEF RemovalDue
<1> QED
  BY <1>1, <1>2

(* A task that was between two awaits is at the head of the mutex.         *)
LEMMA AwaitingFacts ==
    ASSUME IInv, step # "idle"
    PROVE  TypeOK /\ TasksAwaited /\ queue # <<>>
BY DEF IInv, HandlersHaveLeadingBuffer, TypeOK

(* A task that ends without changing the listeners.                        *)
LEMMA TaskEndsQuietly ==
    ASSUME IInv, MutexOK', CallsGoOn, UNCHANGED <<toFetch, cache, behind, listeners, closer, closed, raced>>,
           loop' # "failed" => loop # "failed",
           loop' \in {"none", "running", "ended", "failed"},
           streamer' = None \/ streamer' \subseteq Channels,
           ws' \in Sockets, faults' \in 0 .. MaxFaults
    PROVE  HandlersHaveLeadingBuffer' /\ TasksAwaited' /\ ClosedAtEnd' /\ Cached'
<1>1. TypeOK'
  BY DEF IInv, HandlersHaveLeadingBuffer, TypeOK, MutexOK, CallPlaces
<1>2. HandlersHaveLeadingBuffer'
  BY <1>1 DEF IInv, HandlersHaveLeadingBuffer, CallsGoOn
<1>3. Cached'
  <2>1. Cached
    BY DEF IInv
  <2>2. closer # "done" =>
            \A g \in Handlers : listeners'[g] # "absent" => KeysOf[g] \subseteq cache
    BY <2>1 DEF Cached
  <2> QED
    BY <2>1, <2>2, CachedCalls
<1> QED
  BY <1>2, <1>3 DEF IInv, MutexOK, ClosedAtEnd

(* The run loop has ended, and the streamer is forgotten unless it failed. *)
LEMMA LoopAwaitedStep == ASSUME IInv, LoopAwaited PROVE IInv'
<1>1. TypeOK /\ TasksAwaited /\ queue # <<>>
  BY AwaitingFacts DEF LoopAwaited
<1>2. MutexOK' /\ CallsGoOn /\ step' = "idle"
  BY <1>1, TaskEnds DEF LoopAwaited
<1>3. HandlersHaveLeadingBuffer' /\ TasksAwaited' /\ ClosedAtEnd' /\ Cached'
  <2>1. streamer' = None \/ streamer' \subseteq Channels
    BY <1>1 DEF LoopAwaited, TypeOK
  <2>2. ws' \in Sockets /\ faults' \in 0 .. MaxFaults /\ loop' = loop
        /\ loop' \in {"none", "running", "ended", "failed"}
    BY <1>1 DEF LoopAwaited, TypeOK
  <2> QED
    BY <1>2, <2>1, <2>2, TaskEndsQuietly DEF LoopAwaited
<1>4. LoopHasStreamer' /\ Orderly' /\ NoStreamAfterClose'
  BY <1>2 DEF IInv, LoopAwaited, LoopHasStreamer, Orderly, NoStreamAfterClose
<1>5. InStep'
  BY <1>2 DEF IInv, LoopAwaited, Orderly, InStep
<1> QED
  BY <1>3, <1>4, <1>5 DEF IInv

(* The socket connects and the channels are asked for.                     *)
LEMMA SocketOpensStep == ASSUME IInv, SocketOpens PROVE IInv'
<1> DEFINE s == [NoSocket EXCEPT !.up = TRUE]
<1> DEFINE keys == Wanted(listeners)
<1>1. TypeOK /\ TasksAwaited /\ listeners \in [Handlers -> {"absent", "valid", "invalid"}]
      /\ cache \in SUBSET Channels
  BY DEF IInv, HandlersHaveLeadingBuffer, TypeOK
<1>2. s \in Sockets /\ AskedFor(s, {}) /\ \A known : OrderlySocket(s, known)
  <2>1. /\ NoSocket.toServer = <<>> /\ NoSocket.recv = <<>> /\ NoSocket.sendClosed = FALSE
        /\ NoSocket.serverClosed = "no" /\ NoSocket.serverKeys = {} /\ NoSocket.acked = FALSE
    BY DEF NoSocket
  <2>2. s = [up |-> TRUE, toServer |-> NoSocket.toServer, recv |-> NoSocket.recv,
             sendClosed |-> NoSocket.sendClosed, serverClosed |-> NoSocket.serverClosed,
             serverKeys |-> NoSocket.serverKeys, acked |-> NoSocket.acked]
    BY NoSocketFacts, ConnectFacts
  <2> HIDE DEF s
  <2>3. s \in Sockets
    BY <2>2, NoSocketFacts DEF Sockets
  <2>4. AskedFor(s, {})
    BY <2>1, <2>2 DEF AskedFor
  <2>5. \A known : OrderlySocket(s, known)
    BY <2>1, <2>2 DEF OrderlySocket
  <2> QED
    BY <2>3, <2>4, <2>5
<1>3. /\ keys \in SUBSET Channels
      /\ closer # "done" => keys \subseteq cache
  BY <1>1, WantedFacts DEF IInv, Cached
<1>4. ws' = Send(s, keys)
  BY DEF SocketOpens
<1>5. /\ ws' \in Sockets /\ AskedFor(ws', keys)
      /\ closer # "done" => OrderlySocket(ws', cache)
  <2> HIDE DEF s, keys
  <2> QED
    BY <1>1, <1>2, <1>3, <1>4, SendFacts
<1> HIDE DEF s
<1>6. TypeOK'
  BY <1>1, <1>5 DEF SocketOpens, TypeOK
<1>7. HandlersHaveLeadingBuffer' /\ TasksAwaited' /\ LoopHasStreamer' /\ ClosedAtEnd' /\ Cached'
  BY <1>6 DEF IInv, SocketOpens, HandlersHaveLeadingBuffer, TasksAwaited, LoopHasStreamer,
     ClosedAtEnd, Cached
<1>8. Orderly' /\ InStep' /\ NoStreamAfterClose'
  BY <1>5 DEF IInv, SocketOpens, Orderly, InStep, NoStreamAfterClose
<1> QED
  BY <1>7, <1>8 DEF IInv

(* The socket does not connect, which is a fault.                          *)
LEMMA SocketFailsStep == ASSUME IInv, SocketFails PROVE IInv'
<1>1. TypeOK /\ TasksAwaited /\ queue # <<>>
  BY AwaitingFacts DEF SocketFails
<1>2. MutexOK' /\ CallsGoOn /\ step' = "idle"
  BY <1>1, TaskEnds DEF SocketFails
<1>3. faults' \in 0 .. MaxFaults /\ faults' # 0
  BY <1>1, StreamerAssumption DEF TypeOK, SocketFails
<1>4. HandlersHaveLeadingBuffer' /\ TasksAwaited' /\ ClosedAtEnd' /\ Cached'
  <2>1. /\ streamer' = None \/ streamer' \subseteq Channels
        /\ ws' \in Sockets /\ loop' = loop /\ loop' \in {"none", "running", "ended", "failed"}
    BY <1>1 DEF SocketFails, TypeOK
  <2> QED
    BY <1>2, <1>3, <2>1, TaskEndsQuietly DEF SocketFails
<1>5. LoopHasStreamer' /\ Orderly' /\ InStep' /\ NoStreamAfterClose'
  BY <1>2, <1>3 DEF IInv, SocketFails, LoopHasStreamer, Orderly, InStep, NoStreamAfterClose
<1> QED
  BY <1>4, <1>5 DEF IInv

(* The server acknowledges, and the run loop starts.                       *)
LEMMA StreamerOpenedStep == ASSUME IInv, StreamerOpened PROVE IInv'
<1> DEFINE keys == Wanted(listeners)
<1>1. TypeOK /\ TasksAwaited /\ queue # <<>> /\ step = "opening"
  BY AwaitingFacts DEF StreamerOpened
<1>2. MutexOK' /\ CallsGoOn /\ step' = "idle"
  BY <1>1, TaskEnds DEF StreamerOpened
<1>3. /\ ws \in Sockets /\ CanReceive(ws) /\ cache \in SUBSET Channels
      /\ listeners \in [Handlers -> {"absent", "valid", "invalid"}]
  BY <1>1 DEF StreamerOpened, TypeOK
<1>4. /\ keys \in SUBSET Channels /\ keys # None
      /\ closer # "done" => keys \subseteq cache
  BY <1>3, WantedFacts DEF IInv, Cached
<1>5. /\ ws' \in Sockets
      /\ keys \subseteq cache /\ OrderlySocket(ws, cache) => OrderlySocket(ws', cache)
      /\ AskedFor(ws, keys) => AskedFor(ws', keys)
  <2>1. ws' = Send(Receive(ws), keys)
    BY DEF StreamerOpened
  <2>2. /\ Receive(ws) \in Sockets
        /\ OrderlySocket(ws, cache) => OrderlySocket(Receive(ws), cache)
        /\ AskedFor(ws, keys) => AskedFor(Receive(ws), keys)
    BY <1>3, ReceiveFacts
  <2> HIDE DEF keys
  <2> QED
    BY <1>3, <1>4, <2>1, <2>2, SendFacts
<1>6. ws # NoSocket
  BY <1>3, NoSocketFacts DEF CanReceive
<1>7. streamer' = keys /\ loop' = "running" /\ loop # "failed"
  BY <1>1 DEF IInv, StreamerOpened, LoopHasStreamer
<1>8. HandlersHaveLeadingBuffer' /\ TasksAwaited' /\ ClosedAtEnd' /\ Cached'
  <2>1. faults' \in 0 .. MaxFaults
    BY <1>1 DEF StreamerOpened, TypeOK
  <2> QED
    BY <1>2, <1>4, <1>5, <1>7, <2>1, TaskEndsQuietly DEF StreamerOpened
<1>9. LoopHasStreamer' /\ NoStreamAfterClose'
  BY <1>1, <1>2, <1>4, <1>7 DEF IInv, StreamerOpened, LoopHasStreamer, NoStreamAfterClose
<1>10. Orderly'
  BY <1>4, <1>5, <1>7 DEF IInv, StreamerOpened, Orderly
<1>11. InStep'
  BY <1>1, <1>2, <1>5, <1>6, <1>7 DEF IInv, StreamerOpened, InStep
<1> QED
  BY <1>8, <1>9, <1>10, <1>11 DEF IInv

(* The stream ends before the server acknowledges.                         *)
LEMMA StreamerRefusedStep == ASSUME IInv, StreamerRefused PROVE IInv'
<1>1. TypeOK /\ TasksAwaited /\ queue # <<>> /\ step = "opening"
  BY AwaitingFacts DEF StreamerRefused
<1>2. MutexOK' /\ CallsGoOn /\ step' = "idle"
  BY <1>1, TaskEnds DEF StreamerRefused
<1>3. ws \in Sockets /\ CanReceive(ws) /\ ws' = Receive(ws)
  BY <1>1 DEF StreamerRefused, TypeOK
<1>4. /\ ws' \in Sockets
      /\ \A known : OrderlySocket(ws, known) => OrderlySocket(ws', known)
      /\ \A keys : ~AskedFor(ws, keys)
  BY <1>3, ReceiveFacts DEF StreamerRefused
<1>5. ws # NoSocket
  BY <1>3, NoSocketFacts DEF CanReceive
<1>6. HandlersHaveLeadingBuffer' /\ TasksAwaited' /\ ClosedAtEnd' /\ Cached'
  <2>1. /\ streamer' = None \/ streamer' \subseteq Channels
        /\ faults' \in 0 .. MaxFaults
        /\ loop' = loop /\ loop' \in {"none", "running", "ended", "failed"}
    BY <1>1 DEF StreamerRefused, TypeOK
  <2> QED
    BY <1>2, <1>4, <2>1, TaskEndsQuietly DEF StreamerRefused
<1>7. LoopHasStreamer' /\ Orderly' /\ NoStreamAfterClose'
  BY <1>2, <1>4 DEF IInv, StreamerRefused, LoopHasStreamer, Orderly, NoStreamAfterClose
<1>8. InStep'
  BY <1>1, <1>4, <1>5 DEF IInv, StreamerRefused, InStep
<1> QED
  BY <1>6, <1>7, <1>8 DEF IInv

(* A message taken by the run loop leaves the socket as good as it was.    *)
LEMMA LoopReceives ==
    ASSUME IInv, loop = "running", CanReceive(ws), ws' = Receive(ws)
    PROVE  /\ TypeOK /\ ws' \in Sockets /\ Head(ws.recv) \in Responses
           /\ \A known : OrderlySocket(ws, known) =>
                 /\ OrderlySocket(ws', known)
                 /\ Head(ws.recv).type = "data" => Head(ws.recv).keys \subseteq known
                 /\ Head(ws.recv).type = "close" => Head(ws.recv).error = "eof"
           /\ \A keys : AskedFor(ws, keys) =>
                 AskedFor(ws', keys) /\ Head(ws.recv).type # "close"
           /\ streamer # None /\ step # "opening"
<1>1. TypeOK /\ ws \in Sockets
  BY DEF IInv, HandlersHaveLeadingBuffer, TypeOK
<1>2. /\ Head(ws.recv) \in Responses /\ Head(ws.recv) = ws.recv[1] /\ 1 \in DOMAIN ws.recv
      /\ ws' \in Sockets
      /\ \A known : OrderlySocket(ws, known) => OrderlySocket(ws', known)
      /\ \A keys : AskedFor(ws, keys) => AskedFor(ws', keys) /\ Head(ws.recv).type # "close"
  BY <1>1, ReceiveFacts
<1>3. \A known : OrderlySocket(ws, known) =>
          /\ Head(ws.recv).type = "data" => Head(ws.recv).keys \subseteq known
          /\ Head(ws.recv).type = "close" => Head(ws.recv).error = "eof"
  BY <1>2 DEF OrderlySocket
<1>4. streamer # None /\ step # "opening"
  BY DEF IInv, LoopHasStreamer
<1> QED
  BY <1>1, <1>2, <1>3, <1>4

(* The handlers that are given the new buffers are not behind any more.    *)
LEMMA BehindFacts ==
    ASSUME TypeOK, NEW keys \in SUBSET Channels, NEW new \in SUBSET keys, NEW hs \in SUBSET Handlers
    PROVE  /\ BehindAfter(new, hs) \in [Handlers -> SUBSET Channels]
           /\ \A h \in Handlers :
                 behind[h] = {} /\ (h \in hs \/ KeysOf[h] \cap keys = {}) =>
                     BehindAfter(new, hs)[h] = {}
<1>1. behind \in [Handlers -> SUBSET Channels]
  BY DEF TypeOK
<1>2. \A h \in Handlers : BehindAfter(new, hs)[h] \in SUBSET Channels
  BY <1>1, StreamerAssumption DEF BehindAfter
<1>3. BehindAfter(new, hs) \in [Handlers -> SUBSET Channels]
  BY <1>2 DEF BehindAfter
<1>4. ASSUME NEW h \in Handlers, behind[h] = {}, h \in hs \/ KeysOf[h] \cap keys = {}
      PROVE  BehindAfter(new, hs)[h] = {}
  BY <1>4 DEF BehindAfter
<1> QED
  BY <1>3, <1>4

(* A frame is written and handed out.                                      *)
LEMMA HandleFrameStep == ASSUME IInv, HandleFrame PROVE IInv'
<1> DEFINE keys == Head(ws.recv).keys
<1>1. /\ loop = "running" /\ CanReceive(ws) /\ ws' = Receive(ws)
      /\ Head(ws.recv).type = "data"
      /\ UNCHANGED <<call, toFetch, cache, listeners, queue, step, streamer, loop, closer,
                     closed, faults, raced>>
  BY DEF HandleFrame
<1>2. /\ TypeOK /\ ws' \in Sockets /\ Head(ws.recv) \in Responses
      /\ \A known : OrderlySocket(ws, known) => OrderlySocket(ws', known)
      /\ \A ks : AskedFor(ws, ks) => AskedFor(ws', ks)
      /\ streamer # None /\ step # "opening"
  BY <1>1, LoopReceives
<1>3. keys \in SUBSET Channels
  BY <1>1, <1>2, ResponseFacts
<1>4. PICK new \in SUBSET keys : behind' = BehindAfter(new, Notified(keys))
  BY DEF HandleFrame
<1> HIDE DEF keys
<1>5. Notified(keys) \in SUBSET Handlers
      /\ \A h \in Handlers :
            listeners[h] = "valid" => h \in Notified(keys) \/ KeysOf[h] \cap keys = {}
  BY DEF Notified
<1>6. /\ behind' \in [Handlers -> SUBSET Channels]
      /\ \A h \in Handlers :
            behind[h] = {} /\ (h \in Notified(keys) \/ KeysOf[h] \cap keys = {}) =>
                behind'[h] = {}
  BY <1>2, <1>3, <1>4, <1>5, BehindFacts
<1>7. TypeOK'
  BY <1>1, <1>2, <1>6 DEF TypeOK
<1>8. HandlersHaveLeadingBuffer'
  BY <1>1, <1>5, <1>6, <1>7 DEF IInv, HandlersHaveLeadingBuffer
<1>9. TasksAwaited' /\ LoopHasStreamer' /\ ClosedAtEnd' /\ Cached' /\ NoStreamAfterClose'
  BY <1>1 DEF IInv, TasksAwaited, LoopHasStreamer, ClosedAtEnd, Cached, NoStreamAfterClose
<1>10. Orderly' /\ InStep'
  BY <1>1, <1>2 DEF IInv, Orderly, InStep
<1> QED
  BY <1>8, <1>9, <1>10 DEF IInv

(* A frame cannot be written, which is a fault or its channel is not in    *)
(* the cache of a closed client; the loop fails.                           *)
LEMMA FrameThrowsStep == ASSUME IInv, FrameThrows PROVE IInv'
<1> DEFINE keys == Head(ws.recv).keys
<1>1. /\ loop = "running" /\ CanReceive(ws) /\ ws' = Receive(ws) /\ loop' = "failed"
      /\ Head(ws.recv).type = "data"
      /\ UNCHANGED <<call, toFetch, cache, listeners, queue, step, streamer, closer,
                     closed, raced>>
  BY DEF FrameThrows
<1>2. /\ TypeOK /\ ws' \in Sockets /\ Head(ws.recv) \in Responses
      /\ OrderlySocket(ws, cache) => keys \subseteq cache
      /\ streamer # None
  BY <1>1, LoopReceives
<1>3. keys \in SUBSET Channels
  BY <1>1, <1>2, ResponseFacts
<1>4. PICK new \in SUBSET (keys \cap cache) : behind' = BehindAfter(new, {})
  BY DEF FrameThrows
<1>5. IF keys \subseteq cache THEN faults < MaxFaults /\ faults' = faults + 1
      ELSE UNCHANGED faults
  BY DEF FrameThrows
<1> HIDE DEF keys
<1>6. behind' \in [Handlers -> SUBSET Channels]
  BY <1>2, <1>3, <1>4, BehindFacts
<1>7. /\ faults' \in 0 .. MaxFaults
      /\ faults' = 0 => faults = 0 /\ ~(keys \subseteq cache)
  BY <1>2, <1>5, StreamerAssumption DEF TypeOK
<1>8. faults' = 0 => closer = "done"
  BY <1>2, <1>7 DEF IInv, Orderly
<1>9. TypeOK'
  BY <1>1, <1>2, <1>6, <1>7 DEF TypeOK
<1>10. HandlersHaveLeadingBuffer'
  BY <1>1, <1>9 DEF HandlersHaveLeadingBuffer
<1>11. TasksAwaited' /\ LoopHasStreamer' /\ ClosedAtEnd' /\ Cached' /\ NoStreamAfterClose'
  BY <1>1, <1>2 DEF IInv, TasksAwaited, LoopHasStreamer, ClosedAtEnd, Cached, NoStreamAfterClose
<1>12. Orderly' /\ InStep'
  BY <1>1, <1>8 DEF Orderly, InStep
<1> QED
  BY <1>10, <1>11, <1>12 DEF IInv

(* The run loop reads the end of the stream.                               *)
LEMMA StreamEndsStep == ASSUME IInv, StreamEnds PROVE IInv'
<1>1. /\ loop = "running" /\ CanReceive(ws) /\ ws' = Receive(ws)
      /\ Head(ws.recv).type = "close"
      /\ loop' = IF Head(ws.recv).error = "eof" THEN "ended" ELSE "failed"
      /\ UNCHANGED <<call, toFetch, cache, behind, listeners, queue, step, streamer,
                     closer, closed, faults, raced>>
  BY DEF StreamEnds
<1>2. /\ TypeOK /\ ws' \in Sockets
      /\ OrderlySocket(ws, cache) => OrderlySocket(ws', cache) /\ loop' = "ended"
      /\ \A keys : ~AskedFor(ws, keys)
      /\ streamer # None /\ step # "opening"
  BY <1>1, LoopReceives
<1>3. TypeOK'
  BY <1>1, <1>2 DEF TypeOK
<1>4. HandlersHaveLeadingBuffer'
  BY <1>1, <1>3 DEF IInv, HandlersHaveLeadingBuffer
<1>5. TasksAwaited' /\ LoopHasStreamer' /\ ClosedAtEnd' /\ Cached' /\ NoStreamAfterClose'
  BY <1>1, <1>2 DEF IInv, TasksAwaited, LoopHasStreamer, ClosedAtEnd, Cached, NoStreamAfterClose
<1>6. Orderly' /\ InStep'
  BY <1>1, <1>2 DEF IInv, Orderly, InStep
<1> QED
  BY <1>4, <1>5, <1>6 DEF IInv

(* close ends, waits for the run loop or rejects.                          *)
LEMMA closeStep == ASSUME IInv, close \/ CloseResumes PROVE IInv'
<1>1. TypeOK /\ ws \in Sockets
  BY DEF IInv, HandlersHaveLeadingBuffer, TypeOK
<1>2. /\ ws' \in Sockets /\ \A known : OrderlySocket(ws, known) => OrderlySocket(ws', known)
      /\ UNCHANGED <<call, toFetch, behind, listeners, queue, step, streamer, loop, faults>>
      /\ closer \in {"open", "awaitLoop"} /\ closer' # "open"
  BY <1>1, closeSendFacts DEF close, CloseResumes, CacheClosed, CloseRejects
<1>3. CASE closer' = "done"
  <2>1. closed' = TRUE /\ cache' = {} /\ raced' = (step = "opening") /\ loop # "running"
    BY <1>3 DEF close, CloseResumes, CacheClosed, CloseRejects
  <2>2. TypeOK'
    BY <1>1, <1>2, <1>3, <2>1 DEF TypeOK
  <2> QED
    BY <1>2, <1>3, <2>1, <2>2 DEF IInv, HandlersHaveLeadingBuffer, TasksAwaited, LoopHasStreamer,
       ClosedAtEnd, Cached, Orderly, InStep, NoStreamAfterClose
<1>4. CASE closer' # "done"
  <2>1. closer' \in {"awaitLoop", "rejected"} /\ UNCHANGED <<closed, cache, raced>>
    BY <1>4 DEF close, CloseResumes, CacheClosed, CloseRejects
  <2>2. TypeOK'
    BY <1>1, <1>2, <2>1 DEF TypeOK
  <2> QED
    BY <1>2, <2>1, <2>2 DEF IInv, HandlersHaveLeadingBuffer, TasksAwaited, LoopHasStreamer,
       ClosedAtEnd, Cached, Orderly, InStep, NoStreamAfterClose
<1> QED
  BY <1>3, <1>4

-----------------------------------------------------------------------------
(* The theorems.                                                           *)

(* The invariant holds of every behaviour.                                 *)
THEOREM Invariance == Spec => []IInv
<1>1. Init => IInv
  BY InitIInv
<1>2. IInv /\ [Next]_vars => IInv'
  <2> SUFFICES ASSUME IInv, [Next]_vars PROVE IInv'
    OBVIOUS
  <2>1. CASE Calls
    BY <2>1, streamStep, RemovalStep, closeStep DEF Calls
  <2>2. CASE Progress
    BY <2>2, PopulatedStep, AddHandlerStep, InvalidateStep, RemovalStep, DeleteHandlerStep,
       LoopAwaitedStep, SocketOpensStep, StreamerOpenedStep, StreamerRefusedStep, closeStep
    DEF Progress
  <2>3. CASE Loop
    BY <2>3, HandleFrameStep, FrameThrowsStep, StreamEndsStep DEF Loop
  <2>4. CASE ServerHandles \/ ServerSendsFrame
    BY <2>4, ServerHandlesStep, ServerSendsFrameStep
  <2>5. CASE Faults
    BY <2>5, ConnectionEndsStep, SocketFailsStep, RetrieveFailsStep DEF Faults
  <2>6. CASE UNCHANGED vars
    BY <2>6 DEF vars, IInv, HandlersHaveLeadingBuffer, TypeOK, TasksAwaited, LoopHasStreamer,
       ClosedAtEnd, Cached, Orderly, InStep, NoStreamAfterClose
  <2> QED
    BY <2>1, <2>2, <2>3, <2>4, <2>5, <2>6 DEF Next
<1> QED
  BY <1>1, <1>2, PTL DEF Spec

(* A handler that is streamed to always has the leading buffers of its     *)
(* channels, whichever way registrations, frames and failures interleave   *)
(* (AddHandler and HandleFrame: streamer.ts stream and runStreamer).        *)
THEOREM NobodyIsLeftBehind == Spec => []HandlersHaveLeadingBuffer
BY Invariance, PTL DEF IInv

(* Between tasks and without faults, the server has last been asked for    *)
(* exactly what the listeners want (updateStreamer).                       *)
THEOREM AskedForWhatIsWanted == Spec => []ServerAskedForListeners
<1>1. IInv => ServerAskedForListeners
  <2> SUFFICES ASSUME IInv, queue = <<>>, faults = 0, closer = "open"
               PROVE  IF Wanted(listeners) = {}
                      THEN streamer = None /\ loop # "running"
                      ELSE streamer = Wanted(listeners) /\ Asked = Wanted(listeners)
    BY DEF ServerAskedForListeners
  <2>1. step = "idle" /\ ws \in Sockets
    BY DEF IInv, HandlersHaveLeadingBuffer, TypeOK
  <2>2. CASE Wanted(listeners) = {}
    BY <2>1, <2>2 DEF IInv, InStep, LoopHasStreamer
  <2>3. CASE Wanted(listeners) # {}
    <3>1. streamer = Wanted(listeners) /\ AskedFor(ws, Wanted(listeners))
      BY <2>1, <2>3 DEF IInv, InStep
    <3> QED
      BY <2>1, <2>3, <3>1, AskedIsAsked
  <2> QED
    BY <2>2, <2>3
<1> QED
  BY <1>1, Invariance, PTL

(* Once close has ended no run loop reads a socket, unless a task was      *)
(* opening one at that moment (Core.close and updateStreamer).             *)
THEOREM ClosedForGood == Spec => []NoStreamAfterClose
BY Invariance, PTL DEF IInv
==============================================================================
