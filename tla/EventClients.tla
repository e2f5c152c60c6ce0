---------------------------- MODULE EventClients ----------------------------
(***************************************************************************)
(* The event server's connections (event_server.cpp): the clients of the   *)
(* newline-framed event stream and the one-shot HTTP clients.  The main    *)
(* thread handles socket events, and handles more of them inside a request *)
(* that runs the event loop (wxYield); a worker thread notifies events of  *)
(* its own.  A client's data lives as long as it is referenced.            *)
(*                                                                         *)
(* A byte sent to a client is known by its place in all that is sent to it.*)
(***************************************************************************)
EXTENDS Integers, Sequences, FiniteSets

CONSTANTS
  EventPeers,      \* clients of the event server
  HttpPeers,       \* clients of the HTTP server
  LineBytes,       \* bytes of a message
  Room,            \* bytes that the kernel holds for a peer that does not read
  RequestParts,    \* reads after which an HTTP request is complete
  MaxParts,        \* parts of input that a peer sends
  MaxNotified,     \* bytes sent to a client before notifications stop
  MaxNesting,      \* requests that run the event loop inside one another
  WorkerNotifies   \* whether the worker thread notifies too

Peers == EventPeers \cup HttpPeers
Nobody == "nobody"

ASSUME ClientsAssumption ==
  /\ {LineBytes, Room, RequestParts, MaxNesting} \subseteq Nat \ {0}
  /\ {MaxParts, MaxNotified} \subseteq Nat
  /\ EventPeers \cap HttpPeers = {} /\ Nobody \notin Peers
  /\ WorkerNotifies \in BOOLEAN

VARIABLES
  peer,     \* what the other end does: whether it is up, its unread input
  members,  \* m_eventServerClients and m_httpServerClients
  data,     \* ClientData and HttpClientData
  wire,     \* what was sent to a client, and the socket's share of it
  stack,    \* the requests being handled, the innermost last
  worker,   \* the worker thread's place in do_notify
  touched   \* clients whose data was used after it was deleted

vars == <<peer, members, data, wire, stack, worker, touched>>

Init ==
  /\ peer = [c \in Peers |-> [state |-> "new", parts |-> 0, unread |-> 0]]
  /\ members = {}
  /\ data = [c \in Peers |-> [life |-> "none", refs |-> 0, recv |-> 0,
                              closing |-> FALSE, runs |-> 0]]
  /\ wire = [c \in Peers |-> [sent |-> 0, taken |-> <<>>, sendbuf |-> <<>>,
                              read |-> 0, armed |-> FALSE]]
  /\ stack = <<>>
  /\ worker = [at |-> Nobody, todo |-> {}]
  /\ touched = {}

Live(c) == data[c].life = "live"

\* Once deleted data was used the program's behaviour is undefined.
Defined == touched = {}

-----------------------------------------------------------------------------
(* Sending *)

Least(m, n) == IF m < n THEN m ELSE n
RoomFor(w) == Room - (Len(w.taken) - w.read)

\* a NOWAIT write: as much of the bytes as there is room for
Accepted(w, bytes) == Least(Len(bytes), RoomFor(w))
Written(w, bytes) ==
  [w EXCEPT !.taken = @ \o SubSeq(bytes, 1, Accepted(w, bytes)),
            !.sendbuf = SubSeq(bytes, Accepted(w, bytes) + 1, Len(bytes))]

NextLine(w) == [i \in 1 .. LineBytes |-> w.sent + i]

\* Mutant: a message is written past those that are queued.
SentBufPast(w) ==
  LET bytes == NextLine(w)
      v == Written(w, bytes)
  IN [v EXCEPT !.sent = @ + LineBytes, !.sendbuf = w.sendbuf \o @,
               !.armed = w.armed \/ v.sendbuf # <<>>]

\* send_buf and send_buf_http, under the client's wrlock: written at once, or
\* queued behind what is queued; a short write asks for output events.
SentBuf(w) ==
  LET bytes == NextLine(w)
  IN IF w.sendbuf # <<>>
     THEN [w EXCEPT !.sent = @ + LineBytes, !.sendbuf = @ \o bytes]
     ELSE [Written(w, bytes) EXCEPT
             !.sent = @ + LineBytes,
             !.armed = w.armed \/ Accepted(w, bytes) < LineBytes]

MayNotify(c) == wire[c].sent < MaxNotified

-----------------------------------------------------------------------------
(* Lifetime *)

\* RemoveRef: the last reference deletes the data and the socket.
Released(d) ==
  [d EXCEPT !.refs = @ - 1, !.life = IF d.refs = 1 THEN "deleted" ELSE @]

\* OnEventServerEvent: the catch-up events are sent before the client is
\* among those that are notified.
AcceptEvent(c) ==
  /\ Defined /\ c \in EventPeers /\ peer[c].state = "up" /\ data[c].life = "none"
  /\ Len(stack) < MaxNesting
  /\ data' = [data EXCEPT ![c].life = "live", ![c].refs = 1]
  /\ wire' = [wire EXCEPT ![c] = SentBuf(@)]
  /\ members' = members \cup {c}
  /\ UNCHANGED <<peer, stack, worker, touched>>

\* OnHttpServerEvent: output events are asked for from the beginning.
AcceptHttp(c) ==
  /\ Defined /\ c \in HttpPeers /\ peer[c].state = "up" /\ data[c].life = "none"
  /\ Len(stack) < MaxNesting
  /\ data' = [data EXCEPT ![c].life = "live", ![c].refs = 1]
  /\ wire' = [wire EXCEPT ![c].armed = TRUE]
  /\ members' = members \cup {c}
  /\ UNCHANGED <<peer, stack, worker, touched>>

\* wxSOCKET_LOST: the server's own reference is given up.
Lost(c) ==
  /\ Defined /\ Live(c) /\ peer[c].state = "gone"
  /\ Len(stack) < MaxNesting
  /\ members' = members \ {c}
  /\ data' = [data EXCEPT ![c] = Released(@)]
  /\ peer' = [peer EXCEPT ![c].state = "lost"]
  /\ UNCHANGED <<wire, stack, worker, touched>>

-----------------------------------------------------------------------------
(* Requests *)

Readable(c) == peer[c].state \in {"up", "gone"} /\ peer[c].unread > 0

\* Mutant: the handler holds no reference to the client's data.
BeginRequestUnguarded(c) ==
  /\ data' = [data EXCEPT ![c].runs = @ + 1]
  /\ stack' = Append(stack, c)

\* the handler's reference, and the request that it is about to carry out
BeginRequest(c) ==
  /\ data' = [data EXCEPT ![c].refs = @ + 1, ![c].runs = @ + 1]
  /\ stack' = Append(stack, c)

\* handle_cli_input: a line is taken out of the buffer before it is handled.
InputEvent(c) ==
  /\ Defined /\ c \in EventPeers /\ Live(c) /\ Readable(c)
  /\ Len(stack) < MaxNesting
  /\ peer' = [peer EXCEPT ![c].unread = @ - 1]
  /\ BeginRequest(c)
  /\ UNCHANGED <<members, wire, worker, touched>>

\* handle_http_cli_input: whatever there is to read goes to the buffer, where
\* the request stays when it is complete and is handled.
InputHttp(c) ==
  /\ Defined /\ c \in HttpPeers /\ Live(c) /\ Readable(c)
  /\ Len(stack) < MaxNesting
  /\ peer' = [peer EXCEPT ![c].unread = 0]
  /\ LET got == data[c].recv + peer[c].unread
     IN IF got < RequestParts
        THEN data' = [data EXCEPT ![c].recv = got] /\ UNCHANGED stack
        ELSE /\ data' = [data EXCEPT ![c].recv = got, ![c].refs = @ + 1,
                                     ![c].runs = @ + 1]
             /\ stack' = Append(stack, c)
  /\ UNCHANGED <<members, wire, worker, touched>>

Innermost == stack[Len(stack)]
Outer == SubSeq(stack, 1, Len(stack) - 1)

\* The response; then the next line that has come meanwhile, if any, or the
\* end of the handler and of its reference.
RespondEvent ==
  /\ Defined /\ stack # <<>> /\ Innermost \in EventPeers
  /\ LET c == Innermost
     IN /\ IF Live(c)
           THEN wire' = [wire EXCEPT ![c] = SentBuf(@)] /\ UNCHANGED touched
           ELSE touched' = {c} /\ UNCHANGED wire
        /\ IF Live(c) /\ Readable(c)
           THEN /\ peer' = [peer EXCEPT ![c].unread = @ - 1]
                /\ data' = [data EXCEPT ![c].runs = @ + 1]
                /\ UNCHANGED stack
           ELSE /\ stack' = Outer
                /\ data' = [data EXCEPT ![c] = Released(@)]
                /\ UNCHANGED peer
  /\ UNCHANGED <<members, worker>>

\* The response, the end of the handler's reference, and what
\* OnHttpServerClientEvent does after it: the connection is closed, now or
\* when the response has been written.  Nothing but that reference may keep
\* the data of a client that was lost, or closed by a request that ran inside
\* this one; what comes after it then uses deleted data.
RespondHttp ==
  /\ Defined /\ stack # <<>> /\ Innermost \in HttpPeers
  /\ stack' = Outer
  /\ LET c == Innermost
         w == SentBuf(wire[c])
         d == Released(data[c])
     IN CASE ~Live(c) -> touched' = {c} /\ UNCHANGED <<wire, data, members>>
          [] Live(c) /\ d.life # "live" ->
               /\ wire' = [wire EXCEPT ![c] = w]
               /\ data' = [data EXCEPT ![c] = d]
               /\ touched' = {c} /\ UNCHANGED members
          [] Live(c) /\ d.life = "live" ->
               /\ wire' = [wire EXCEPT ![c] = w]
               /\ IF w.sendbuf = <<>>
                  THEN /\ members' = members \ {c}
                       /\ data' = [data EXCEPT ![c] = Released(d)]
                  ELSE /\ data' = [data EXCEPT ![c] = [d EXCEPT !.closing = TRUE]]
                       /\ UNCHANGED members
               /\ UNCHANGED touched
  /\ UNCHANGED <<peer, worker>>

-----------------------------------------------------------------------------
(* Draining the queues *)

Flushed(w) == Written(w, w.sendbuf)

Writable(c) == wire[c].armed /\ RoomFor(wire[c]) > 0

\* Mutant: the queue is written only when all of it fits.
OutputEventWhole(c) ==
  /\ Defined /\ c \in EventPeers /\ Live(c) /\ Writable(c)
  /\ Len(stack) < MaxNesting
  /\ wire' = [wire EXCEPT ![c] = IF Len(@.sendbuf) > RoomFor(@) THEN @
                                ELSE [Flushed(@) EXCEPT !.armed = FALSE]]
  /\ UNCHANGED <<peer, members, data, stack, worker, touched>>

\* flush_event_pending: output events are turned off when the queue is empty.
OutputEvent(c) ==
  /\ Defined /\ c \in EventPeers /\ Live(c) /\ Writable(c)
  /\ Len(stack) < MaxNesting
  /\ LET w == Flushed(wire[c])
     IN wire' = [wire EXCEPT ![c] = [w EXCEPT !.armed = w.sendbuf # <<>>]]
  /\ UNCHANGED <<peer, members, data, stack, worker, touched>>

\* Mutant: a connection whose response had to wait is left open.
OutputHttpOpen(c) ==
  /\ Defined /\ c \in HttpPeers /\ Live(c) /\ Writable(c)
  /\ Len(stack) < MaxNesting
  /\ wire' = [wire EXCEPT ![c] = Flushed(@)]
  /\ UNCHANGED <<peer, members, data, stack, worker, touched>>

\* flush_http_pending, and the end of a one-shot connection
OutputHttp(c) ==
  /\ Defined /\ c \in HttpPeers /\ Live(c) /\ Writable(c)
  /\ Len(stack) < MaxNesting
  /\ wire' = [wire EXCEPT ![c] = Flushed(@)]
  /\ IF Flushed(wire[c]).sendbuf = <<>> /\ data[c].closing
     THEN /\ members' = members \ {c}
          /\ data' = [data EXCEPT ![c] = Released(@)]
     ELSE UNCHANGED <<members, data>>
  /\ UNCHANGED <<peer, stack, worker, touched>>

-----------------------------------------------------------------------------
(* Notifications *)

Listeners == members \cap EventPeers

\* do_notify on the main thread
Notify ==
  /\ Defined /\ \A c \in Listeners : MayNotify(c)
  /\ wire' = [c \in Peers |-> IF c \in Listeners THEN SentBuf(wire[c]) ELSE wire[c]]
  /\ UNCHANGED <<peer, members, data, stack, worker, touched>>

\* do_notify on the worker thread (NotifyEquipmentDisconnected): the set of
\* clients is walked without a lock.
WorkerBegin ==
  /\ Defined /\ WorkerNotifies /\ worker.at = Nobody
  /\ \A c \in Listeners : MayNotify(c)
  /\ \E c \in Listeners : worker' = [at |-> c, todo |-> Listeners \ {c}]
  /\ UNCHANGED <<peer, members, data, wire, stack, touched>>

WorkerSend ==
  /\ Defined /\ worker.at # Nobody
  /\ LET c == worker.at
         rest == worker.todo \cap members
     IN /\ IF c \in members
           THEN wire' = [wire EXCEPT ![c] = SentBuf(@)] /\ UNCHANGED touched
           ELSE touched' = {c} /\ UNCHANGED wire
        /\ worker' \in IF rest = {} THEN {[at |-> Nobody, todo |-> {}]}
                       ELSE {[at |-> d, todo |-> rest \ {d}] : d \in rest}
  /\ UNCHANGED <<peer, members, data, stack>>

-----------------------------------------------------------------------------
(* The other end *)

Connect(c) ==
  /\ peer[c].state = "new"
  /\ peer' = [peer EXCEPT ![c].state = "up"]
  /\ UNCHANGED <<members, data, wire, stack, worker, touched>>
PeerSend(c) ==
  /\ peer[c].state = "up" /\ peer[c].parts < MaxParts
  /\ peer' = [peer EXCEPT ![c].parts = @ + 1, ![c].unread = @ + 1]
  /\ UNCHANGED <<members, data, wire, stack, worker, touched>>
PeerRead(c) ==
  /\ peer[c].state = "up" /\ wire[c].read < Len(wire[c].taken)
  /\ wire' = [wire EXCEPT ![c].read = @ + 1]
  /\ UNCHANGED <<peer, members, data, stack, worker, touched>>
PeerClose(c) ==
  /\ peer[c].state = "up"
  /\ peer' = [peer EXCEPT ![c].state = "gone"]
  /\ UNCHANGED <<members, data, wire, stack, worker, touched>>

PeerStep(c) == Connect(c) \/ PeerSend(c) \/ PeerRead(c) \/ PeerClose(c)

Respond == RespondEvent \/ RespondHttp
SocketEvent(c) ==
  \/ AcceptEvent(c) \/ AcceptHttp(c) \/ Lost(c)
  \/ InputEvent(c) \/ InputHttp(c) \/ OutputEvent(c) \/ OutputHttp(c)

Next ==
  \/ \E c \in Peers : SocketEvent(c) \/ PeerStep(c)
  \/ Respond \/ Notify \/ WorkerBegin \/ WorkerSend

Spec == Init /\ [][Next]_vars

\* The event loop delivers output events and the requests come to their end;
\* a peer that stays goes on reading.
FairSpec ==
  /\ Spec /\ WF_vars(Respond)
  /\ \A c \in Peers : WF_vars(OutputEvent(c) \/ OutputHttp(c)) /\ WF_vars(PeerRead(c))

-----------------------------------------------------------------------------
(* What must be true of it *)

\* What the socket has taken and what is queued are together all that was sent
\* to the client, in order: a stalled reader costs no byte.
Lossless ==
  \A c \in Peers :
    wire[c].taken \o wire[c].sendbuf = [i \in 1 .. wire[c].sent |-> i]

\* the requests of a client among those that are being handled
Handlers(s, c) == Cardinality({i \in DOMAIN s : s[i] = c})

\* References are exact, whatever requests run inside one another: a client in
\* the set has one for the set and one for each of its requests, and the data
\* of an event client that was lost stays until the last request of it has
\* been answered, and no longer.  (An HTTP client may be given up twice.)
DataIsHeld ==
  /\ \A c \in members : Live(c) /\ data[c].refs = Handlers(stack, c) + 1
  /\ \A c \in EventPeers \ members :
       /\ data[c].refs = Handlers(stack, c)
       /\ Live(c) <=> Handlers(stack, c) > 0

\* No queue stays for ever with a reader that reads on.
QueuesDrain ==
  \A c \in Peers :
    wire[c].sendbuf # <<>> ~>
      wire[c].sendbuf = <<>> \/ peer[c].state # "up" \/ ~Defined

\* An HTTP connection whose request was carried out is closed.
HttpCloses ==
  \A c \in HttpPeers :
    data[c].runs > 0 ~> ~Live(c) \/ peer[c].state # "up" \/ ~Defined
=============================================================================
