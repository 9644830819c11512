------------------------------- MODULE PeerIo -------------------------------
(***************************************************************************)
(* One RingSocket worker thread and the peers (client connections) in its  *)
(* peer slot table.                                                        *)
(*                                                                         *)
(* From src/src/rs_tcp.c: read_tcp(), write_tcp(), the two halves of the   *)
(* bidirectional TCP shutdown and handle_tcp_io() with its switch          *)
(* fall-through over peer->mortality, the memset() of the slot and         *)
(* free_peer_slot().  The code around them that is not in src/ (the        *)
(* acceptor, the edge-triggered epoll loop, the TLS/HTTP/WebSocket layers  *)
(* and the escalation of RS_CLOSE_PEER to RS_MORTALITY_SHUTDOWN_WRITE) is  *)
(* modelled from spec.md sections 3, 4.3 and 7.                            *)
(*                                                                         *)
(* The kernel's socket and the remote client are the environment: the     *)
(* client sends bytes, half-closes (FIN), resets (RST) and reads what the  *)
(* server wrote, each change raising an edge-triggered readiness event.    *)
(***************************************************************************)
EXTENDS Naturals, Sequences, FiniteSets

CONSTANTS
    Slots,          \* peer slot indices (peer_i) of the worker
    NoSlot,         \* the worker is not handling any peer
    MaxConns,       \* connections accepted over a behaviour
    MaxIn,          \* bytes one client may send on one connection
    MsgSize,        \* bytes of one message the server writes to a peer
    SndBuf,         \* free space of an empty kernel send buffer
    MaxMsgs,        \* messages the server writes on one connection
    ClientMayReset, \* may a client abort its connection with a RST?
    ClientFloods,   \* may a client keep sending after the server's FIN?
    MaxEvents       \* WebSocket messages the worker passes on to the app

ASSUME /\ NoSlot \notin Slots
       /\ MaxConns \in Nat \ {0} /\ MaxIn \in Nat /\ MaxMsgs \in Nat
       /\ MsgSize \in Nat \ {0} /\ SndBuf \in Nat \ {0}
       /\ ClientMayReset \in BOOLEAN /\ ClientFloods \in BOOLEAN
       /\ MaxEvents \in Nat /\ MaxMsgs >= 1 + MaxEvents

\* enum rs_ret (ringsocket_api.h)
RS_OK == "RS_OK"
RS_CLOSE_PEER == "RS_CLOSE_PEER"
RS_AGAIN == "RS_AGAIN"

\* peer->mortality and peer->layer; 0 is LIVE and TCP, so a zeroed slot is a
\* new TCP-layer peer.
RS_MORTALITY_LIVE == "LIVE"
RS_MORTALITY_SHUTDOWN_WRITE == "SHUTDOWN_WRITE"
RS_MORTALITY_SHUTDOWN_READ == "SHUTDOWN_READ"
RS_MORTALITY_DEAD == "DEAD"
Mortalities == {RS_MORTALITY_LIVE, RS_MORTALITY_SHUTDOWN_WRITE,
                RS_MORTALITY_SHUTDOWN_READ, RS_MORTALITY_DEAD}
RS_LAYER_TCP == "TCP"
RS_LAYER_TLS == "TLS"
RS_LAYER_HTTP == "HTTP"
RS_LAYER_WEBSOCKET == "WS"
UpperLayers == {RS_LAYER_TLS, RS_LAYER_HTTP, RS_LAYER_WEBSOCKET}

VARIABLES
    peer,      \* union rs_peer of every slot
    sock,      \* kernel state of the socket a slot's socket_fd refers to
    free,      \* the worker's free list of peer slots
    ready,     \* an edge-triggered epoll event is pending for the slot
    cur,       \* the slot whose events the worker is handling, or NoSlot
    fatal,     \* RS_FATAL was returned: the process has exited
    draining,  \* the worker is in the read() loop of
               \* read_bidirectional_tcp_shutdown() for peer cur
    conns,     \* connections accepted so far
    conn,      \* number of the connection that occupies each slot
    sent,      \* bytes the slot's client has sent on this connection
    wmsg,      \* size of the message the upper layer is writing, 0 if none
    msgs,      \* messages the upper layer started writing on the connection
    out,       \* history: the bytes the kernel accepted, as <<msg, offset>>
    shutdowns, \* history: shutdown(SHUT_WR) calls on the connection
    inbound,   \* the worker's inbound ring to the app: [peer_i, conn]
    outbound,  \* the app's outbound ring to the worker: [peer_i, meant]
    events,    \* WebSocket messages passed on to the app so far
    routes     \* history: [to, meant] of every app message the worker sent

\* The conn of an inbound record and the meant of an outbound one are
\* history: a record carries only the peer_i of a client id.
rings == <<inbound, outbound, events, routes>>

vars == <<peer, sock, free, ready, cur, fatal, draining, conns, conn, sent, wmsg, msgs,
          out, shutdowns, rings>>

\* The state memset(peer, 0, sizeof(union rs_peer)) leaves in a slot.
ZeroPeer == [mortality |-> RS_MORTALITY_LIVE, layer |-> RS_LAYER_TCP,
             is_writing |-> FALSE, is_encrypted |-> FALSE, old_wsize |-> 0]

\* A socket that is not open; a freshly accepted one is this, but open.
NoSocket == [open |-> FALSE, inq |-> 0, fin |-> FALSE, rst |-> FALSE,
             wshut |-> FALSE, room |-> SndBuf]

MinOf(a, b) == IF a < b THEN a ELSE b

-----------------------------------------------------------------------------
(***************************************************************************)
(* rs_tcp.c as operators on one slot's peer record p and socket k.         *)
(***************************************************************************)

\* read(): the queued bytes if any (the receive queue of a reset socket is
\* discarded), else -1/ECONNRESET after a RST, else 0 after the client's
\* FIN, else -1/EAGAIN.  read_tcp() maps these to rs_ret.
ReadTcpRetEofAgain(k) ==
    CASE k.inq > 0 -> RS_OK
      [] k.rst -> RS_CLOSE_PEER
      [] OTHER -> RS_AGAIN
ReadTcpRet(k) ==
    CASE k.inq > 0 -> RS_OK
      [] k.rst \/ k.fin -> RS_CLOSE_PEER
      [] OTHER -> RS_AGAIN

\* write_tcp(): submits wbuf[old_wsize .. wbuf_size).  write() after a RST
\* fails with EPIPE, yet `if (errno = EAGAIN)` assigns instead of comparing,
\* so that failure is reported as RS_AGAIN too.
WriteTcpLenWhole(p, k, size) == MinOf(size, k.room)
WriteTcpLen(p, k, size) == MinOf(size - p.old_wsize, k.room)
WriteTcpRet(p, k, size) ==
    IF ~k.rst /\ k.room > 0 /\ WriteTcpLen(p, k, size) = size - p.old_wsize
    THEN RS_OK ELSE RS_AGAIN
WriteTcpPeerKeepOffset(p, k, size) ==
    LET wsize == WriteTcpLen(p, k, size) IN
    CASE ~k.rst /\ k.room > 0 /\ wsize = size - p.old_wsize ->
            [p EXCEPT !.old_wsize = @ + wsize]
      [] ~k.rst /\ k.room > 0 ->
            [p EXCEPT !.old_wsize = @ + wsize, !.is_writing = TRUE]
      [] OTHER -> [p EXCEPT !.is_writing = TRUE]
WriteTcpPeer(p, k, size) ==
    LET wsize == WriteTcpLen(p, k, size) IN
    CASE ~k.rst /\ k.room > 0 /\ wsize = size - p.old_wsize ->
            [p EXCEPT !.old_wsize = 0]
      [] ~k.rst /\ k.room > 0 ->
            [p EXCEPT !.old_wsize = @ + wsize, !.is_writing = TRUE]
      [] OTHER -> [p EXCEPT !.is_writing = TRUE]
WriteTcpSock(p, k, size) ==
    IF ~k.rst /\ k.room > 0
    THEN [k EXCEPT !.room = @ - WriteTcpLen(p, k, size)] ELSE k

\* The bytes write() hands to the kernel, named by message and offset.
WrittenBytes(p, k, size, m) ==
    IF ~k.rst /\ k.room > 0
    THEN [i \in 1..WriteTcpLen(p, k, size) |-> <<m, p.old_wsize + i - 1>>]
    ELSE <<>>

\* write_bidirectional_tcp_shutdown() after shutdown(fd, SHUT_WR) succeeded.
WriteShutdownPeerKeep(p) == p
WriteShutdownPeer(p) == [p EXCEPT !.mortality = RS_MORTALITY_SHUTDOWN_READ]

\* read_bidirectional_tcp_shutdown(): read() until it returns <= 0, the
\* bytes being ignored; 0 (FIN) or an error (RST) make the peer DEAD and
\* return RS_CLOSE_PEER, EAGAIN clears is_writing and returns RS_AGAIN.
ReadShutdownRetEager(k) == RS_CLOSE_PEER
ReadShutdownRet(k) == IF k.fin \/ k.rst THEN RS_CLOSE_PEER ELSE RS_AGAIN
ReadShutdownPeer(p) == [p EXCEPT !.is_writing = FALSE]

-----------------------------------------------------------------------------
(***************************************************************************)
(* The environment: the acceptor and the clients.                          *)
(***************************************************************************)

\* The acceptor (not in src/) takes a slot off the free list for a new
\* connection; adding the socket to epoll raises its first event.
Accept ==
    /\ ~fatal
    /\ conns < MaxConns
    /\ \E s \in free, enc \in BOOLEAN :
        /\ free' = free \ {s}
        /\ peer' = [peer EXCEPT ![s].is_encrypted = enc]
        /\ sock' = [sock EXCEPT ![s] = [NoSocket EXCEPT !.open = TRUE]]
        /\ ready' = [ready EXCEPT ![s] = TRUE]
        /\ conns' = conns + 1
        /\ conn' = [conn EXCEPT ![s] = conns + 1]
        /\ sent' = [sent EXCEPT ![s] = 0]
        /\ wmsg' = [wmsg EXCEPT ![s] = 0]
        /\ msgs' = [msgs EXCEPT ![s] = 0]
        /\ out' = [out EXCEPT ![s] = <<>>]
        /\ shutdowns' = [shutdowns EXCEPT ![s] = 0]
    /\ UNCHANGED <<cur, fatal, draining, rings>>

ClientChange(s, k) ==
    /\ sock' = [sock EXCEPT ![s] = k]
    /\ ready' = [ready EXCEPT ![s] = TRUE]
    /\ UNCHANGED <<peer, free, cur, fatal, draining, conns, conn, wmsg, msgs, out,
                   shutdowns, rings>>

\* The client sends a byte: at most MaxIn on a connection, or, if it floods,
\* without end after the server's FIN (sent then stops counting at MaxIn).
ClientSend(s) ==
    /\ ~fatal /\ sock[s].open /\ ~sock[s].fin /\ ~sock[s].rst
    /\ \/ sent[s] < MaxIn
       \/ ClientFloods /\ sock[s].wshut /\ sock[s].inq < MaxIn
    /\ sent' = [sent EXCEPT ![s] = MinOf(@ + 1, MaxIn)]
    /\ ClientChange(s, [sock[s] EXCEPT !.inq = @ + 1])

ClientFin(s) ==
    /\ ~fatal /\ sock[s].open /\ ~sock[s].fin /\ ~sock[s].rst
    /\ UNCHANGED sent
    /\ ClientChange(s, [sock[s] EXCEPT !.fin = TRUE])

ClientReset(s) ==
    /\ ClientMayReset
    /\ ~fatal /\ sock[s].open /\ ~sock[s].rst
    /\ UNCHANGED sent
    /\ ClientChange(s, [sock[s] EXCEPT !.rst = TRUE, !.inq = 0])

\* The client reads what the server sent, freeing the send buffer.
ClientDrain(s) ==
    /\ ~fatal /\ sock[s].open /\ ~sock[s].rst /\ sock[s].room < SndBuf
    /\ UNCHANGED sent
    /\ ClientChange(s, [sock[s] EXCEPT !.room = SndBuf])

-----------------------------------------------------------------------------
(***************************************************************************)
(* The worker thread.                                                      *)
(***************************************************************************)

\* epoll_wait() hands the worker the next peer with a pending event.
TakeEvent ==
    /\ ~fatal /\ cur = NoSlot
    /\ \E s \in Slots :
        /\ ready[s] /\ sock[s].open
        /\ cur' = s
        /\ ready' = [ready EXCEPT ![s] = FALSE]
    /\ UNCHANGED <<peer, sock, free, fatal, draining, conns, conn, sent, wmsg, msgs,
                   out, shutdowns, rings>>

\* close(socket_fd); memset(peer, 0, ...); free_peer_slot(peer_i).  The
\* closed descriptor leaves the epoll set with its pending events.
CloseAndFree(s) ==
    /\ sock' = [sock EXCEPT ![s] = NoSocket]
    /\ peer' = [peer EXCEPT ![s] = ZeroPeer]
    /\ free' = free \cup {s}
    /\ ready' = [ready EXCEPT ![s] = FALSE]
    /\ cur' = NoSlot
    /\ draining' = FALSE

\* handle_tcp_io(), case RS_MORTALITY_LIVE: a new peer moves up to the TLS
\* or HTTP layer and the loop goes on with that layer.
TcpNewPeer(s) ==
    /\ peer[s].mortality = RS_MORTALITY_LIVE
    /\ peer' = [peer EXCEPT ![s].layer =
                    IF peer[s].is_encrypted THEN RS_LAYER_TLS
                                            ELSE RS_LAYER_HTTP]
    /\ UNCHANGED <<sock, free, ready, cur, fatal, draining, shutdowns>>

\* Case RS_MORTALITY_SHUTDOWN_WRITE when shutdown(fd, SHUT_WR) fails: the
\* socket was reset, the kernel answers ENOTCONN, and RS_FATAL ends the
\* process.
TcpShutdownFails(s) ==
    /\ peer[s].mortality = RS_MORTALITY_SHUTDOWN_WRITE
    /\ sock[s].rst
    /\ fatal' = TRUE
    /\ UNCHANGED <<peer, sock, free, ready, cur, draining, shutdowns>>

\* Case RS_MORTALITY_SHUTDOWN_WRITE when shutdown() succeeds, falling
\* through to case RS_MORTALITY_SHUTDOWN_READ, and that case on its own:
\* read_bidirectional_tcp_shutdown() enters its read() loop.
TcpShutdown(s) ==
    LET m == peer[s].mortality IN
    /\ \/ m = RS_MORTALITY_SHUTDOWN_WRITE /\ ~sock[s].rst
       \/ m = RS_MORTALITY_SHUTDOWN_READ
    /\ IF m = RS_MORTALITY_SHUTDOWN_WRITE
       THEN /\ peer' = [peer EXCEPT ![s] = WriteShutdownPeer(@)]
            /\ sock' = [sock EXCEPT ![s].wshut = TRUE]
            /\ shutdowns' = [shutdowns EXCEPT ![s] = @ + 1]
       ELSE UNCHANGED <<peer, sock, shutdowns>>
    /\ draining' = TRUE
    /\ UNCHANGED <<free, ready, cur, fatal>>

\* The loop `do rsize = read(...); while (rsize > 0);` goes on while read()
\* returns bytes.
DrainMoreUntilEof(k) == k.inq > 0 \/ ~k.fin
DrainMore(k) == k.inq > 0

\* One read() of the loop: the queued bytes are read and ignored.
ShutdownRead(s) ==
    /\ DrainMore(sock[s])
    /\ sock' = [sock EXCEPT ![s].inq = 0]
    /\ UNCHANGED <<peer, free, ready, cur, fatal, draining, shutdowns>>

\* The loop has ended: 0 or an error makes the peer DEAD and falls through
\* to the close; EAGAIN returns RS_AGAIN and the handler RS_OK, and the
\* worker waits for the next event.
ShutdownReadEnd(s) ==
    /\ ~DrainMore(sock[s])
    /\ IF ReadShutdownRet(sock[s]) = RS_AGAIN
       THEN /\ peer' = [peer EXCEPT ![s] = ReadShutdownPeer(@)]
            /\ cur' = NoSlot
            /\ draining' = FALSE
            /\ UNCHANGED <<sock, free, ready>>
       ELSE CloseAndFree(s)
    /\ UNCHANGED <<fatal, shutdowns>>

\* Case RS_MORTALITY_DEAD: close and free the slot.
TcpDead(s) ==
    /\ peer[s].mortality = RS_MORTALITY_DEAD
    /\ CloseAndFree(s)
    /\ UNCHANGED <<fatal, shutdowns>>

handle_tcp_io(s) ==
    /\ ~fatal /\ cur = s /\ peer[s].layer = RS_LAYER_TCP
    /\ \/ /\ ~draining
          /\ \/ TcpNewPeer(s)
             \/ TcpShutdownFails(s)
             \/ TcpShutdown(s)
             \/ TcpDead(s)
       \/ /\ draining
          /\ ShutdownRead(s) \/ ShutdownReadEnd(s)
    /\ UNCHANGED <<conns, conn, sent, wmsg, msgs, out, rings>>

\* spec.md 4.3, mortality escalation: RS_CLOSE_PEER from a layer above TCP
\* drops the peer to the TCP layer, in SHUTDOWN_WRITE if it was LIVE, and
\* the loop goes on with handle_tcp_io().
Escalate(p) ==
    [p EXCEPT !.layer = RS_LAYER_TCP,
              !.mortality = IF @ = RS_MORTALITY_LIVE
                            THEN RS_MORTALITY_SHUTDOWN_WRITE ELSE @]

\* A TLS, HTTP or WebSocket layer with a message to write resumes it with
\* write_tcp(); on RS_OK the loop goes on, on RS_AGAIN it waits for the next
\* event.
UpperWrite(s) ==
    LET p == peer[s]  k == sock[s]  size == wmsg[s] IN
    /\ size > 0
    /\ peer' = [peer EXCEPT ![s] = WriteTcpPeer(p, k, size)]
    /\ sock' = [sock EXCEPT ![s] = WriteTcpSock(p, k, size)]
    /\ out' = [out EXCEPT ![s] = @ \o WrittenBytes(p, k, size, msgs[s])]
    /\ IF WriteTcpRet(p, k, size) = RS_OK
       THEN wmsg' = [wmsg EXCEPT ![s] = 0] /\ UNCHANGED cur
       ELSE cur' = NoSlot /\ UNCHANGED wmsg
    /\ UNCHANGED <<msgs, rings>>

\* The layer starts writing a new message (the HTTP 101 response).
StartWrite(s) ==
    /\ msgs[s] < MaxMsgs
    /\ wmsg' = [wmsg EXCEPT ![s] = MsgSize]
    /\ msgs' = [msgs EXCEPT ![s] = @ + 1]

\* With nothing to write, the layer calls read_tcp(): RS_AGAIN clears
\* is_writing and waits for the next event, RS_CLOSE_PEER escalates, and
\* RS_OK hands the bytes to the layer, which may complete its step (the TLS
\* handshake, the HTTP upgrade, a WebSocket message that goes to the app's
\* inbound ring with the peer's peer_i), reject them (escalation), or wait
\* for more.
UpperRead(s) ==
    LET p == peer[s]  k == sock[s]  ret == ReadTcpRet(k) IN
    /\ wmsg[s] = 0
    /\ UNCHANGED out
    /\ CASE ret = RS_AGAIN ->
              /\ peer' = [peer EXCEPT ![s].is_writing = FALSE]
              /\ cur' = NoSlot
              /\ UNCHANGED <<sock, wmsg, msgs, rings>>
         [] ret = RS_CLOSE_PEER ->
              /\ peer' = [peer EXCEPT ![s] = Escalate(p)]
              /\ UNCHANGED <<sock, cur, wmsg, msgs, rings>>
         [] OTHER ->
              /\ sock' = [sock EXCEPT ![s].inq = 0]
              /\ UNCHANGED cur
              /\ \/ UNCHANGED <<peer, wmsg, msgs, rings>>
                 \/ /\ p.layer = RS_LAYER_TLS
                    /\ peer' = [peer EXCEPT ![s].layer = RS_LAYER_HTTP]
                    /\ UNCHANGED <<wmsg, msgs, rings>>
                 \/ /\ p.layer = RS_LAYER_HTTP
                    /\ peer' = [peer EXCEPT ![s].layer = RS_LAYER_WEBSOCKET]
                    /\ StartWrite(s)
                    /\ UNCHANGED rings
                 \/ /\ p.layer = RS_LAYER_WEBSOCKET
                    /\ events < MaxEvents
                    /\ inbound' = Append(inbound, [peer_i |-> s, conn |-> conn[s]])
                    /\ events' = events + 1
                    /\ UNCHANGED <<peer, wmsg, msgs, outbound, routes>>
                 \/ /\ p.layer \in {RS_LAYER_HTTP, RS_LAYER_WEBSOCKET}
                    /\ peer' = [peer EXCEPT ![s] = Escalate(p)]
                    /\ UNCHANGED <<wmsg, msgs, rings>>

UpperIo(s) ==
    /\ ~fatal /\ cur = s /\ peer[s].layer \in UpperLayers
    /\ UpperWrite(s) \/ UpperRead(s)
    /\ UNCHANGED <<free, ready, fatal, draining, conns, conn, sent, shutdowns>>

-----------------------------------------------------------------------------
(***************************************************************************)
(* The app thread and the rings between it and the worker (spec.md 4.4,    *)
(* 4.5): the app answers an inbound WebSocket message with rs_to_cur(),    *)
(* which addresses the client by the worker_i and peer_i of the event.     *)
(***************************************************************************)

\* rs_to_cur(): one SINGLE record for n->src_peer_i on the ring of
\* n->src_worker_thread_i, the peer of the event being handled.
RsToCur(e) == [peer_i |-> e.peer_i, meant |-> e.conn]

\* The app takes the next inbound record and runs the callback, which may
\* answer with rs_to_cur().
AppCallback ==
    /\ ~fatal /\ inbound # <<>>
    /\ inbound' = Tail(inbound)
    /\ \/ outbound' = Append(outbound, RsToCur(Head(inbound)))
       \/ UNCHANGED outbound
    /\ UNCHANGED <<peer, sock, free, ready, cur, fatal, draining, conns, conn, sent,
                   wmsg, msgs, out, shutdowns, events, routes>>

\* The slot holds a live WebSocket peer.
WsPeer(s) ==
    /\ s \notin free
    /\ peer[s].layer = RS_LAYER_WEBSOCKET /\ peer[s].mortality = RS_MORTALITY_LIVE

\* The worker takes the next record of its outbound ring.  A SINGLE record
\* goes to whatever peer now holds slot peer_i, if that is a live WebSocket
\* peer, once its previous message is out; otherwise it is dropped.  How
\* the worker treats a record is not in src/ nor in spec.md: this is the
\* simplest reading that lets a SINGLE record reach a socket.
ReadOutbound ==
    /\ ~fatal /\ cur = NoSlot /\ outbound # <<>>
    /\ LET r == Head(outbound)  s == r.peer_i IN
       /\ outbound' = Tail(outbound)
       /\ IF WsPeer(s)
          THEN /\ wmsg[s] = 0
               /\ wmsg' = [wmsg EXCEPT ![s] = MsgSize]
               /\ msgs' = [msgs EXCEPT ![s] = @ + 1]
               /\ routes' = routes \cup {[to |-> conn[s], meant |-> r.meant]}
               /\ cur' = s
          ELSE UNCHANGED <<wmsg, msgs, routes, cur>>
    /\ UNCHANGED <<peer, sock, free, ready, fatal, draining, conns, conn, sent, out,
                   shutdowns, inbound, events>>

-----------------------------------------------------------------------------

Init ==
    /\ peer = [s \in Slots |-> ZeroPeer]
    /\ sock = [s \in Slots |-> NoSocket]
    /\ free = Slots
    /\ ready = [s \in Slots |-> FALSE]
    /\ cur = NoSlot
    /\ fatal = FALSE
    /\ draining = FALSE
    /\ conns = 0
    /\ conn = [s \in Slots |-> 0]
    /\ sent = [s \in Slots |-> 0]
    /\ wmsg = [s \in Slots |-> 0]
    /\ msgs = [s \in Slots |-> 0]
    /\ out = [s \in Slots |-> <<>>]
    /\ shutdowns = [s \in Slots |-> 0]
    /\ inbound = <<>> /\ outbound = <<>>
    /\ events = 0 /\ routes = {}

\* Every connection has been served and closed: the server idles in
\* epoll_wait().
Served ==
    /\ conns = MaxConns /\ free = Slots /\ ~fatal
    /\ UNCHANGED vars

Worker ==
    TakeEvent \/ ReadOutbound \/ \E s \in Slots : handle_tcp_io(s) \/ UpperIo(s)

Client(s) == ClientSend(s) \/ ClientFin(s) \/ ClientReset(s) \/ ClientDrain(s)

Next == Accept \/ Worker \/ AppCallback \/ (\E s \in Slots : Client(s)) \/ Served

\* The worker and app threads run whenever they have work.  Clients read what is sent
\* to them and answer the server's FIN with their own; nothing else of a
\* client is assumed.
Fairness ==
    /\ WF_vars(Worker) /\ WF_vars(AppCallback)
    /\ \A s \in Slots : WF_vars(ClientDrain(s))
    /\ \A s \in Slots : WF_vars(sock[s].wshut /\ ClientFin(s))

Spec == Init /\ [][Next]_vars
FairSpec == Spec /\ Fairness

\* Only the worker is assumed to run: a client may send, stop sending, or
\* never close, as real clients do.
ProgressSpec == Spec /\ WF_vars(Worker)

-----------------------------------------------------------------------------
(***************************************************************************)
(* Properties.                                                             *)
(***************************************************************************)

TypeOK ==
    /\ peer \in [Slots -> [mortality : Mortalities,
                           layer : {RS_LAYER_TCP} \cup UpperLayers,
                           is_writing : BOOLEAN, is_encrypted : BOOLEAN,
                           old_wsize : 0..MsgSize - 1]]
    /\ sock \in [Slots -> [open : BOOLEAN, inq : 0..MaxIn, fin : BOOLEAN,
                           rst : BOOLEAN, wshut : BOOLEAN, room : 0..SndBuf]]
    /\ free \subseteq Slots
    /\ ready \in [Slots -> BOOLEAN]
    /\ cur \in Slots \cup {NoSlot}
    /\ fatal \in BOOLEAN
    /\ draining \in BOOLEAN /\ (draining => cur # NoSlot)
    /\ conns \in 0..MaxConns
    /\ wmsg \in [Slots -> 0..MsgSize]
    /\ msgs \in [Slots -> 0..MaxMsgs]
    /\ inbound \in Seq([peer_i : Slots, conn : 1..MaxConns])
    /\ outbound \in Seq([peer_i : Slots, meant : 1..MaxConns])
    /\ events \in 0..MaxEvents
    /\ routes \subseteq [to : 1..MaxConns, meant : 1..MaxConns]

\* The byte stream of a connection: message 1's bytes at offsets 0, 1, ...,
\* then message 2's, and so on.
Expected(n) == [j \in 1..n |-> <<(j - 1) \div MsgSize + 1, (j - 1) % MsgSize>>]

\* What the kernel accepted on a connection is exactly the messages the
\* layers wrote, each byte once and in order: write_tcp() resumes a partial
\* write at old_wsize, a finished message resets old_wsize to 0 for the
\* next one, and a reused slot does not carry old_wsize over (memset).
ByteStreamIntact == \A s \in Slots : out[s] = Expected(Len(out[s]))

\* handle_tcp_io() sends the FIN (shutdown(SHUT_WR)) of a connection at most
\* once, however many events arrive while it waits for the client's FIN.
ShutdownOnce == \A s \in Slots : shutdowns[s] <= 1

\* A socket is closed, and its slot freed, only at the end of a
\* bidirectional shutdown: the server has sent its FIN and the client's FIN
\* (or RST) has arrived.
CloseAfterBidirectionalShutdown ==
    [][\A s \in Slots :
        sock[s].open /\ ~sock'[s].open =>
            shutdowns'[s] >= 1 /\ (sock[s].fin \/ sock[s].rst)]_vars

ConnOpen(s, c) == conn[s] = c /\ sock[s].open

\* A connection the client has half-closed, or that a layer gave up on, is
\* eventually closed and its slot returned to the free list.
PeerClosureCompletes ==
    \A s \in Slots, c \in 1..MaxConns :
        ConnOpen(s, c) /\ (sock[s].fin \/ peer[s].mortality # RS_MORTALITY_LIVE)
            ~> ~ConnOpen(s, c)

\* No client can make the worker return RS_FATAL, which ends the whole
\* process: a peer-scoped failure is RS_CLOSE_PEER (spec.md section 7).
NoFatalFromClient == ~fatal

\* A connection the client resets is eventually closed and its slot freed
\* (unless the process has exited).
ResetPeerFreed ==
    \A s \in Slots, c \in 1..MaxConns :
        ConnOpen(s, c) /\ sock[s].rst ~> (~ConnOpen(s, c) \/ fatal)

\* The worker never stays with one peer for good, unless the process has
\* exited: each handle_tcp_io() call returns, so loop_over_events() moves on
\* to the other peers' events (spec.md 5: the worker blocks only in its
\* readiness wait).  This holds for clients that stop sending, reset or
\* never close; the read() loop of read_bidirectional_tcp_shutdown() runs
\* as long as read() returns bytes, so a closing client that keeps sending
\* breaks it (peer_flood).
EventLoopProgress == \A s \in Slots : cur = s ~> (cur # s \/ fatal)

\* An app message reaches the client it was meant for: the worker writes
\* the answer to a WebSocket message, sent with rs_to_cur() and addressed
\* by the client id (worker_i, peer_i), to the connection that sent it, and
\* never to a later connection that reuses its peer slot.
DeliveredToAddressee == \A r \in routes : r.to = r.meant

=============================================================================
