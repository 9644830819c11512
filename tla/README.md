# TLA+ models of RingSocket

This directory has TLA+ models of the RingSocket sources under `src/src/`. TLC checks them. Each module is translated from the C code. `PROJECT.json` maps every definition to the lines it models, and lists the runs, mutants, findings and hazards.

## The system

RingSocket is a WebSocket server made of two kinds of threads.

* **Worker threads** each own a set of peer slots. A peer is one client connection. A worker waits on edge-triggered epoll and drives each peer through the protocol layers TCP → TLS → HTTP upgrade → WebSocket. A per-peer *mortality* state machine takes a closing peer through three steps:
  1. `SHUTDOWN_WRITE`: `shutdown(SHUT_WR)` sends our FIN.
  2. `SHUTDOWN_READ`: the worker drains input until the client's FIN arrives.
  3. `DEAD`: the socket is closed, the slot is zeroed and returned to the free list.

  The TCP end of this is `src/src/rs_tcp.c` (`read_tcp`, `write_tcp`, `write_bidirectional_tcp_shutdown`, `read_bidirectional_tcp_shutdown`, `handle_tcp_io`). The TLS, HTTP and WebSocket layers, the event loop and the acceptor are not under `src/`.
* **App threads** run the user's callbacks. A callback composes a message in a growable per-thread scratch buffer (`rs_check_app_wsize`, `rs_w_*`). It then sends the message with one of seven primitives:
  * `rs_to_single`, `rs_to_multi`, `rs_to_cur`
  * `rs_to_every`, `rs_to_every_except_single`, `rs_to_every_except_multi`, `rs_to_every_except_cur`

  Each primitive calls `rs_send` once per worker. `rs_send` writes one record into that worker's outbound ring. A record is: a kind byte, an optional recipient count, the recipient `peer_i` values, the WebSocket opcode, the extended length, and the payload. All of this is in `src/src/ringsocket_app_helper.h`. The ring, the ring-update queue and the worker sleep/wake handshake are declared elsewhere (`rs_ring.h`).

The two kinds of thread interact only through the outbound (and inbound) rings and the update queue. A worker's treatment of an outbound record is what links a send to a client's socket.

## Modules

| module | models | state | actions |
|---|---|---|---|
| `PeerIo` | `rs_tcp.c`: one worker thread, its peer slots, their sockets and the clients | `peer` (the `union rs_peer` fields `mortality`, `layer`, `is_writing`, `is_encrypted`, `old_wsize`), `sock` (kernel socket: receive queue, FIN, RST, SHUT_WR, send-buffer room), `free` (free slots), `ready` (edge-triggered readiness), `cur` (peer the worker is handling), `fatal` (process exited with RS_FATAL); the worker's `inbound` ring to the app and the app's `outbound` ring to the worker; history variables `conn`, `sent`, `wmsg`, `msgs`, `out`, `shutdowns`, `events`, `routes` | `TcpNewPeer`, `TcpShutdown`, `TcpShutdownFails`, `TcpDead` (the cases of `handle_tcp_io`), `UpperRead`/`UpperWrite`/`StartWrite` (upper layers through `read_tcp`/`write_tcp`), `TakeEvent`, `Accept`, `ReadOutbound` (the worker takes an app reply), the app's `AppCallback`, and client actions `ClientSend`, `ClientFin`, `ClientReset`, `ClientDrain` |
| `AppFanOut` | the abstract promise of the send primitives (spec.md 4.4): a call adds its payload once to the inbox of exactly the clients it addresses, and an oversize payload exits the process; the process may also exit on its own (an allocation failure) | `inbox`, `lastcall`, `exited` | `Send(call)`, `Fatal` |
| `AppSend` | `ringsocket_app_helper.h`: one app thread's scratch buffer and send primitives | `wbuf`, `wbuf_size`, `wbuf_i`, `rings` (records per worker), `src` (client of the current event), `calls`, `lastcall`, `exited` | `WriteScratch` (every `rs_w_*`, with `rs_check_app_wsize` succeeding or failing in `RS_CALLOC`/`RS_REALLOC`), `ToSingle`, `ToMulti`, `ToCur`, `ToEvery`, `ToEveryExceptSingle`, `ToEveryExceptMulti`, `ToEveryExceptCur`, `OnEvent` |
| `RingWake` | one producer (app) publishing on one SPSC ring to one consumer (worker), the flush of spec.md 4.2 and the worker's park protocol, over `RS_ATOMIC_STORE_RELAXED`/`RS_ATOMIC_LOAD_RELAXED` of `ringsocket_api.h` | `mem` (ring slots, the `io_pair` writer cell, the sleep flag), `sb` (each thread's x86 store buffer), `efd` (eventfd counter), `apc`/`wpc` (each thread's step), `written`, `cursor`, `reader`, `got` | `AppWrite`, `AppPublish`, `AppLoadSleep`, `AppWake`, `WorkerLoadCursor`, `WorkerRead`, `WorkerPark`, `WorkerRecheck`, `WorkerWake`, and the hardware's `DrainStore` |
| `MC_PeerIo`, `MC_AppSend`, `MC_RingWake` | the instances for TLC | | |

`peer.is_writing` is set and cleared as `rs_tcp.c` does, but the upper layers, modelled from spec.md, choose between writing and reading by `wmsg`, so no action reads it.

`PeerIo` makes one C function invocation one atomic step, because a worker thread handles one peer at a time. `cur` holds the peer being handled. Client actions, which change kernel socket state, interleave between these steps.

Each `rs_tcp.c` function is a pair of operators: the value it returns (`ReadTcpRet`, `WriteTcpRet`, `ReadShutdownRet`) and the peer it leaves (`WriteTcpPeer`, `WriteShutdownPeer`, `ReadShutdownPeer`). The cases of `handle_tcp_io` use them in the order the switch falls through. The close path (`CloseAndFree`) zeroes the peer (`ZeroPeer` is the `memset`) and frees the slot in the same step.

The `read()` loop of `read_bidirectional_tcp_shutdown` is one step per `read()`: `TcpShutdown` sends the FIN and enters the loop (`draining`), `ShutdownRead` reads what the client has queued, and `ShutdownReadEnd` leaves the loop on EOF, RST or EAGAIN. So a client can send between two reads. With the constant `ClientFloods`, a client keeps sending after our FIN.

The layers above TCP are modelled from spec.md, since their code is not under `src/`. They read bytes or write one of the worker's messages in pieces. A WebSocket message read from a peer becomes a record `[peer_i, conn]` on the `inbound` ring (`conn` is the connection, kept only so that properties can tell connections apart). The app thread (`AppCallback`) takes a record and either replies with `rs_to_cur` or does not. The reply names the client by the `peer_i` of the event (`RsToCur`, translated from `rs_to_cur`), not by the connection. The worker (`ReadOutbound`) takes the reply when it is not in the middle of another peer and, if the slot holds an upgraded live peer (`WsPeer`), starts writing it to that slot's connection once the previous message there is out; a record for any other slot is dropped. How a worker treats an outbound record is in neither `src/` nor spec.md; this is the simplest reading that lets a SINGLE record reach a socket, and no property rests on the drop. `routes` records which connection each reply went to and which one it was meant for. A `CLOSE_PEER` from any layer escalates a `LIVE` peer to `SHUTDOWN_WRITE` and drops it to the TCP layer (`Escalate`).

`AppSend` keeps the control and the layout of each record. A payload is named by the call that sent it and its size. `AppSend` implements `AppFanOut` under a refinement mapping:
* `MappedInbox` reads each worker's ring the way spec.md 4.4 says a worker interprets a record (`Addresses`).
* `exited` is `AppSend`'s own. Only an allocation failure sets it: `rs_check_app_wsize` returns RS_FATAL when `calloc()` or `realloc()` returns NULL (`RsCallocRet`, `RsReallocRet`, `CheckAppWsizeRet`), and `RS_GUARD_APP` (not under `src/`; spec.md 7 says allocation failures are FATAL) ends the process. `rs_send` itself never exits.

`RingWake` models the ring and the sleep/wake code from spec.md 4.1 and 4.2, because that code (`rs_ring.h`, `ringsocket_queue.h`) is not under `src/`. Its loads and stores are the macros of `ringsocket_api.h`. On x86 TSO a store goes into the thread's FIFO store buffer (`Store`) and reaches memory later (`DrainStore`). A load reads the thread's own latest buffered store, or memory (`Load`). The compiler barriers keep program order, so a store never overtakes an earlier one (`Buffered`). The eventfd syscalls drain the buffer (`Drained`), as a locked instruction does.

## Runs

| run | cfg | expect | what it shows |
|---|---|---|---|
| `peer_live` | `MC_PeerIo.cfg` | pass | One slot reused by three connections, with no client resets. Partial writes resume at the right byte (`ByteStreamIntact`), and `old_wsize` stays below the message size across partial writes and slot reuse (`TypeOK`). Each socket is shut down at most once (`ShutdownOnce`). A socket is closed only after `shutdown()` and the client's FIN or RST (`CloseAfterBidirectionalShutdown`). Once the client has sent a FIN or the peer is closing, the connection is closed (`PeerClosureCompletes`). With `MaxEvents = 2`, these checks include app answers written back to back. |
| `peer_reset_safety` | `MC_PeerIo_reset.cfg` | pass | Two slots whose clients may reset, stop at any point, or never close. Only the worker is assumed to run. Close ordering still holds. Each `handle_tcp_io` call returns, so the worker leaves every peer unless the process has exited (`EventLoopProgress`). This covers clients that reset, stop sending or never close; `MaxIn = 1` and no flooding rule out a client that keeps sending while the worker drains, which is `peer_flood`'s case, where the property fails. With resets the process may stop in RS_FATAL, so deadlock is not checked. |
| `peer_no_fatal` | `MC_PeerIo_fatal.cfg` | violation | Any client RST before our FIN ends the process. On a live peer `read_tcp` turns the reset into RS_CLOSE_PEER, the escalation to SHUTDOWN_WRITE calls `shutdown(SHUT_WR)` on the reset socket, it fails with ENOTCONN, and `handle_tcp_io` returns RS_FATAL. One client can end the process. |
| `peer_reset_freed` | `MC_PeerIo_leak.cfg` | violation | A partial write, then a client RST, then a failing `write()`. `if (errno = EAGAIN)` turns the failure into RS_AGAIN, and the slot is never freed. |
| `peer_flood` | `MC_PeerIo_flood.cfg` | violation | A client keeps sending after our FIN. The `read()` loop of `read_bidirectional_tcp_shutdown` never sees EAGAIN, and the worker never returns to its other peers. |
| `peer_stale_client_id` | `MC_PeerIo_stale.cfg` | violation | A client id names a slot, not a connection. Client A sends a message; the app answers with `rs_to_cur`; A closes and B is accepted into the same slot and upgraded before the worker reads the answer; the answer is written to B (`DeliveredToAddressee`). Nothing in the ring record, the id or the worker's check tells A from B. |
| `app_fan_out` | `MC_AppSend.cfg` | pass | Every primitive refines `AppFanOut`, including client id lists with duplicates and ids spread over both workers. The scratch buffer grows before every append (`ScratchInBounds`). Every record carries the routing header spec.md 4.4 gives its kind: a count and at least two recipients for ARRAY and EVERY_EXCEPT_ARRAY, one recipient for SINGLE and EVERY_EXCEPT_SINGLE, none for EVERY (`RoutingHeaderPerSpec`). `rs_send` decides the count from `recipient_c > 1`; the callers decide the kind in their own `switch`, and the two must agree. An allocation failure ends the process, which `AppFanOut` allows; the process then stops, so deadlock is not checked. |
| `app_oversize` | `MC_AppSend_oversize.cfg` | violation | An oversize payload is dropped silently. `rs_send` is `void` and its `return RS_FATAL` goes nowhere. |
| `app_frame_length` | `MC_AppSend_frame.cfg` | violation | No 1-byte WebSocket length is written for payloads up to 125 bytes. The 126 and 127 forms are chosen from the size including the header. |
| `app_reservation` | `MC_AppSend_reserve.cfg` | violation | A record with recipients is longer than the ring space reserved for it. |
| `ring_tso_order` | `MC_RingWake_tso.cfg` | pass | On TSO, the worker reads every message whole and in order (`ReadsWhatWasWritten`). The payload stores stay ahead of the writer-cell store. |
| `ring_lost_wakeup` | `MC_RingWake_lost.cfg` | violation | On TSO the wakeup is lost. The app's writer store is still in its buffer when it loads the sleep flag as 0. The worker's sleep-flag store is still in its buffer when it rechecks the old writer. The worker then blocks with a message published. spec.md 4.2 and 8 say relaxed atomics with compiler barriers are sound on TSO. This is the store-buffering case they do not cover, and it needs a full fence. |

Each property of a passing run has a mutant in `PROJECT.json`. A mutant is a plausible slip in the mapped code, and TLC finds it under the run's own cfg. The mutants are:
* a resumed write that ignores `old_wsize`, or does not reset it;
* a shutdown that does not advance the mortality;
* a drain that closes before the FIN;
* an EOF read as EAGAIN;
* a count written for a single recipient;
* a growth test without `incr_size`;
* swapped client id halves;
* a shutdown `read()` loop that waits for EOF;
* a relaxed store the compiler may sink below earlier stores.

### Bounds

* **PeerIo, `peer_live`.** One slot, three connections through it, messages of 3 bytes, a send buffer of 2, and up to two WebSocket messages passed to the app (`MaxEvents = 2`, `MaxMsgs = 3`: the 101 response and two answers). These bounds give partial writes, resumed writes, slot reuse, every mortality path, a second answer queued while the first is still being written, and an answer left for a slot whose connection has closed. The run reaches about 78k states in 12 s.
* **PeerIo, `peer_reset_safety`.** Two slots, at most one pending input byte and two messages. The two slots interleave, and resets arrive at every point of the close sequence. Symmetry is not used, because the run checks a liveness property. It reaches about 259k states in 20 s.
* **AppSend, `app_fan_out`.**
  * Two workers with two peers each, and lists of up to two client ids. These include duplicate ids, ids on one worker, and ids on different workers, so every case of the `switch (cur_client_c)` is hit.
  * Two calls, so records of different calls sit in the same ring.
  * A scratch append of 4 bytes on an initial size of 2 forces a realloc.

  The run reaches about 231k states in 25 s. With more sizes or calls the state space grows by orders of magnitude.

* **PeerIo, `peer_flood`.** The `peer_live` bounds. Up to 3 queued input bytes let a client refill the queue between two reads. In `peer_reset_safety`, one pending byte is enough for the shutdown loop to read, and a client that never closes keeps the loop waiting.
* **RingWake.** One producer and one consumer, which is what the SPSC ring has. Two messages under TSO give the store-buffer reorderings of payload and cursor across two publications. One message is enough for the lost wakeup.
* **PeerIo, `peer_stale_client_id`.** One slot, two connections, inputs of up to 2 bytes and one WebSocket message (`MaxEvents = 1`): the smallest instance in which a reply can outlive its connection. `MaxEvents` bounds the messages the worker hands to the app; the runs with `MaxMsgs = 1` set it to 0, because the 101 response already uses their one message.

### Fairness

`FairSpec` assumes weak fairness of the worker as a whole. An edge-triggered event stays pending in `ready` until the worker takes it, and the worker never blocks while events are pending. It also assumes weak fairness of a client draining its receive window, and of a client answering our FIN with its own. The second is an assumption about the client, not the code. The code has no timeout for a client that never closes (see the hazards). Client sends and resets get no fairness. The worker's weak fairness covers `ReadOutbound`: spec.md 5 has the worker block only once its rings and sockets are drained, so it takes outbound records whenever it can. The app thread gets weak fairness of `AppCallback`: it takes every inbound record, because the app's event loop blocks only when its inbound rings are empty.

`ProgressSpec` (`peer_reset_safety`, `peer_flood`) assumes weak fairness of the worker only. It assumes nothing of the clients.

`RingWake` assumes weak fairness of each thread and of each store buffer's drain. A thread runs when it can. Hardware writes a buffered store back in bounded time.

## Not modelled, and the plan

1. **Rings beyond one SPSC pair.** Ring wrap-around, several rings per consumer and batching in the ring update queue are not modelled. `PeerIo` composes the worker with one app over two FIFO rings; the byte layout of their records is `AppSend`'s.
2. **Client ids.** `rs_get_client_id` and `rs_to_single` reinterpret one `uint64_t` as two `uint32_t`. Both use the same host order, so the halves come back unchanged and a model has nothing to tell apart. What an id means (a slot, not a connection) is modelled in `PeerIo` (`peer_stale_client_id`). `rs_send` indexes the worker's ring with the id's worker half and has no range check. This is listed as a hazard with no property: ids come from the framework, and `AppSend` only draws valid ones.
3. **Idle clients.** A client that never sends its FIN keeps its slot for good. spec.md leaves idle-peer pruning to the app.
4. **Left out.** `rs_hash.h` (declarations only), `rs_get_time_in_milliseconds` (a clock read), the logging macros (I/O), `RS_CACHE_ALIGNED_CALLOC` and `RS_FREE` (used only by setup code), the byte-order macros and the exact bytes of the `rs_w_*` helpers (spec.md 8 records that `rs_w_uint64` takes a `uint32_t`; the models name a payload by its call and size), `rs_init_rings` (one-time setup with no concurrency; as written it indexes `inbound_readers[i]` where `(*inbound_readers)[i]` is meant and uses `RS_ATOMIC_LOAD_RELAXED_CASTED`, which `ringsocket_api.h` does not define: it defines `RS_CASTED_ATOMIC_LOAD_RELAXED`), and `init_tls_session` failure (TLS code not under `src/`).
