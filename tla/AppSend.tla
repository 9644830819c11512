------------------------------- MODULE AppSend -------------------------------
(***************************************************************************)
(* One RingSocket app thread composing and sending WebSocket messages, from *)
(* src/src/ringsocket_app_helper.h: the per-send scratch buffer            *)
(* (rs_check_app_wsize() and the rs_w_*() appends), rs_send(), which       *)
(* frames one message into the outbound ring of one worker, and the       *)
(* rs_to_*() primitives that fan a message out over the workers.           *)
(*                                                                         *)
(* A ring record keeps its layout: kind byte, recipient count, recipient   *)
(* peer_i values, opcode byte, extended WebSocket length, payload; the     *)
(* payload is named by the call that sent it and its size.  How a worker  *)
(* reads a record (not in src/) is modelled from spec.md 4.4.              *)
(***************************************************************************)
EXTENDS Naturals, Sequences

CONSTANTS
    WorkerC,            \* conf->worker_c
    PeerIds,            \* peer_i values of the clients of each worker
    MaxWsMsgSize,       \* conf->max_ws_msg_size
    InitWbufSize,       \* *n->wbuf_size before the first allocation
    ReallocMultiplier,  \* conf->realloc_multiplier
    ScratchSizes,       \* sizes of one rs_w_*() append (1, 2, 4, 8, any)
    UserSizes,          \* sizes of the p argument of a send primitive
    Utf8Flags,          \* values of the is_utf8 argument
    MaxScratch,         \* bound on the bytes appended to the scratch buffer
    MaxCids,            \* bound on the client_c of to_multi/to_every_except_multi
    MaxCalls            \* bound on the send primitives called

ASSUME /\ WorkerC \in Nat \ {0} /\ PeerIds \subseteq Nat
       /\ ReallocMultiplier \in Nat \ {0}
       /\ ScratchSizes \subseteq Nat \ {0} /\ UserSizes \subseteq Nat
       /\ Utf8Flags \subseteq BOOLEAN

Workers == 0..WorkerC - 1
Clients == Workers \X PeerIds

\* enum rs_outbound_kind
RS_OUTBOUND_SINGLE == "SINGLE"
RS_OUTBOUND_ARRAY == "ARRAY"
RS_OUTBOUND_EVERY == "EVERY"
RS_OUTBOUND_EVERY_EXCEPT_SINGLE == "EVERY_EXCEPT_SINGLE"
RS_OUTBOUND_EVERY_EXCEPT_ARRAY == "EVERY_EXCEPT_ARRAY"

UINT16_MAX == 65535

\* The client_ids arrays an app may pass.
CidLists == UNION {[1..n -> Clients] : n \in 0..MaxCids}

VARIABLES
    wbuf,       \* *n->wbuf has been allocated
    wbuf_size,  \* *n->wbuf_size
    wbuf_i,     \* n->wbuf_i: bytes appended to the scratch buffer
    rings,      \* the records written to the outbound ring of each worker
    src,        \* <<src_worker_thread_i, src_peer_i>> of the current event
    calls,      \* send primitives called so far
    lastcall,   \* the last send primitive called, with its arguments
    exited      \* the process has exited with RS_FATAL

vars == <<wbuf, wbuf_size, wbuf_i, rings, src, calls, lastcall, exited>>

-----------------------------------------------------------------------------
(***************************************************************************)
(* The scratch buffer.                                                     *)
(***************************************************************************)

\* rs_check_app_wsize(): the buffer size after making room for incr_size
\* more bytes.
CheckAppWsizeNoIncr(i, size, incr) ==
    IF i >= size THEN ReallocMultiplier * (i + incr) ELSE size
CheckAppWsize(i, size, incr) ==
    IF i + incr >= size THEN ReallocMultiplier * (i + incr) ELSE size

\* RS_CALLOC(pointer, elem_c): the results it may return.  A pointer that
\* is already set is refused; calloc() itself may return NULL.
RsCallocRet(allocated) ==
    IF allocated THEN {"RS_FATAL"} ELSE {"RS_OK", "RS_FATAL"}

\* RS_REALLOC(pointer, elem_c): the results it may return.  A NULL pointer
\* is refused; realloc() itself may return NULL.
RsReallocRet(allocated) ==
    IF allocated THEN {"RS_OK", "RS_FATAL"} ELSE {"RS_FATAL"}

\* rs_check_app_wsize(): the results it may return, RS_CALLOC() on first
\* use and then RS_REALLOC() when the append would reach the end.
CheckAppWsizeRet(i, size, incr) ==
    LET callocd == IF wbuf THEN {"RS_OK"} ELSE RsCallocRet(wbuf) IN
    IF i + incr >= size
    THEN UNION {IF r = "RS_OK" THEN RsReallocRet(TRUE) ELSE {r} : r \in callocd}
    ELSE callocd

\* rs_w_p() and rs_w_uint8/16/32/64() with their hton and int variants:
\* allocate the buffer on first use, grow it, append incr bytes.  When
\* rs_check_app_wsize() fails, RS_GUARD_APP ends the process (spec.md 7:
\* allocation failures are FATAL); the buffer it leaves is then moot.
WriteScratch(incr) ==
    /\ wbuf_i + incr <= MaxScratch
    /\ LET ret == CheckAppWsizeRet(wbuf_i, wbuf_size, incr) IN
       \/ /\ "RS_OK" \in ret
          /\ wbuf' = TRUE
          /\ wbuf_size' = CheckAppWsize(wbuf_i, wbuf_size, incr)
          /\ wbuf_i' = wbuf_i + incr
          /\ UNCHANGED exited
       \/ /\ "RS_FATAL" \in ret
          /\ exited' = TRUE
          /\ UNCHANGED <<wbuf, wbuf_size, wbuf_i>>
    /\ UNCHANGED <<rings, src, calls, lastcall>>

-----------------------------------------------------------------------------
(***************************************************************************)
(* rs_send(): one record in the outbound ring of one worker.               *)
(***************************************************************************)

\* The bytes rs_send() reserves with rs_prepare_ring_write(): the payload,
\* a WebSocket header of 2, 4 or 10 bytes by payload size, and the kind.
ReservedSize(psize) ==
    psize + (IF psize > UINT16_MAX THEN 10 ELSE IF psize > 125 THEN 4 ELSE 2)
          + 1

\* The extended length rs_send() writes after the opcode byte: chosen by
\* msg_size, which by then includes the header and kind byte, and nothing
\* at all in the last case.
ExtLength(psize) ==
    LET msg_size == ReservedSize(psize) IN
    IF msg_size > UINT16_MAX THEN <<127, psize>>
    ELSE IF msg_size > 125 THEN <<126, psize>>
    ELSE <<>>

\* The recipient count rs_send() writes ahead of the recipients: only when
\* there is more than one.
RecipientCountAlways(recipients) == <<Len(recipients)>>
RecipientCount(recipients) ==
    IF Len(recipients) > 1 THEN <<Len(recipients)>> ELSE <<>>

\* The record rs_send(n, worker_i, kind, recipients, recipient_c, is_utf8,
\* p, size) writes, or none when the payload exceeds max_ws_msg_size.
RsSend(kind, recipients, is_utf8, size) ==
    LET psize == wbuf_i + size IN
    IF psize > MaxWsMsgSize THEN <<>>
    ELSE <<[kind |-> kind,
            count |-> RecipientCount(recipients),
            recipients |-> recipients,
            opcode |-> IF is_utf8 THEN 129 ELSE 130,
            wslen |-> ExtLength(psize),
            payload |-> <<calls + 1, psize>>,
            reserved |-> ReservedSize(psize)]>>

\* Bytes a record occupies in the ring: the u32 fields take 4 bytes, the
\* extended length 1 + 2 or 1 + 8.
WrittenSize(r) ==
    1 + 4 * Len(r.count) + 4 * Len(r.recipients) + 1
      + (IF r.wslen = <<>> THEN 0 ELSE IF r.wslen[1] = 126 THEN 3 ELSE 9)
      + r.payload[2]

-----------------------------------------------------------------------------
(***************************************************************************)
(* The send primitives.                                                    *)
(***************************************************************************)

\* The peer_i values of the client ids on worker w, in order: the inner loop
\* of rs_to_multi() and rs_to_every_except_multi().
PeersOnSwapped(cids, w) ==
    LET on == SelectSeq(cids, LAMBDA c : c[2] = w) IN
    [j \in DOMAIN on |-> on[j][1]]
PeersOn(cids, w) ==
    LET on == SelectSeq(cids, LAMBDA c : c[1] = w) IN
    [j \in DOMAIN on |-> on[j][2]]

\* A primitive writes the records recs[w] to each worker's ring, resets the
\* scratch buffer (n->wbuf_i = 0) whatever rs_send() did, and is recorded
\* as call.
Primitive(prim, cids, size, recs) ==
    /\ calls < MaxCalls
    /\ rings' = [w \in Workers |-> rings[w] \o recs[w]]
    /\ wbuf_i' = 0
    /\ calls' = calls + 1
    /\ lastcall' = [prim |-> prim, cids |-> cids, cur |-> src,
                    pl |-> <<calls + 1, wbuf_i + size>>, psize |-> wbuf_i + size]
    /\ UNCHANGED <<wbuf, wbuf_size, src, exited>>

\* rs_to_single(): worker hi32(client_id) gets SINGLE lo32(client_id).
ToSingle(cid, is_utf8, size) ==
    Primitive("to_single", <<cid>>, size,
        [w \in Workers |->
            IF w = cid[1]
            THEN RsSend(RS_OUTBOUND_SINGLE, <<cid[2]>>, is_utf8, size)
            ELSE <<>>])

\* rs_to_multi(): each worker with one recipient gets SINGLE, with more
\* ARRAY, with none nothing.
ToMulti(cids, is_utf8, size) ==
    Primitive("to_multi", cids, size,
        [w \in Workers |->
            LET cur_clients == PeersOn(cids, w) IN
            CASE Len(cur_clients) = 0 -> <<>>
              [] Len(cur_clients) = 1 ->
                    RsSend(RS_OUTBOUND_SINGLE, cur_clients, is_utf8, size)
              [] OTHER ->
                    RsSend(RS_OUTBOUND_ARRAY, cur_clients, is_utf8, size)])

\* rs_to_cur(): SINGLE to the client of the current event.
ToCur(is_utf8, size) ==
    Primitive("to_cur", <<>>, size,
        [w \in Workers |->
            IF w = src[1]
            THEN RsSend(RS_OUTBOUND_SINGLE, <<src[2]>>, is_utf8, size)
            ELSE <<>>])

\* rs_to_every(): EVERY to each worker.
ToEvery(is_utf8, size) ==
    Primitive("to_every", <<>>, size,
        [w \in Workers |-> RsSend(RS_OUTBOUND_EVERY, <<>>, is_utf8, size)])

\* rs_to_every_except_single() and rs_to_every_except_cur(): the worker of
\* the excluded client gets EVERY_EXCEPT_SINGLE, the others EVERY.
ExceptOne(cid, is_utf8, size) ==
    [w \in Workers |->
        IF w = cid[1]
        THEN RsSend(RS_OUTBOUND_EVERY_EXCEPT_SINGLE, <<cid[2]>>, is_utf8, size)
        ELSE RsSend(RS_OUTBOUND_EVERY, <<>>, is_utf8, size)]

ToEveryExceptSingle(cid, is_utf8, size) ==
    Primitive("to_every_except_single", <<cid>>, size,
        ExceptOne(cid, is_utf8, size))

ToEveryExceptCur(is_utf8, size) ==
    Primitive("to_every_except_cur", <<>>, size, ExceptOne(src, is_utf8, size))

\* rs_to_every_except_multi(): EVERY, EVERY_EXCEPT_SINGLE or
\* EVERY_EXCEPT_ARRAY by the number of excluded clients on the worker.
ToEveryExceptMulti(cids, is_utf8, size) ==
    Primitive("to_every_except_multi", cids, size,
        [w \in Workers |->
            LET cur_clients == PeersOn(cids, w) IN
            CASE Len(cur_clients) = 0 ->
                    RsSend(RS_OUTBOUND_EVERY, <<>>, is_utf8, size)
              [] Len(cur_clients) = 1 ->
                    RsSend(RS_OUTBOUND_EVERY_EXCEPT_SINGLE, cur_clients,
                           is_utf8, size)
              [] OTHER ->
                    RsSend(RS_OUTBOUND_EVERY_EXCEPT_ARRAY, cur_clients,
                           is_utf8, size)])

\* The app's callback runs for an inbound event of some client, which
\* becomes the current one (not in src/: spec.md 4.5).
OnEvent ==
    /\ \E c \in Clients : src' = c
    /\ UNCHANGED <<wbuf, wbuf_size, wbuf_i, rings, calls, lastcall, exited>>

-----------------------------------------------------------------------------

Init ==
    /\ wbuf = FALSE
    /\ wbuf_size = InitWbufSize
    /\ wbuf_i = 0
    /\ rings = [w \in Workers |-> <<>>]
    /\ src \in Clients
    /\ calls = 0
    /\ lastcall = [prim |-> "none"]
    /\ exited = FALSE

\* Nothing runs once the process has exited.
Next ==
    /\ ~exited
    /\ \/ OnEvent
       \/ \E incr \in ScratchSizes : WriteScratch(incr)
       \/ \E u \in Utf8Flags, size \in UserSizes :
           \/ \E cid \in Clients : ToSingle(cid, u, size)
           \/ \E cids \in CidLists : ToMulti(cids, u, size)
           \/ ToCur(u, size)
           \/ ToEvery(u, size)
           \/ \E cid \in Clients : ToEveryExceptSingle(cid, u, size)
           \/ \E cids \in CidLists : ToEveryExceptMulti(cids, u, size)
           \/ ToEveryExceptCur(u, size)

Spec == Init /\ [][Next]_vars

-----------------------------------------------------------------------------
(***************************************************************************)
(* Properties.                                                             *)
(***************************************************************************)

Kinds == {RS_OUTBOUND_SINGLE, RS_OUTBOUND_ARRAY, RS_OUTBOUND_EVERY,
          RS_OUTBOUND_EVERY_EXCEPT_SINGLE, RS_OUTBOUND_EVERY_EXCEPT_ARRAY}

RecordType ==
    [kind : Kinds, count : Seq(Nat), recipients : Seq(PeerIds),
     opcode : {129, 130}, wslen : Seq(Nat), payload : Nat \X Nat,
     reserved : Nat]

TypeOK ==
    /\ wbuf \in BOOLEAN
    /\ wbuf_size \in Nat
    /\ wbuf_i \in 0..MaxScratch
    /\ \A w \in Workers : \A i \in DOMAIN rings[w] : rings[w][i] \in RecordType
    /\ src \in Clients
    /\ calls \in 0..MaxCalls
    /\ exited \in BOOLEAN

\* Every rs_w_*() append lands inside the allocated scratch buffer:
\* rs_check_app_wsize() grows it before the append overruns it.
ScratchInBounds == wbuf_i <= wbuf_size

\* Every record's routing header is the one spec.md 4.4 gives its kind: a
\* recipient count, then that many recipients, for ARRAY and
\* EVERY_EXCEPT_ARRAY; one recipient and no count for SINGLE and
\* EVERY_EXCEPT_SINGLE; nothing for EVERY.  rs_send() writes the count from
\* recipient_c > 1 while the rs_to_*() callers pick the kind in their
\* switch on the number of clients per worker, so the two must agree for a
\* worker to parse the record.
RoutingHeaderPerSpec ==
    \A w \in Workers : \A i \in DOMAIN rings[w] :
        LET r == rings[w][i] IN
        IF r.kind \in {RS_OUTBOUND_ARRAY, RS_OUTBOUND_EVERY_EXCEPT_ARRAY}
        THEN r.count = <<Len(r.recipients)>> /\ Len(r.recipients) >= 2
        ELSE /\ r.count = <<>>
             /\ Len(r.recipients) = IF r.kind = RS_OUTBOUND_EVERY THEN 0 ELSE 1

\* How a worker reads a record for its peer peer_i (spec.md 4.4): SINGLE
\* and ARRAY name the recipients, EVERY is everyone, the EXCEPT kinds are
\* everyone but the named.
Addresses(r, peer_i) ==
    LET named == \E j \in DOMAIN r.recipients : r.recipients[j] = peer_i IN
    CASE r.kind \in {RS_OUTBOUND_SINGLE, RS_OUTBOUND_ARRAY} -> named
      [] r.kind = RS_OUTBOUND_EVERY -> TRUE
      [] OTHER -> ~named

\* The payloads each client receives, read off the rings.
MappedInbox ==
    [c \in Clients |->
        LET mine == SelectSeq(rings[c[1]], LAMBDA r : Addresses(r, c[2])) IN
        [j \in DOMAIN mine |-> mine[j].payload]]

Calls == [prim : {"to_single", "to_multi", "to_cur", "to_every",
                  "to_every_except_single", "to_every_except_multi",
                  "to_every_except_cur"},
          cids : CidLists, cur : Clients, pl : Nat \X Nat, psize : Nat]

Fan == INSTANCE AppFanOut WITH inbox <- MappedInbox

\* Each send primitive delivers its payload once to exactly the clients it
\* names and to no one else, whatever the spread of the client ids over
\* the workers, and an oversize payload ends the process (AppFanOut).
FanOutRefinement == Fan!Spec

\* The WebSocket length after the opcode byte is the one byte of the
\* payload size up to 125, else 126 and two bytes up to 65535, else 127 and
\* eight bytes (spec.md 3 and section 8).
SpecLength(psize) ==
    IF psize <= 125 THEN <<psize>>
    ELSE IF psize <= UINT16_MAX THEN <<126, psize>> ELSE <<127, psize>>

FrameLengthPerSpec ==
    \A w \in Workers : \A i \in DOMAIN rings[w] :
        rings[w][i].wslen = SpecLength(rings[w][i].payload[2])

\* rs_send() writes no more bytes into the ring than it reserved with
\* rs_prepare_ring_write().
RecordWithinReservation ==
    \A w \in Workers : \A i \in DOMAIN rings[w] :
        WrittenSize(rings[w][i]) <= rings[w][i].reserved

=============================================================================
