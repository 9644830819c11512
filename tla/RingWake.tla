------------------------------ MODULE RingWake ------------------------------
(***************************************************************************)
(* One producer (an app thread) publishing messages on an SPSC ring to one *)
(* consumer (a worker thread), with the ring update flush and the sleep/   *)
(* wake handshake of spec.md 4.1 and 4.2, on top of the relaxed atomics of *)
(* src/src/ringsocket_api.h (RS_ATOMIC_STORE_RELAXED, RS_ATOMIC_LOAD_      *)
(* RELAXED, RS_PREVENT_COMPILER_REORDERING).                               *)
(*                                                                         *)
(* The ring, the update queue and the park protocol are not under src/ and *)
(* are modelled from spec.md.  Memory is x86 TSO: every store of a thread  *)
(* goes through a FIFO store buffer and reaches memory later; a load sees  *)
(* the thread's own latest buffered store, else memory.  A compiler        *)
(* barrier keeps the program order of the buffer but drains nothing; a     *)
(* locked instruction (inside the eventfd syscalls) drains it.            *)
(***************************************************************************)
EXTENDS Naturals, Sequences, SequencesExt

CONSTANT Msgs   \* messages the producer writes

ASSUME Msgs \in Nat \ {0}

App == "app"
Worker == "worker"
Threads == {App, Worker}

\* Shared memory: ring slot i in 1..Msgs holds message i; the io_pair
\* writer cell and the worker's sleep flag sit in their own cache lines.
WriterCell == 0
SleepFlag == Msgs + 1
Locs == 0..Msgs + 1

VARIABLES
    mem,      \* shared memory as it is in the cache
    sb,       \* per-thread store buffer: a sequence of [loc, val]
    efd,      \* the worker's eventfd counter
    apc,      \* producer step
    written,  \* messages the producer has written into the ring
    wpc,      \* consumer step
    cursor,   \* the writer value the consumer loaded last
    reader,   \* messages the consumer has consumed
    got       \* the payloads the consumer read, in order

vars == <<mem, sb, efd, apc, written, wpc, cursor, reader, got>>

-----------------------------------------------------------------------------
(***************************************************************************)
(* Relaxed atomics on TSO.                                                 *)
(***************************************************************************)

\* RS_ATOMIC_STORE_RELAXED with its compiler barriers removed: the compiler
\* may sink the store below earlier plain stores still in the buffer.
BufferedUnfenced(t, e) ==
    {InsertAt(sb[t], i, e) : i \in 1..Len(sb[t]) + 1}

\* RS_ATOMIC_STORE_RELAXED(store, val): barrier, relaxed store, barrier.
\* The store enters the store buffer behind every earlier store.
Buffered(t, e) == {Append(sb[t], e)}

\* The memory and store buffers after thread t stores val at loc.
Store(t, loc, val) ==
    /\ \E b \in Buffered(t, [loc |-> loc, val |-> val]) : sb' = [sb EXCEPT ![t] = b]
    /\ UNCHANGED mem

\* RS_ATOMIC_LOAD_RELAXED(store, val): store forwarding from the thread's
\* own buffer, else memory.
Load(t, loc) ==
    LET own == SelectSeq(sb[t], LAMBDA e : e.loc = loc) IN
    IF own = <<>> THEN mem[loc] ELSE Last(own).val

\* Memory with all of thread t's buffered stores applied, in order.
Drained(t) == FoldLeft(LAMBDA m, e : [m EXCEPT ![e.loc] = e.val], mem, sb[t])

\* The hardware moves the oldest buffered store of t to memory.
DrainStore(t) ==
    /\ sb[t] # <<>>
    /\ mem' = [mem EXCEPT ![Head(sb[t]).loc] = Head(sb[t]).val]
    /\ sb' = [sb EXCEPT ![t] = Tail(sb[t])]
    /\ UNCHANGED <<efd, apc, written, wpc, cursor, reader, got>>

-----------------------------------------------------------------------------
(***************************************************************************)
(* The producer: rs_send() writes a record, rs_enqueue_ring_update()       *)
(* queues the new writer, the flush publishes it and wakes the worker.     *)
(***************************************************************************)

\* The record bytes are stored into the ring.
AppWrite ==
    /\ apc = "idle" /\ written < Msgs
    /\ Store(App, written + 1, written + 1)
    /\ written' = written + 1
    /\ UNCHANGED <<efd, apc, wpc, cursor, reader, got>>

\* Flush step 1: relaxed-store the writer cursor into the io_pair cell.
AppPublish ==
    /\ apc = "idle" /\ Load(App, WriterCell) < written
    /\ Store(App, WriterCell, written)
    /\ apc' = "load_sleep"
    /\ UNCHANGED <<efd, written, wpc, cursor, reader, got>>

\* Flush steps 2 and 3: relaxed-load the worker's sleep flag; wake it if set.
AppLoadSleep ==
    /\ apc = "load_sleep"
    /\ apc' = IF Load(App, SleepFlag) = 1 THEN "wake" ELSE "idle"
    /\ UNCHANGED <<mem, sb, efd, written, wpc, cursor, reader, got>>

\* The eventfd write(): the kernel's locked update drains the buffer.
AppWake ==
    /\ apc = "wake"
    /\ mem' = Drained(App)
    /\ sb' = [sb EXCEPT ![App] = <<>>]
    /\ efd' = efd + 1
    /\ apc' = "idle"
    /\ UNCHANGED <<written, wpc, cursor, reader, got>>

-----------------------------------------------------------------------------
(***************************************************************************)
(* The consumer: drain the ring, then park (spec.md 4.2 steps 1 to 4).     *)
(***************************************************************************)

\* The loaded writer cursor c is ahead of the messages r already consumed.
RingHasData(c, r) == c > r

\* Step 1: load the writer cell; consume up to it, or go to park.
WorkerLoadCursor ==
    /\ wpc = "load_cursor"
    /\ LET c == Load(Worker, WriterCell) IN
       /\ cursor' = c
       /\ wpc' = IF RingHasData(c, reader) THEN "read" ELSE "park"
    /\ UNCHANGED <<mem, sb, efd, apc, written, reader, got>>

\* Read the next message of the ring.
WorkerRead ==
    /\ wpc = "read"
    /\ got' = Append(got, Load(Worker, reader + 1))
    /\ reader' = reader + 1
    /\ wpc' = IF reader + 1 = cursor THEN "load_cursor" ELSE "read"
    /\ UNCHANGED <<mem, sb, efd, apc, written, cursor>>

\* Step 2: relaxed-store sleep flag = true.
WorkerPark ==
    /\ wpc = "park"
    /\ Store(Worker, SleepFlag, 1)
    /\ wpc' = "recheck"
    /\ UNCHANGED <<efd, apc, written, cursor, reader, got>>

\* Step 3: re-check the ring; if it has data, clear the flag and go on.
WorkerRecheck ==
    /\ wpc = "recheck"
    /\ IF RingHasData(Load(Worker, WriterCell), reader)
       THEN Store(Worker, SleepFlag, 0) /\ wpc' = "load_cursor"
       ELSE UNCHANGED <<mem, sb>> /\ wpc' = "block"
    /\ UNCHANGED <<efd, apc, written, cursor, reader, got>>

\* Step 4: the eventfd read() returns once the counter is non-zero, with
\* the buffer drained by the kernel; then the flag is cleared.
WorkerWake ==
    /\ wpc = "block" /\ efd > 0
    /\ efd' = 0
    /\ mem' = Drained(Worker)
    /\ sb' = [sb EXCEPT ![Worker] = <<[loc |-> SleepFlag, val |-> 0]>>]
    /\ wpc' = "load_cursor"
    /\ UNCHANGED <<apc, written, cursor, reader, got>>

-----------------------------------------------------------------------------

Init ==
    /\ mem = [l \in Locs |-> 0]
    /\ sb = [t \in Threads |-> <<>>]
    /\ efd = 0
    /\ apc = "idle"
    /\ written = 0
    /\ wpc = "load_cursor"
    /\ cursor = 0
    /\ reader = 0
    /\ got = <<>>

AppStep == AppWrite \/ AppPublish \/ AppLoadSleep \/ AppWake
WorkerStep ==
    WorkerLoadCursor \/ WorkerRead \/ WorkerPark \/ WorkerRecheck \/ WorkerWake

Next == AppStep \/ WorkerStep \/ \E t \in Threads : DrainStore(t)

\* Both threads run whenever they can, and a store buffer always drains.
Fairness ==
    /\ WF_vars(AppStep) /\ WF_vars(WorkerStep)
    /\ \A t \in Threads : WF_vars(DrainStore(t))

Spec == Init /\ [][Next]_vars /\ Fairness

-----------------------------------------------------------------------------

TypeOK ==
    /\ mem \in [Locs -> Nat]
    /\ \A t \in Threads : \A i \in DOMAIN sb[t] : sb[t][i].loc \in Locs
    /\ efd \in Nat
    /\ apc \in {"idle", "load_sleep", "wake"}
    /\ written \in 0..Msgs /\ reader \in 0..written
    /\ wpc \in {"load_cursor", "read", "park", "recheck", "block"}
    /\ got \in Seq(1..Msgs)

\* The worker reads every message whole and in producer order: it never
\* sees a ring slot before the payload bytes the app stored into it, because
\* the writer cell is stored after them and TSO keeps store order.
ReadsWhatWasWritten == got = [i \in 1..reader |-> i]

\* No lost wakeup: every message whose writer update reached the io_pair
\* cell is eventually consumed by the worker (spec.md 4.2 and section 6).
PublishedConsumed ==
    \A k \in 1..Msgs : (mem[WriterCell] >= k) ~> (reader >= k)

=============================================================================
