------------------------------ MODULE AppFanOut ------------------------------
(***************************************************************************)
(* What an app's send primitives promise (spec.md section 4.4): one call   *)
(* delivers its payload, once, to exactly the clients the primitive names, *)
(* and a payload larger than max_ws_msg_size ends the process instead.     *)
(* The process may also exit at any step when an allocation fails.        *)
(*                                                                         *)
(* A client is <<worker_i, peer_i>>.  A call is a record: the primitive,  *)
(* its client ids, the client cur of the inbound event the app is         *)
(* handling, and the payload pl with its size psize.  Calls is the set of *)
(* calls an app may make.                                                 *)
(***************************************************************************)
EXTENDS Naturals, Sequences

CONSTANTS Workers, PeerIds, MaxWsMsgSize, Calls

Clients == Workers \X PeerIds

VARIABLES
    inbox,     \* the payloads each client has been sent, in order
    lastcall,  \* the last send primitive called
    exited     \* the process has exited with RS_FATAL

\* The clients a call is addressed to, by the table of spec.md 4.4.
Targets(call) ==
    CASE call.prim = "to_single" -> {call.cids[1]}
      [] call.prim = "to_multi" -> {call.cids[i] : i \in DOMAIN call.cids}
      [] call.prim = "to_cur" -> {call.cur}
      [] call.prim = "to_every" -> Clients
      [] call.prim = "to_every_except_single" -> Clients \ {call.cids[1]}
      [] call.prim = "to_every_except_multi" ->
            Clients \ {call.cids[i] : i \in DOMAIN call.cids}
      [] call.prim = "to_every_except_cur" -> Clients \ {call.cur}

\* The app calls a primitive.
Send(call) ==
    /\ ~exited
    /\ lastcall' = call
    /\ IF call.psize > MaxWsMsgSize
       THEN exited' = TRUE /\ UNCHANGED inbox
       ELSE /\ inbox' = [c \in Clients |->
                            IF c \in Targets(call)
                            THEN Append(inbox[c], call.pl) ELSE inbox[c]]
            /\ UNCHANGED exited

\* The process exits with RS_FATAL for a reason of its own, not of a call:
\* an allocation failure (spec.md 7: allocation failures are FATAL).
Fatal ==
    /\ ~exited
    /\ exited' = TRUE
    /\ UNCHANGED <<inbox, lastcall>>

NoCall == [prim |-> "none"]

Init ==
    /\ inbox = [c \in Clients |-> <<>>]
    /\ lastcall = NoCall
    /\ exited = FALSE

\* \E call \in Calls : Send(call), written with the call Send records in
\* lastcall' so that TLC need not enumerate Calls.
Next == (lastcall' \in Calls /\ Send(lastcall')) \/ Fatal

Spec == Init /\ [][Next]_<<inbox, lastcall, exited>>

=============================================================================
