--------------------------------- MODULE Net ---------------------------------
(***************************************************************************)
(* The network layer (ria-w/net/net.c): descriptors, lookups, listeners,   *)
(* and the lwIP PCB each of them may own.  A handler maps the world w,     *)
(* a record of all they touch, to the next.  The handlers that call back   *)
(* into a driver are in NetCalls.                                          *)
(***************************************************************************)
EXTENDS Integers, Sequences, FiniteSets, Wifi

CONSTANTS
    Pcbs,      \* the PCBs lwIP has, numbers
    PoolSize,  \* NET_DNS_CTX_POOL
    Depth      \* NET_CONN_PBUF_DEPTH

ASSUME NetAssumption ==
    /\ Pcbs \subseteq Nat \ {0} /\ IsFiniteSet(Pcbs)
    /\ PoolSize \in Nat /\ Depth \in Nat \ {0}

(* call is the number of the dial a descriptor or a PCB is there for, 0 of *)
(* a call that came in; keyed, that its peer has given the passkey.        *)
Closed == [state |-> "closed", pcb |-> 0, gen |-> 0, call |-> 0, pbufs |-> <<>>]
FreePcb == [st |-> "free", arg |-> "none", call |-> 0, keyed |-> FALSE]
NoListener == [ref |-> 0, pending |-> 0]

Freed(w, p) == [w EXCEPT !.pcbs[p] = FreePcb]

FreePcbs(w) == {p \in Pcbs : w.pcbs[p].st = "free"}
NewPcb(w) == CHOOSE p \in FreePcbs(w) : \A q \in FreePcbs(w) : p <= q

---------------------------------------------------------------------------
(* net_close, with or without the callback having run: told is the world   *)
(* it has made of Shut(w, d).                                              *)
Shut(w, d) ==
    [w EXCEPT !.conn[d].state = "closed",
              !.conn[d].pbufs = IF w.conn[d].state \in {"connected", "closing"} THEN <<>> ELSE @]

Closing(w, d, told) ==
    IF w.conn[d].state \in {"closed", "dns_lookup"} \/ told.conn[d].pcb = 0 THEN told
    ELSE [Freed(told, told.conn[d].pcb) EXCEPT !.conn[d].pcb = 0]

(* telnet_close, where on_close has run or has nothing left to do.         *)
Hush(w, d) == Closing(w, d, Shut(w, d))

(* Up to n pbufs are read; the last one of a peer that is gone closes.     *)
net_rx(w, d, n) ==
    LET v == [w EXCEPT !.conn[d].pbufs = SubSeq(@, n + 1, Len(@))] IN
    IF v.conn[d].pbufs = <<>> /\ v.conn[d].state = "closing" THEN Hush(v, d) ELSE v

---------------------------------------------------------------------------
(* What lwIP calls.  A full ring makes lwIP keep the pbuf and try again.   *)
net_recv(w, d, data) ==
    IF w.conn[d].state # "connected" \/ Len(w.conn[d].pbufs) = Depth THEN w
    ELSE [w EXCEPT !.conn[d].pbufs = Append(@, data)]

(* What dns_gethostbyname may say: "inprogress", "error", or an answer.    *)
Answers(w) ==
    {"none", "nopcb"} \cup IF FreePcbs(w) = {} THEN {} ELSE {"refused", "ok"}

---------------------------------------------------------------------------
(* Listeners: a port, how many listen on it, the call that waits there.    *)
net_has_pending(w, port) == w.lst[port].ref > 0 /\ w.lst[port].pending # 0

net_reject(w, port) ==
    IF ~net_has_pending(w, port) THEN w
    ELSE [Freed(w, w.lst[port].pending) EXCEPT !.lst[port].pending = 0]

net_pending_err(w, port) == net_reject(w, port)

net_listen(w, port, made) ==
    IF w.lst[port].ref > 0 \/ made THEN [w EXCEPT !.lst[port].ref = @ + 1] ELSE w

\* Mutant: the call that waits is left behind.
net_listen_close_leaks(w, port) ==
    IF w.lst[port].ref = 0 THEN w ELSE [w EXCEPT !.lst[port].ref = @ - 1]

net_listen_close(w, port) ==
    IF w.lst[port].ref = 0 THEN w
    ELSE [(IF w.lst[port].ref = 1 THEN net_reject(w, port) ELSE w)
             EXCEPT !.lst[port].ref = @ - 1]

net_accept(w, d, port) ==
    IF ~net_has_pending(w, port) THEN [w |-> w, ok |-> FALSE]
    ELSE LET p == w.lst[port].pending IN
         [w |-> [w EXCEPT !.conn[d].pcb = p, !.conn[d].state = "connected", !.conn[d].call = 0,
                          !.pcbs[p].arg = d, !.lst[port].pending = 0],
          ok |-> TRUE]

=============================================================================
