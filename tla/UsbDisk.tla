------------------------------ MODULE UsbDisk ------------------------------
(***************************************************************************)
(* What lies under the mass storage driver: the USB host stack, as far as  *)
(* ria/usb/msc.c uses it, and the drives.  The stack carries one control   *)
(* transfer at a time for all devices and refuses another; a bulk endpoint *)
(* carries one transfer; completions wait in one queue for tuh_task, and   *)
(* aborting a transfer takes back none that is queued.                     *)
(***************************************************************************)
EXTENDS Integers, SequencesExt

CONSTANTS Addrs   \* device addresses

Quiet == [d |-> 0, req |-> "none", cb |-> "none", done |-> FALSE]
NoXfer == [busy |-> FALSE, k |-> "none", for |-> "none"]

(* k is what the transfer is to carry, "for" the command its buffer is of. *)
usbh_edpt_xfer(w, d, ep, k, for) ==
    [w EXCEPT !.hw[d][ep] = [busy |-> TRUE, k |-> k, for |-> for]]

edpt_abort(w, d, ep) ==
    IF w.hw[d][ep].busy THEN [w EXCEPT !.hw[d][ep] = NoXfer] ELSE w

control_xfer(w, d, req, cb) ==
    [w EXCEPT !.ctrl = [d |-> d, req |-> req, cb |-> cb, done |-> FALSE]]

(* There is no more than one completion of a control transfer.             *)
Without(q, ep) ==
    IF \E i \in 1..Len(q) : q[i].ep = ep
    THEN RemoveAt(q, CHOOSE i \in 1..Len(q) : q[i].ep = ep) ELSE q

control_drop(w) == [w EXCEPT !.ctrl = Quiet, !.events = Without(@, "ctl")]

---------------------------------------------------------------------------
DataIn == {"inquiry", "capacity", "wp", "probe", "read", "sense"}
Raw == {"zero", "track", "make"}
DataOut == {"write"} \cup Raw
HasData(op) == op \in DataIn \cup DataOut

(* A drive: which it is, what it will send next, if it waits for data, the *)
(* endpoints it has halted, its medium, a unit attention and the sense of  *)
(* its last command.                                                       *)
NoDrive == [here |-> FALSE, unit |-> "none", bot |-> TRUE, removable |-> FALSE,
            wp |-> FALSE, lbpme |-> FALSE, tag |-> "old", inq |-> <<>>, want |-> FALSE,
            halt |-> {}, medium |-> "none", ua |-> "none", sense |-> "none"]

(* Tags tell a command from its autosense and from those before it.        *)
Retagged(x, tags) == IF x.tag \in tags THEN [x EXCEPT !.tag = "old"] ELSE x
OldEvents(q, tags) == [i \in DOMAIN q |-> [q[i] EXCEPT !.item = Retagged(@, tags)]]
OldXfers(h, tags) ==
    [ep \in DOMAIN h |-> [h[ep] EXCEPT !.for = IF @ \in tags THEN "old" ELSE @]]
OldDrive(v, tags) ==
    [Retagged(v, tags) EXCEPT !.inq = [i \in DOMAIN @ |-> Retagged(@[i], tags)]]
Older(w, d, tags) ==
    [w EXCEPT !.events = OldEvents(@, tags), !.hw[d] = OldXfers(@, tags),
              !.dev[d] = OldDrive(@, tags)]

Item(k, tag, val) == [k |-> k, tag |-> tag, val |-> val]
Nothing == Item("none", "old", "none")

Answer(v, op) ==
    CASE op = "sense" -> IF v.ua # "none" THEN v.ua ELSE v.sense
      [] op = "wp" -> IF v.wp THEN "yes" ELSE "no"
      [] op = "inquiry" -> IF v.removable THEN "yes" ELSE "no"
      [] op = "capacity" -> IF v.lbpme THEN "lbpme" ELSE "plain"
      [] op = "probe" -> "yes"
      [] OTHER -> v.medium

Csw(v, tag, st) == IF v.bot THEN <<Item("csw", tag, st)>> ELSE <<>>

(* A command that is carried out, and one that is refused, with a sense.   *)
Served(v, op, tag) ==
    LET u == [v EXCEPT !.tag = tag,
                       !.sense = IF op = "inquiry" THEN @ ELSE "none",
                       !.ua = IF op = "sense" THEN "none" ELSE @] IN
    IF op \in DataOut THEN [u EXCEPT !.want = TRUE]
    ELSE [u EXCEPT !.inq = @
             \o (IF op \in DataIn THEN <<Item("data", tag, Answer(v, op))>> ELSE <<>>)
             \o Csw(v, tag, "passed")]
Refused(v, op, tag, sense) ==
    [v EXCEPT !.tag = tag, !.sense = sense,
              !.ua = IF @ = sense THEN "none" ELSE @,
              !.halt = @ \cup (IF op \in DataIn THEN {"in"}
                               ELSE IF op \in DataOut THEN {"out"} ELSE {}),
              !.inq = @ \o Csw(v, tag, "failed")]

(* What a drive may do with a command; "flawed" if it is out of order.     *)
Sound(v, op, tag) ==
    IF op \in {"inquiry", "sense"} THEN Served(v, op, tag)
    ELSE IF v.ua # "none" THEN Refused(v, op, tag, v.ua)
    ELSE IF v.medium = "none" THEN Refused(v, op, tag, "absent")
    ELSE Served(v, op, tag)
Flawed(v, op, tag) ==
    {Refused(v, op, tag, "error")}
    \cup (IF v.bot THEN {[v EXCEPT !.tag = tag, !.inq = @ \o Csw(v, tag, "phase")]}
          ELSE {})

(* MSC_REQ_RESET, or SEND DIAGNOSTIC; a reset leaves the halts.            *)
Reset(v) ==
    [v EXCEPT !.inq = <<>>, !.want = FALSE,
              !.sense = "none", !.halt = IF v.bot THEN @ ELSE {}]
=============================================================================
