-------------------------------- MODULE Msc --------------------------------
(***************************************************************************)
(* The transport half of the mass storage driver (ria/usb/msc.c): for each *)
(* device the stages of a command, over Bulk-Only Transport or over CBI,   *)
(* and the recovery that follows a failure.  A handler maps the world w, a *)
(* record of all they touch, to the next.                                  *)
(***************************************************************************)
EXTENDS UsbDisk

CONSTANTS Vols    \* the slots for volumes, 0 and up

(* xferred and cmdx are data_xferred and cmd_xferred: were they the length *)
(* of a sector?  tag is that of the CBW, op its command.                   *)
NoItf == [open |-> FALSE, mounted |-> FALSE, bot |-> FALSE, stage |-> "idle",
          recovery |-> "idle", op |-> "none", tag |-> "old", xferred |-> FALSE,
          cmdx |-> FALSE, csw |-> "passed"]

msc_complete_command(w, d, status) ==
    [w EXCEPT !.itf[d].stage = "idle", !.itf[d].csw = status]

msc_data_ep(w, d) == IF w.itf[d].op \in DataIn THEN "in" ELSE "out"

msc_start_data_phase(w, d) ==
    usbh_edpt_xfer([w EXCEPT !.itf[d].stage = "data"], d, msc_data_ep(w, d), "data",
                   w.itf[d].tag)

msc_ready(w, d) ==
    /\ w.itf[d].mounted
    /\ w.itf[d].stage = "idle"
    /\ w.itf[d].recovery = "idle"
    /\ \A ep \in {"in", "out"} : ~w.hw[d][ep].busy

---------------------------------------------------------------------------
Rested(w, d) == [w EXCEPT !.itf[d].recovery = "idle"]

Clears(ep) == IF ep = "in" THEN "clear_in" ELSE "clear_out"

msc_recovery_clear(w, d, ep) ==
    LET v == [w EXCEPT !.itf[d].recovery = ep] IN
    IF w.ctrl # Quiet THEN Rested(w, d) ELSE control_xfer(v, d, ep, "recovery")

msc_recovery_start_clear_halts(w, d) == msc_recovery_clear(w, d, "clear_in")

\* Mutant: the last step does not end the recovery.
msc_recovery_xfer_cb_stays(w, d, ok) ==
    CASE w.itf[d].recovery = "reset" -> msc_recovery_clear(w, d, "clear_in")
      [] w.itf[d].recovery = "clear_in" -> msc_recovery_clear(w, d, "clear_out")
      [] OTHER -> w

msc_recovery_xfer_cb(w, d, ok) ==
    CASE w.itf[d].recovery = "reset" -> msc_recovery_clear(w, d, "clear_in")
      [] w.itf[d].recovery = "clear_in" -> msc_recovery_clear(w, d, "clear_out")
      [] w.itf[d].recovery = "clear_out" -> Rested(w, d)
      [] OTHER -> IF ok THEN Rested(w, d) ELSE msc_recovery_clear(w, d, "clear_in")

msc_start_recovery(w, d) ==
    LET v == [w EXCEPT !.itf[d].recovery = "reset"] IN
    IF ~w.itf[d].open \/ w.itf[d].recovery # "idle" THEN w
    ELSE IF w.ctrl # Quiet THEN msc_recovery_start_clear_halts(v, d)
    ELSE control_xfer(v, d, "reset", "recovery")

Fail(w, d) == msc_start_recovery(msc_complete_command(w, d, "failed"), d)

StartCsw(w, d, stage) ==
    usbh_edpt_xfer([w EXCEPT !.itf[d].stage = stage], d, "in", "csw", w.itf[d].tag)

msc_bot_clear_for_csw_cb(w, d, ok, retry) ==
    IF ~ok THEN Fail(w, d) ELSE StartCsw(w, d, IF retry THEN "retry" ELSE "status")

msc_cbi_adsc_complete(w, d, ok) ==
    IF ~ok THEN msc_complete_command(w, d, "failed")
    ELSE IF HasData(w.itf[d].op) THEN msc_start_data_phase(w, d)
    ELSE msc_complete_command(w, d, "passed")

(* Of the callbacks an abort of the control transfer runs, all but the one *)
(* of a CSW's endpoint return at once.                                     *)
msc_cancel_inflight(w, d) ==
    LET v == IF w.ctrl.d # d THEN w
             ELSE IF w.ctrl.cb \in {"csw", "csw again"}
             THEN msc_bot_clear_for_csw_cb(control_drop(w), d, FALSE, FALSE)
             ELSE control_drop(w) IN
    [edpt_abort(edpt_abort(v, d, "in"), d, "out") EXCEPT !.itf[d].stage = "idle"]

\* Mutant: what is in flight is left to end by itself.
msc_abort_leaves(w, d) ==
    IF ~w.itf[d].open \/ w.itf[d].recovery # "idle" \/ w.itf[d].stage = "idle" THEN w
    ELSE msc_start_recovery([w EXCEPT !.itf[d].stage = "idle"], d)

msc_abort(w, d) ==
    IF ~w.itf[d].open THEN w
    ELSE IF w.itf[d].recovery # "idle"
    THEN msc_start_recovery(Rested(msc_cancel_inflight(w, d), d), d)
    ELSE IF w.itf[d].stage = "idle" THEN w
    ELSE msc_start_recovery(msc_cancel_inflight(w, d), d)

(* The CBW goes out on the bulk pipe, a CBI command on the control pipe,   *)
(* which may be taken; then the caller tries again.                        *)
msc_scsi_submit(w, d, op, tag) ==
    LET old == Older(w, d, IF tag = "main" THEN {"main", "sense"} ELSE {"sense"})
        v == [old EXCEPT !.itf[d].op = op, !.itf[d].tag = tag,
                         !.itf[d].stage = "cmd"] IN
    IF w.itf[d].bot THEN usbh_edpt_xfer(v, d, "out", "cbw", tag)
    ELSE IF w.ctrl # Quiet THEN [v EXCEPT !.itf[d].stage = "idle"]
    ELSE control_xfer(v, d, "adsc", "adsc")

---------------------------------------------------------------------------
Sector(w, d, e) ==
    w.itf[d].op \in {"read", "write", "zero", "make"} /\ e.k = "data" /\ e.res = "ok" /\ e.whole

(* The data phase is over, or there was none.                              *)
msc_bot_data_cb(w, d, e) ==
    LET v == [w EXCEPT !.itf[d].xferred = Sector(w, d, e)]
        ep == msc_data_ep(w, d) IN
    IF e.ep # ep THEN w
    ELSE IF e.res = "fail" THEN Fail(v, d)
    ELSE IF e.res = "ok" THEN StartCsw(v, d, "status")
    ELSE IF v.ctrl # Quiet THEN Fail(v, d)
    ELSE control_xfer([v EXCEPT !.itf[d].stage = "status"], d, Clears(ep), "csw")

\* Mutant: any CSW will do.
CswIsOurs_any(w, d, e) == e.res = "ok" /\ e.whole /\ e.item.k = "csw"

CswIsOurs(w, d, e) ==
    e.res = "ok" /\ e.whole /\ e.item.k = "csw" /\ e.item.tag = w.itf[d].tag

msc_bot_status_cb(w, d, e) ==
    LET first == w.itf[d].stage = "status"
        v == [w EXCEPT !.itf[d].stage = "idle",
                       !.itf[d].csw = IF e.item.k = "csw" THEN e.item.val ELSE @] IN
    IF e.ep # "in" THEN w
    ELSE IF first /\ e.res = "ok" /\ e.k = "none" THEN StartCsw(w, d, "retry")
    ELSE IF first /\ e.res = "stall" THEN
        IF w.ctrl # Quiet THEN Fail(w, d)
        ELSE control_xfer([w EXCEPT !.itf[d].stage = "retry"], d, "clear_in",
                          "csw again")
    ELSE IF ~CswIsOurs(w, d, e) THEN Fail(v, d)
    ELSE IF e.item.val = "phase" THEN msc_start_recovery(v, d)
    ELSE v

msc_bot_xfer_cb(w, d, e) ==
    CASE w.itf[d].stage = "cmd" ->
            IF e.ep # "out" THEN w
            ELSE IF e.res # "ok" \/ e.k # "cbw" THEN Fail(w, d)
            ELSE IF HasData(w.itf[d].op) THEN msc_start_data_phase(w, d)
            ELSE msc_bot_data_cb(w, d, e)
      [] w.itf[d].stage = "data" -> msc_bot_data_cb(w, d, e)
      [] w.itf[d].stage \in {"status", "retry"} -> msc_bot_status_cb(w, d, e)
      [] OTHER -> w

msc_cbi_xfer_cb(w, d, e) ==
    LET v == msc_complete_command([w EXCEPT !.itf[d].xferred = Sector(w, d, e)], d,
                                  IF e.res = "ok" THEN "passed" ELSE "failed") IN
    IF w.itf[d].stage # "data" THEN w
    ELSE IF e.res = "stall" THEN msc_recovery_start_clear_halts(v, d) ELSE v

---------------------------------------------------------------------------
(* A slot: whose volume it is, what was learnt of it, and its FatFs object *)
(* with the medium that was mounted and the drive it reads, which is 0 in  *)
(* an object that was cleared.                                             *)
NoFs(v) == [medium |-> "none", pdrv |-> v]
FreeSlot == [status |-> "free", d |-> 0, removable |-> FALSE, sized |-> FALSE,
             wp |-> FALSE, lbpme |-> FALSE, unmap |-> FALSE, nosync |-> FALSE,
             sense |-> "none", recent |-> FALSE, fs |-> NoFs(0), listed |-> FALSE]

Min1(S) == CHOOSE x \in S : \A y \in S : x <= y

msc_mount_cb(w, d) ==
    LET free == {v \in Vols : w.pdrv[v].status = "free"}
        v == Min1(free) IN
    IF free = {} THEN w
    ELSE [w EXCEPT !.pdrv[v].status = "registered", !.pdrv[v].d = d,
                   !.pdrv[v].fs = NoFs(v), !.pdrv[v].listed = TRUE,
                   !.gen[v] = @ + 1]

msc_umount_cb(w, d) ==
    LET gone == {v \in Vols : w.pdrv[v].status # "free" /\ w.pdrv[v].d = d} IN
    [w EXCEPT !.pdrv = [v \in Vols |-> IF v \in gone THEN FreeSlot ELSE @[v]],
              !.gen = [v \in Vols |-> @[v] + IF v \in gone THEN 1 ELSE 0]]

msc_mounted_now(w, d) == msc_mount_cb([w EXCEPT !.itf[d].mounted = TRUE], d)

(* open and set_config, at the end of the enumeration.                     *)
msc_class_driver_set_config(w, d) ==
    LET v == [w EXCEPT !.itf[d] = [NoItf EXCEPT !.open = TRUE, !.bot = w.dev[d].bot]] IN
    IF ~v.itf[d].bot \/ v.ctrl # Quiet THEN msc_mounted_now(v, d)
    ELSE control_xfer(v, d, "max_lun", "max_lun")

(* The stack drops the control transfers of a device that is gone.         *)
msc_class_driver_close(w, d) ==
    LET v == Rested(msc_cancel_inflight(w, d), d)
        u == IF v.itf[d].mounted THEN msc_umount_cb(v, d) ELSE v
        x == [u EXCEPT !.itf[d] = NoItf, !.hw[d] = [in |-> NoXfer, out |-> NoXfer]] IN
    IF ~w.itf[d].open THEN w
    ELSE IF x.ctrl.d = d THEN control_drop(x) ELSE x

(* tuh_task: the first event of the queue.                                 *)
tuh_control_cb(w, d, cb, ok) ==
    CASE cb = "recovery" -> msc_recovery_xfer_cb(w, d, ok)
      [] cb = "csw" -> msc_bot_clear_for_csw_cb(w, d, ok, FALSE)
      [] cb = "csw again" -> msc_bot_clear_for_csw_cb(w, d, ok, TRUE)
      [] cb = "adsc" -> msc_cbi_adsc_complete(w, d, ok)
      [] cb = "max_lun" -> msc_mounted_now(w, d)

Delivered(w) ==
    LET e == Head(w.events)
        v == [w EXCEPT !.events = Tail(@)]
        u == [v EXCEPT !.hw[e.d][e.ep].busy = FALSE] IN
    CASE e.ep = "gone" -> msc_class_driver_close(v, e.d)
      [] e.ep = "ctl" ->
            tuh_control_cb([v EXCEPT !.ctrl = Quiet], e.d, w.ctrl.cb, e.res = "ok")
      [] OTHER -> IF ~w.itf[e.d].open THEN v
                  ELSE IF w.itf[e.d].bot THEN msc_bot_xfer_cb(u, e.d, e)
                  ELSE msc_cbi_xfer_cb(u, e.d, e)
=============================================================================
