------------------------------- MODULE Drives -------------------------------
(***************************************************************************)
(* The other half of the mass storage driver (ria/usb/msc.c): the waits    *)
(* that keep the tasks running, commands with their retries and autosense, *)
(* and the disk functions that FatFs calls; above them what FatFs          *)
(* (vendor/fatfs/ff.c) does with a volume and its object; below them the   *)
(* drives, which are pulled out, changed, late and wrong; and the steps of *)
(* a command on a whole drive.                                             *)
(***************************************************************************)
EXTENDS DiskCmd

CONSTANTS
    Kinds,     \* the drives there are: [bot, removable, wp, lbpme]
    Calls,     \* what FatFs and the monitor are asked for
    Budgets    \* how many calls, plugs, faults, unplugs ... there may be

ASSUME DrivesAssumption ==
    /\ Addrs \subseteq Nat \ {0} /\ 0 \in Vols /\ Vols \subseteq Nat
    /\ \A kind \in Kinds :
          /\ kind.bot \in BOOLEAN /\ kind.removable \in BOOLEAN
          /\ kind.wp \in BOOLEAN /\ kind.lbpme \in BOOLEAN
    /\ Calls \subseteq {"open", "read", "write", "show"} /\ Tracks \in Nat

VARIABLES
    itf,     \* msc_itf, with the CBW of msc_epbuf
    hw,      \* the transfer on each bulk endpoint
    ctrl,    \* the control transfer there is
    events,  \* completions that wait for tuh_task
    pdrv,    \* msc_pdrv
    gen,     \* msc_mount_gen
    dev,     \* the drives
    c,       \* the call that is being carried out, and where it is
    file,    \* the slot whose FatFs object the open file belongs to, or -1
    disk,    \* drive.c: the command on a whole drive
    last,    \* what the last disk_read or disk_write of a call came to
    budget   \* what is left of the bounds

vars == <<itf, hw, ctrl, events, pdrv, gen, dev, c, file, disk, last, budget>>

W == [itf |-> itf, hw |-> hw, ctrl |-> ctrl, events |-> events, pdrv |-> pdrv,
      gen |-> gen, dev |-> dev, c |-> c, file |-> file, disk |-> disk, last |-> last]

Become(w) ==
    /\ itf' = w.itf /\ hw' = w.hw /\ ctrl' = w.ctrl /\ events' = w.events
    /\ pdrv' = w.pdrv /\ gen' = w.gen /\ dev' = w.dev /\ c' = w.c /\ file' = w.file
    /\ disk' = w.disk /\ last' = w.last

NoCall == [pc |-> "idle", call |-> "none", v |-> 0, vol |-> 0, d |-> 0, job |-> "none",
           op |-> "none", attempt |-> 0, sense |-> FALSE, st |-> "none",
           got |-> Nothing, resp |-> Nothing, lucky |-> FALSE, full |-> FALSE]
NoIo == [ok |-> FALSE, lucky |-> FALSE, done |-> TRUE, same |-> TRUE, ghost |-> FALSE]

Plugged(kind, ua) ==
    [NoDrive EXCEPT !.here = TRUE, !.unit = kind.medium, !.bot = kind.bot,
                    !.removable = kind.removable, !.wp = kind.wp,
                    !.lbpme = kind.lbpme, !.medium = kind.medium, !.ua = ua]

(* What the variables hold.  What a transfer brought is kept as it came.   *)
Media == {kind.medium : kind \in Kinds} \cup {"none", "other", "blank", "made"}
Vals == Media \cup {"yes", "no", "lbpme", "plain", "meant", "another", "passed", "failed",
                    "phase", "residue", "ua28", "ua29", "absent", "error"}
Tags == {"none", "old", "main", "sense"}
Loads == {"none", "cbw", "csw", "data", "short"}
Requests == Calls \cup {"none", "info", "strings", "label", "mkfs", "raw"}
Jobs == {"none", "name", "raw", "file", "boot", "dir", "sync", "status", "inquiry", "tur",
         "tur again", "capacity", "wp", "probe"}
Places == {"none", "info", "try", "strings", "label", "asked", "again", "run", "mkfs",
           "name", "end"}
Ops == Requests \cup DataIn \cup DataOut \cup {"tur", "sync"}

Items == [k : Loads, tag : Tags, val : Vals]
Xfers == [busy : BOOLEAN, k : Loads, for : Tags]
Ctrls ==
    [d : Addrs \cup {0}, done : BOOLEAN,
     req : {"none", "reset", "clear_in", "clear_out", "max_lun", "adsc", "other"},
     cb : {"none", "recovery", "csw", "csw again", "adsc", "max_lun", "other"}]
Completions ==
    [d : Addrs, ep : {"in", "out", "ctl", "gone"}, res : {"ok", "stall", "fail"},
     item : Items, k : Loads, whole : BOOLEAN]
Devices ==
    [here : BOOLEAN, unit : Media, bot : BOOLEAN, removable : BOOLEAN, wp : BOOLEAN,
     lbpme : BOOLEAN, tag : Tags, inq : Seq(Items), want : BOOLEAN,
     halt : SUBSET {"in", "out"}, medium : Media, ua : Vals, sense : Vals]
Itfs ==
    [open : BOOLEAN, mounted : BOOLEAN, bot : BOOLEAN,
     stage : {"idle", "cmd", "data", "status", "retry"},
     recovery : {"idle", "reset", "clear_in", "clear_out"}, op : Ops, tag : Tags,
     xferred : BOOLEAN, cmdx : BOOLEAN, csw : Vals]
Slots ==
    [status : {"free", "registered", "mounted", "ejected"}, d : Addrs \cup {0},
     removable : BOOLEAN, sized : BOOLEAN, wp : BOOLEAN, lbpme : BOOLEAN, unmap : BOOLEAN,
     nosync : BOOLEAN, sense : Vals, recent : BOOLEAN, fs : [medium : Vals, pdrv : Vols],
     listed : BOOLEAN]
Callers ==
    [pc : {"idle", "enter", "submit", "wait", "ret"}, call : Requests, v : Vols, vol : Vols,
     d : Addrs \cup {0},
     job : Jobs,
     op : Ops, attempt : Nat, sense : BOOLEAN, st : Vals \cup {"timeout"}, got : Items,
     resp : Items, lucky : BOOLEAN, full : BOOLEAN]
Disks ==
    [k : {"none", "erase", "format", "verify"},
     at : Places, v : Vols, gen : Nat, left : Int, unit : Media, medium : Media]
Worlds ==
    [itf : [Addrs -> Itfs], hw : [Addrs -> [in : Xfers, out : Xfers]], ctrl : Ctrls,
     events : Seq(Completions), pdrv : [Vols -> Slots], gen : [Vols -> Nat],
     dev : [Addrs -> Devices], c : Callers, file : Vols \cup {-1}, disk : Disks,
     last : [ok : BOOLEAN, lucky : BOOLEAN, done : BOOLEAN, same : BOOLEAN,
             ghost : BOOLEAN]]

TypeOK == W \in Worlds

Init ==
    /\ itf = [d \in Addrs |-> NoItf]
    /\ hw = [d \in Addrs |-> [in |-> NoXfer, out |-> NoXfer]]
    /\ ctrl = Quiet /\ events = <<>>
    /\ pdrv = [v \in Vols |-> FreeSlot]
    /\ dev = [d \in Addrs |-> NoDrive]
    /\ gen = [v \in Vols |-> 0]
    /\ c = NoCall /\ file = -1 /\ disk = NoDisk /\ last = NoIo
    /\ budget \in Budgets

---------------------------------------------------------------------------
(* msc_scsi_command begins; without a device it returns at once.           *)
Start(w, job, op) ==
    LET d == w.pdrv[w.c.vol].d IN
    [w EXCEPT !.c = [@ EXCEPT !.job = job, !.op = op, !.d = d, !.attempt = 0,
                              !.sense = FALSE, !.lucky = FALSE, !.got = Nothing,
                              !.pc = IF d = 0 THEN "ret" ELSE "enter",
                              !.st = IF d = 0 THEN "failed" ELSE "none"]]

Returned(w, st) == [w EXCEPT !.c.pc = "ret", !.c.st = st]
Finished(w) == [w EXCEPT !.c = NoCall]

(* What msc_scsi_sync returned of the command goes on to its autosense.    *)
MainDone(w, st) ==
    LET v == [w EXCEPT !.itf[w.c.d].cmdx = w.itf[w.c.d].xferred] IN
    CASE st = "timeout" -> Returned(v, st)
      [] st = "phase" -> Returned([v EXCEPT !.pdrv[w.c.vol].sense = "none"], st)
      [] st = "passed" /\ w.itf[w.c.d].bot ->
            Returned([v EXCEPT !.pdrv[w.c.vol].recent = TRUE], st)
      [] OTHER -> [v EXCEPT !.c.sense = TRUE, !.c.pc = "enter", !.c.st = st,
                            !.c.resp = Nothing]

(* A medium that may have changed, "ua28", is not tried again.             *)
SenseDone(w, st, late) ==
    LET told == w.c.resp.k = "data"
        valid == st = "passed" \/ (st # "timeout" /\ told)
        sense == IF valid /\ told THEN w.c.resp.val ELSE "none"
        bot == w.itf[w.c.d].bot
        end == IF bot THEN w.c.st ELSE IF ~valid THEN "timeout"
               ELSE IF sense = "none" THEN "passed" ELSE "failed"
        p == w.pdrv[w.c.vol]
        v == [w EXCEPT !.c.lucky = ~bot /\ w.c.st = "failed",
                       !.pdrv[w.c.vol] =
                           [p EXCEPT !.sense = sense,
                                     !.recent = p.recent \/ (~bot /\ end = "passed")]] IN
    IF end = "failed" /\ sense = "ua29" /\ ~late /\ w.c.attempt < 2
    THEN [v EXCEPT !.c.attempt = @ + 1, !.c.sense = FALSE, !.c.pc = "enter"]
    ELSE Returned(v, end)

SyncDone(w, st, late) == IF w.c.sense THEN SenseDone(w, st, late) ELSE MainDone(w, st)

(* msc_scsi_sync: its first loop waits to submit, its second for the end.  *)
Entering(w) ==
    LET tag == IF w.c.sense THEN "sense" ELSE "main"
        v == msc_scsi_submit(w, w.c.d, IF w.c.sense THEN "sense" ELSE w.c.op, tag) IN
    [v EXCEPT !.c.pc = IF v.itf[w.c.d].stage = "idle" THEN "submit" ELSE "wait",
              !.c.got = IF w.c.sense THEN @ ELSE Retagged(@, {"main"})]

Status(w, d) == IF w.itf[d].csw = "residue" THEN "passed" ELSE w.itf[d].csw

Looked(w, late) ==
    LET d == w.c.d IN
    IF ~w.itf[d].mounted THEN SyncDone(w, "failed", late)
    ELSE IF w.c.pc = "wait" THEN SyncDone(w, Status(w, d), late)
    ELSE IF msc_ready(w, d) THEN Entering(w)
    ELSE [w EXCEPT !.c.pc = "submit"]

TimedOut(w, late) ==
    SyncDone(IF w.c.pc = "wait" THEN msc_abort(w, w.c.d) ELSE w, "timeout", late)

---------------------------------------------------------------------------
(* The disk functions and what FatFs makes of them; what comes last stands *)
(* first.  FatFs reads the drive its object names, not the one of the path.*)
disk_io(w, job, op) ==
    LET v == [w EXCEPT !.c.vol = w.pdrv[w.c.v].fs.pdrv] IN
    IF ~v.pdrv[v.c.vol].sized \/ (op = "write" /\ v.pdrv[v.c.vol].wp) THEN Finished(v)
    ELSE Start(v, job, op)

(* The same on the drive of a slot, past FatFs.                            *)
msc_drive_io(w, op) ==
    LET p == w.pdrv[w.c.vol] IN
    IF (op # "track" /\ ~p.sized) \/ (op # "read" /\ p.wp) THEN Finished(Stepped(w, FALSE))
    ELSE Start(w, "raw", op)

\* Mutant: a transfer of any length will do.
IoOk_any(w) == w.c.st = "passed"

IoOk(w) ==
    /\ w.c.st = "passed" /\ (w.itf[w.c.d].cmdx \/ w.c.op = "track")
    /\ ~(w.c.op # "read" /\ w.itf[w.c.d].bot /\ w.itf[w.c.d].csw = "residue")

(* The drive did what it was asked, for this command, with the medium that *)
(* was mounted, or for a mount with the device that was in the slot.       *)
Io(w) ==
    [ok |-> IoOk(w), lucky |-> w.c.lucky,
     done |-> w.c.got.k = "data" /\ w.c.got.tag = "main",
     same |-> IF w.c.job = "raw" THEN w.c.op = "read" \/ w.c.got.val = "meant"
              ELSE /\ w.c.d = w.pdrv[w.c.v].d
                   /\ w.c.job # "boot" => w.pdrv[w.c.v].fs.medium = w.c.got.val,
     ghost |-> w.pdrv[w.c.v].status # "free" /\ w.pdrv[w.c.v].d = 0]

disk_ioctl_sync(w) ==
    LET p == w.pdrv[w.c.vol] IN
    IF p.d = 0 \/ p.wp \/ p.nosync THEN Finished(w)
    ELSE IF ~w.itf[p.d].bot THEN Finished(w)
    ELSE Start(w, "sync", "sync")

IoDone(w) ==
    LET v == [w EXCEPT !.last = Io(w)]
        opened == IF w.c.call = "open" THEN w.c.v ELSE w.file IN
    IF w.c.job = "raw"
    THEN IF w.c.op = "make" /\ IoOk(w) THEN disk_ioctl_sync(Stepped(v, TRUE))
         ELSE Finished(Stepped(v, IoOk(w)))
    ELSE IF ~IoOk(w) THEN Finished(IF w.c.job = "file" THEN [v EXCEPT !.file = -1] ELSE v)
    ELSE CASE w.c.job = "boot" ->
                Finished(IF w.c.got.val = "blank" THEN v
                         ELSE [v EXCEPT !.pdrv[w.c.v].fs.medium = w.c.got.val,
                                        !.file = opened])
           [] w.c.job = "dir" -> Finished([v EXCEPT !.file = opened])
           [] OTHER -> IF w.c.op = "write" THEN disk_ioctl_sync(v) ELSE Finished(v)

(* f_mkfs with its drive initialised, to try (it would go on) or to do it. *)
MkfsReady(w) ==
    LET p == w.pdrv[w.c.vol]
        ok == p.status = "mounted" /\ ~p.wp IN
    IF w.disk.at = "mkfs" THEN IF ok THEN msc_drive_io(w, "make")
                               ELSE Finished(Stepped(w, FALSE))
    ELSE LET v == msc_drive_reenumerate(w) IN
         Finished(IF ok THEN [v EXCEPT !.disk.at = "strings"] ELSE Dropped(v))

(* disk_initialize, from its end to its beginning.                         *)
Initialized(w) ==
    CASE w.c.call = "show" -> Start(w, "name", "inquiry")
      [] w.c.call = "info" -> Finished(InfoDone(w, w.c.full))
      [] w.c.call = "strings" -> Finished(w)
      [] w.c.call = "mkfs" -> MkfsReady(w)
      [] OTHER -> IF w.pdrv[w.c.vol].status \in {"registered", "free"} THEN Finished(w)
                  ELSE disk_io(w, "boot", "read")

MarkMounted(w) == Initialized([w EXCEPT !.pdrv[w.c.vol].status = "mounted"])

ProbeDone(w) ==
    MarkMounted([w EXCEPT !.pdrv[w.c.vol].unmap =
                                w.c.st = "passed" /\ w.c.got.k = "data"])

(* Of a command that passed without an answer the byte is whatever it was. *)
WpDone(w, junk) ==
    LET wp == IF w.c.st # "passed" THEN w.pdrv[w.c.vol].wp
              ELSE IF w.c.got.k = "data" THEN w.c.got.val = "yes" ELSE junk
        v == [w EXCEPT !.pdrv[w.c.vol].wp = wp] IN
    IF ~wp /\ v.pdrv[w.c.vol].lbpme THEN Start(v, "probe", "probe") ELSE MarkMounted(v)

CapacityDone(w) ==
    IF w.c.st # "passed" \/ w.c.got.k # "data" THEN Initialized(w)
    ELSE Start([w EXCEPT !.pdrv[w.c.vol] =
                             [@ EXCEPT !.sized = TRUE,
                                       !.lbpme = w.c.got.val = "lbpme"]], "wp", "wp")

TurDone(w) ==
    LET p == w.pdrv[w.c.vol] IN
    IF w.c.st = "passed" THEN Start(w, "capacity", "capacity")
    ELSE IF w.c.job = "tur" /\ p.sense \in {"absent", "ua28"}
    THEN Start(w, "tur again", "tur")
    ELSE IF p.removable
    THEN Initialized([w EXCEPT !.pdrv[w.c.vol].status = "ejected"])
    ELSE Initialized(w)

InquiryDone(w) ==
    LET told == w.c.got.k = "data"
        ok == w.c.st = "passed"
              \/ (told /\ w.pdrv[w.c.vol].sense \in {"ua28", "ua29"}) IN
    IF ~ok THEN Initialized(w)
    ELSE Start([w EXCEPT !.pdrv[w.c.vol].removable = told /\ w.c.got.val = "yes"],
               "tur", "tur")

disk_initialize(w) ==
    CASE w.pdrv[w.c.vol].status = "registered" -> Start(w, "inquiry", "inquiry")
      [] w.pdrv[w.c.vol].status = "ejected" -> Start(w, "tur", "tur")
      [] OTHER -> Initialized(w)

mount_volume(w) ==
    disk_initialize([w EXCEPT !.pdrv[w.c.v].fs.medium = "none",
                              !.file = IF @ = w.c.v THEN -1 ELSE @])

(* disk_status                                                             *)
StatusKnown(w, init) ==
    CASE w.c.call \in {"show", "info", "strings"} ->
            IF init THEN Initialized(w) ELSE disk_initialize(w)
      [] w.c.call \in {"open", "label"} ->
            IF init THEN disk_io(w, "dir", "read") ELSE mount_volume(w)
      [] OTHER -> IF init THEN disk_io(w, "file", w.c.call) ELSE Finished(w)

\* Mutant: any failure but a missing medium leaves the volume as it was.
Ejected_absent(w) == w.c.st = "failed" /\ w.pdrv[w.c.vol].sense = "absent"

Ejected(w) == w.c.st = "failed" /\ w.pdrv[w.c.vol].sense \in {"absent", "ua28"}

StatusDone(w) ==
    IF Ejected(w)
    THEN StatusKnown([w EXCEPT !.pdrv[w.c.vol] =
             [@ EXCEPT !.status = "ejected", !.sized = FALSE, !.wp = FALSE,
                       !.sense = "none"]], FALSE)
    ELSE StatusKnown(w, w.pdrv[w.c.vol].status = "mounted")

disk_status(w) ==
    LET p == w.pdrv[w.c.vol] IN
    IF p.status # "mounted" THEN StatusKnown(w, FALSE)
    ELSE IF p.removable /\ ~p.recent THEN Start(w, "status", "tur")
    ELSE StatusKnown(w, TRUE)

Resumed(w, junk) ==
    CASE w.c.job = "status" -> StatusDone(w)
      [] w.c.job = "inquiry" -> InquiryDone(w)
      [] w.c.job \in {"tur", "tur again"} -> TurDone(w)
      [] w.c.job = "capacity" -> CapacityDone(w)
      [] w.c.job = "wp" -> WpDone(w, junk)
      [] w.c.job = "probe" -> ProbeDone(w)
      [] w.c.job = "name" -> IF w.c.call = "strings" /\ w.c.st = "passed"
                             THEN disk_status(w) ELSE Finished(w)
      [] w.c.job = "sync" ->
            Finished([w EXCEPT !.pdrv[w.c.vol].nosync =
                @ \/ (w.c.st = "failed" /\ w.pdrv[w.c.vol].sense = "error")])
      [] OTHER -> IoDone(w)

---------------------------------------------------------------------------
(* A call comes in while core 0 is in none: open of a path, read or write  *)
(* of the open file, or the monitor's list of drives.                      *)
Begin(call, v) ==
    LET p == pdrv[v]
        w == [W EXCEPT !.c = [NoCall EXCEPT !.call = call, !.v = v, !.pc = "ret",
                              !.vol = IF call = "show" THEN v ELSE p.fs.pdrv]] IN
    /\ c.pc = "idle" /\ disk = NoDisk
    /\ budget.calls > 0 /\ (call = "show" => budget.shows > 0)
    /\ CASE call = "open" -> p.listed
         [] call = "show" -> p.status # "free"
         [] OTHER -> file = v /\ p.fs.medium # "none"
    /\ Become(IF call = "open" /\ p.fs.medium = "none" THEN mount_volume(w)
              ELSE disk_status(w))
    /\ budget' = [budget EXCEPT !.calls = @ - 1,
                                !.shows = @ - IF call = "show" THEN 1 ELSE 0]

(* A command on a whole drive begins; no program runs, so no file is open. *)
Calling(w, call) ==
    [w EXCEPT !.c = [NoCall EXCEPT !.call = call, !.v = w.disk.v, !.vol = w.disk.v,
                                   !.pc = "ret"]]

DiskBegins(k, v) ==
    /\ c.pc = "idle" /\ disk = NoDisk /\ pdrv[v].status # "free"
    /\ k \in budget.disks
    /\ budget' = [budget EXCEPT !.disks = {}, !.calls = @ + budget.after]
    /\ Become(disk_status(Calling(
           [W EXCEPT !.file = -1, !.disk = [@ EXCEPT !.k = k, !.at = "info", !.v = v]],
           "info")))

DiskAt(at) == c.pc = "idle" /\ disk.at = at /\ UNCHANGED budget
Cleared(w) == [w EXCEPT !.pdrv[w.disk.v].fs.medium = "none"]

DiskTries == DiskAt("try") /\ Become(disk_initialize(Calling(Cleared(W), "mkfs")))

DiskShows ==
    /\ DiskAt("strings")
    /\ LET w == [W EXCEPT !.disk.at = "label"] IN
       Become(IF pdrv[disk.v].status = "free" THEN w
              ELSE Start(Calling(w, "strings"), "name", "inquiry"))

Label(w) ==
    LET p == w.pdrv[w.disk.v]
        v == [Calling(w, "label") EXCEPT !.c.vol = p.fs.pdrv] IN
    IF ~p.listed THEN w
    ELSE IF p.fs.medium = "none" THEN mount_volume(v) ELSE disk_status(v)

DiskLabels == DiskAt("label") /\ Become(Label(Shown(W)))

(* "full" was asked for with the command, and tells here.                  *)
DiskAnswered(yes, full) ==
    /\ DiskAt("asked") /\ (full => yes)
    /\ Become(IF ~yes THEN Dropped(W)
              ELSE disk_status([Calling([W EXCEPT !.disk.at = "again"], "info")
                                EXCEPT !.c.full = full]))

DiskRuns == DiskAt("run") /\ Become(msc_drive_io(Calling(W, "raw"), DiskOp(disk.k)))
DiskMakes == DiskAt("mkfs") /\ Become(disk_initialize(Calling(Cleared(W), "mkfs")))

DiskNames(label) ==
    /\ DiskAt("name")
    /\ LET w == [W EXCEPT !.disk.at = "end"] IN Become(IF label THEN Label(w) ELSE w)

DiskEnds == DiskAt("end") /\ Become(DiskDone(W))

(* Ctrl-C, and a break that does not come by the responder.                *)
DiskStops == DiskAt("run") /\ Become(DiskDone(W))

DiskBreaks ==
    /\ c.pc = "idle" /\ disk # NoDisk
    /\ budget.breaks > 0 /\ budget' = [budget EXCEPT !.breaks = @ - 1]
    /\ Become(Dropped(W))

Resume(junk) ==
    /\ c.pc = "ret"
    /\ Become(Resumed(W, junk))
    /\ UNCHANGED budget

Look(late) ==
    /\ \/ c.pc = "enter"
       \/ c.pc \in {"submit", "wait"} /\ (msc_ready(W, c.d) \/ ~itf[c.d].mounted)
    /\ Become(Looked(W, late))
    /\ UNCHANGED budget

---------------------------------------------------------------------------
Push(w, d, ep, res, item, whole) ==
    [w EXCEPT !.events = Append(@, [d |-> d, ep |-> ep, res |-> res, item |-> item,
                                    k |-> item.k, whole |-> whole])]
Ended(w, d, ep, res, item, whole) ==
    Push([w EXCEPT !.hw[d][ep].k = "none"], d, ep, res, item, whole)

Faulty == budget.faults > 0
FaultFree == UNCHANGED budget
AFault == Faulty /\ budget' = [budget EXCEPT !.faults = @ - 1]

TakesCbw(d) ==
    LET v == dev[d]
        cbw == Item("cbw", itf[d].tag, "none")
        Took(u) == Become(Ended([W EXCEPT !.dev[d] = u], d, "out", "ok", cbw, TRUE)) IN
    /\ v.here /\ hw[d].out.k = "cbw" /\ "out" \notin v.halt /\ ~v.want
    /\ \/ Took(Sound(v, itf[d].op, itf[d].tag)) /\ FaultFree
       \/ \E u \in Flawed(v, itf[d].op, itf[d].tag) : Took(u) /\ AFault

(* What a drive is told to keep, and what that makes of its medium.        *)
Written(v, op) ==
    IF op \notin Raw THEN v.medium
    ELSE IF v.unit = disk.unit /\ v.medium \in {disk.medium, "blank"} THEN "meant"
    ELSE "another"
Rewritten(medium, op) ==
    IF op \notin Raw \/ medium = "none" THEN medium
    ELSE IF op = "make" THEN "made" ELSE "blank"

TakesData(d) ==
    LET v == dev[d]
        kept == v.medium # "none"
        took == Item("data", hw[d].out.for, Written(v, itf[d].op))
        Ends(st) == [v EXCEPT !.want = FALSE, !.medium = Rewritten(@, itf[d].op),
                              !.sense = IF kept THEN "none" ELSE "absent",
                              !.inq = @ \o Csw(v, v.tag, st)]
        Took(u) == Become(Ended(IF kept THEN [u EXCEPT !.c.got = took] ELSE u,
                                d, "out", "ok", took, TRUE)) IN
    /\ v.here /\ hw[d].out.k = "data" /\ "out" \notin v.halt /\ v.want
    /\ \/ /\ FaultFree
          /\ Took([W EXCEPT !.dev[d] = Ends(IF kept THEN "passed" ELSE "failed")])
       \/ /\ v.bot /\ kept /\ AFault
          /\ Become(Ended([W EXCEPT !.dev[d] = Ends("residue")], d, "out", "ok", took,
                          TRUE))

(* An endpoint that is halted stalls; so does one that gets the one when   *)
(* it wants the other.                                                     *)
Stalls(d, ep) ==
    LET k == hw[d][ep].k
        mixed == ep = "out" /\ (dev[d].want # (k = "data")) IN
    /\ dev[d].here /\ k # "none"
    /\ ep \in dev[d].halt \/ mixed
    /\ Become(Ended([W EXCEPT !.dev[d].halt = @ \cup {ep}], d, ep, "stall", Nothing,
                    FALSE))
    /\ FaultFree

(* What lands in the caller's buffer is what the transfer was for.         *)
Landed(w, d, item) ==
    IF hw[d].in.k # "data" \/ item.k # "data" THEN w
    ELSE IF hw[d].in.for = "sense" THEN [w EXCEPT !.c.resp = item]
    ELSE [w EXCEPT !.c.got = item]

Sends(d) ==
    LET v == dev[d]
        item == Head(v.inq)
        w == [W EXCEPT !.dev[d].inq = Tail(@)] IN
    /\ v.here /\ hw[d].in.k # "none" /\ "in" \notin v.halt
    /\ \/ /\ v.inq # <<>> /\ FaultFree
          /\ Become(Ended(Landed(w, d, item), d, "in", "ok", item, item.k = hw[d].in.k))
       \/ /\ v.inq # <<>> /\ item.k = "data" /\ AFault
          /\ Become(Ended(w, d, "in", "ok", [item EXCEPT !.k = "short"], FALSE))
       \/ /\ hw[d].in.k = "csw" /\ AFault
          /\ Become(Ended(W, d, "in", "ok", Nothing, FALSE))

(* An error on the bus, or a transfer to a drive that is gone.             *)
Breaks(d, ep) ==
    /\ hw[d][ep].k # "none"
    /\ Become(Ended(W, d, ep, "fail", Nothing, FALSE))
    /\ IF dev[d].here THEN AFault ELSE FaultFree

(* The end of a control transfer, which a CBI command travels by.          *)
ControlEnds ==
    LET d == ctrl.d
        v == dev[d]
        Done(u, res) == Become(Push([W EXCEPT !.dev[d] = u, !.ctrl.done = TRUE],
                                    d, "ctl", res, Nothing, TRUE))
        blank == [v EXCEPT !.inq = <<>>, !.want = FALSE]
        sound == Sound(blank, itf[d].op, itf[d].tag) IN
    /\ ctrl.d # 0 /\ ~ctrl.done
    /\ \/ v.here /\ FaultFree /\
          CASE ctrl.req = "reset" -> Done(Reset(v), "ok")
            [] ctrl.req = "clear_in" -> Done([v EXCEPT !.halt = @ \ {"in"}], "ok")
            [] ctrl.req = "clear_out" -> Done([v EXCEPT !.halt = @ \ {"out"}], "ok")
            [] ctrl.req = "max_lun" -> \E res \in {"ok", "fail"} : Done(v, res)
            [] ctrl.req = "adsc" ->
                  \/ Done(sound, "ok")
                  \/ /\ sound.halt # blank.halt
                     /\ Done([sound EXCEPT !.halt = blank.halt], "fail")
       \/ v.here /\ AFault /\ ctrl.req = "adsc"
          /\ \E u \in Flawed(blank, itf[d].op, itf[d].tag) : Done(u, "ok")
       \/ Done(v, "fail") /\ IF v.here THEN AFault ELSE FaultFree

(* A control transfer of some other device takes the pipe for a while.     *)
OthersControl ==
    \/ /\ ctrl = Quiet /\ budget.taken > 0 /\ budget' = [budget EXCEPT !.taken = @ - 1]
       /\ Become(control_xfer(W, 0, "other", "other"))
    \/ ctrl.req = "other" /\ FaultFree /\ Become([W EXCEPT !.ctrl = Quiet])

(* A transfer that the drive will answer.                                  *)
Live(d, ep) ==
    /\ hw[d][ep].k # "none"
    /\ ~dev[d].here \/ ep = "out" \/ ep \in dev[d].halt \/ dev[d].inq # <<>>

Hardware ==
    \/ \E d \in Addrs : TakesCbw(d) \/ TakesData(d) \/ Sends(d)
                        \/ \E ep \in {"in", "out"} : Stalls(d, ep) \/ Breaks(d, ep)
    \/ ControlEnds
    \/ OthersControl

---------------------------------------------------------------------------
(* A drive pulled out while it is formatted: the command notices, with its *)
(* next look or step, before another drive is given the slot.              *)
MonitorFirst ==
    disk.k = "format" /\ disk.at \in {"run", "mkfs"} /\ pdrv[disk.v].status = "free"

(* The tasks run between calls, and inside the waits of one.               *)
Pump ==
    /\ ~MonitorFirst
    /\ c.pc \in {"idle", "submit", "wait"} /\ events # <<>>
    /\ Become(Delivered(W))
    /\ UNCHANGED budget

(* Early, as a fault; or when nothing more will come.                      *)
TimeOut(late) ==
    LET stuck == events = <<>> /\ ctrl = Quiet /\ ~msc_ready(W, c.d)
                 /\ \A ep \in {"in", "out"} : ~Live(c.d, ep) IN
    /\ c.pc \in {"submit", "wait"} /\ itf[c.d].mounted
    /\ c.pc = "wait" => ~msc_ready(W, c.d)
    /\ Become(TimedOut(W, late))
    /\ IF stuck THEN FaultFree ELSE AFault

TimePasses ==
    /\ c.pc = "idle" /\ \E v \in Vols : pdrv[v].recent
    /\ pdrv' = [v \in Vols |-> [pdrv[v] EXCEPT !.recent = FALSE]]
    /\ UNCHANGED <<itf, hw, ctrl, events, gen, dev, c, file, disk, last, budget>>

(* A drive is enumerated, at the first free address; not behind the back   *)
(* of a wait for the one before it there, which looks before there are     *)
(* tasks enough for that.                                                  *)
Plug(d, kind) ==
    /\ \A e \in Addrs : dev[e].here => dev[e].unit # kind.medium
    /\ \A e \in Addrs : e < d => dev[e].here \/ itf[e].open
    /\ ~dev[d].here /\ ~itf[d].open /\ ctrl = Quiet
    /\ \A i \in DOMAIN events : events[i].d # d
    /\ c.pc = "idle" \/ (c.pc \in {"submit", "wait"} /\ c.d # d)
    /\ ~MonitorFirst
    /\ budget.plugs > 0 /\ budget' = [budget EXCEPT !.plugs = @ - 1]
    /\ \E ua \in {"none", "ua29"} :
          Become(msc_class_driver_set_config(
                     [W EXCEPT !.dev[d] = Plugged(kind, ua)], d))

Yank(d) ==
    /\ dev[d].here /\ budget.yanks > 0
    /\ Become(Push([W EXCEPT !.dev[d] = NoDrive], d, "gone", "ok", Nothing, TRUE))
    /\ budget' = [budget EXCEPT !.yanks = @ - 1]

TakeMedium(d) ==
    /\ dev[d].here /\ dev[d].removable /\ dev[d].medium # "none" /\ budget.swaps > 0
    /\ dev' = [dev EXCEPT ![d].medium = "none"]
    /\ UNCHANGED <<itf, hw, ctrl, events, pdrv, gen, c, file, disk, last, budget>>

(* Changing a medium takes longer than MSC_DISK_STATUS_TIMEOUT_MS, and     *)
(* longer than a call.                                                     *)
PutMedium(d) ==
    /\ dev[d].here /\ dev[d].removable /\ dev[d].medium = "none" /\ budget.swaps > 0
    /\ c.pc = "idle" /\ \A v \in Vols : pdrv[v].d = d => ~pdrv[v].recent
    /\ dev' = [dev EXCEPT ![d].medium = "other", ![d].ua = "ua28"]
    /\ budget' = [budget EXCEPT !.swaps = @ - 1]
    /\ UNCHANGED <<itf, hw, ctrl, events, pdrv, gen, c, file, disk, last>>

Next ==
    \/ \E call \in Calls, v \in Vols : Begin(call, v)
    \/ \E k \in {"erase", "format", "verify"}, v \in Vols : DiskBegins(k, v)
    \/ DiskTries \/ DiskShows \/ DiskLabels \/ DiskRuns \/ DiskMakes \/ DiskEnds
    \/ \E yes, full \in BOOLEAN : DiskAnswered(yes, full)
    \/ \E label \in BOOLEAN : DiskNames(label)
    \/ DiskStops \/ DiskBreaks
    \/ \E junk \in BOOLEAN : Resume(junk)
    \/ \E late \in BOOLEAN : Look(late) \/ TimeOut(late)
    \/ Hardware \/ Pump \/ TimePasses
    \/ \E d \in Addrs : Yank(d) \/ TakeMedium(d) \/ PutMedium(d)
                        \/ \E kind \in Kinds : Plug(d, kind)

Spec == Init /\ [][Next]_vars

---------------------------------------------------------------------------
(* A read or a write that FatFs is told went well was carried out for that *)
(* very command: whatever was lost, late, short, refused or left over from *)
(* a command given up before it, no other transfer or status passes for it *)
(* (except one of CBI whose own command the drive never got, "lucky").     *)
PassedIsDone == last.ok /\ ~last.lucky => last.done

(* And it reached the drive whose volume the path names, with the medium   *)
(* FatFs mounted: a medium that was changed, or a drive in the place of    *)
(* another, is mounted again before anything is read from it or written.   *)
(* A command on a whole drive destroys what is on the drive that was shown *)
(* and the medium that was there when the answer came, and no other.       *)
(* "ghost" is the slot a mount goes on to fill after an unplug freed it.   *)
SameMedium == last.ok /\ ~last.lucky /\ ~last.ghost => last.same

(* A bulk transfer into or out of a caller's buffer is under way only      *)
(* while the command of that buffer is waited for: one that timed out has  *)
(* had its transfers taken back before its caller goes on.                 *)
NoLateWrite ==
    \A d \in Addrs, ep \in {"in", "out"} : hw[d][ep].k = "data" =>
        /\ c.pc = "wait" /\ c.d = d
        /\ hw[d][ep].for = IF c.sense THEN "sense" ELSE "main"

(* Whatever became of a command and of its recovery, when the control pipe *)
(* is free and nothing waits for tuh_task, every drive can be sent another *)
(* command: none waits for an end that nobody will report.                 *)
ReadyWhenStill ==
    c.pc = "idle" /\ events = <<>> /\ ctrl = Quiet =>
        \A d \in Addrs : itf[d].mounted => msc_ready(W, d)
=============================================================================
