------------------------------ MODULE DiskCmd ------------------------------
(***************************************************************************)
(* The monitor's commands on a whole drive (mon/drive.c): ERASE, FORMAT    *)
(* and VERIFY.  A command looks at the drive, shows it, asks, looks again  *)
(* and then goes over the drive, a step in each turn of the monitor.       *)
(***************************************************************************)
EXTENDS Msc

CONSTANTS Tracks   \* steps of an erasure, tracks of a floppy

(* at is where the command is; unit and medium (not in the code) are the   *)
(* drive that was shown and the medium there was at the second look.       *)
NoDisk == [k |-> "none", at |-> "none", v |-> 0, gen |-> 0, left |-> 0,
           unit |-> "none", medium |-> "none"]

Destroys(k) == k # "verify"

(* Of the slot get_info was asked about.                                   *)
Present(w) == LET p == w.pdrv[w.disk.v] IN p.d # 0 /\ p.status = "mounted" /\ p.sized

drive_validate(w) == Present(w) /\ (Destroys(w.disk.k) => ~w.pdrv[w.disk.v].wp)

\* Mutant: any drive that is in the slot will do.
drive_run_revalidate_any(w) == Present(w) /\ ~w.pdrv[w.disk.v].wp

drive_run_revalidate(w) ==
    /\ w.gen[w.disk.v] = w.disk.gen
    /\ Present(w) /\ ~w.pdrv[w.disk.v].wp

Dropped(w) == [w EXCEPT !.disk = NoDisk]

(* A floppy that is formatted in full is formatted track by track.         *)
Validated(w) ==
    IF ~drive_validate(w) THEN Dropped(w)
    ELSE LET v == w.disk.v IN
         [w EXCEPT !.disk.at = IF w.disk.k = "format" THEN "try" ELSE "strings",
                   !.disk.gen = w.gen[v], !.disk.left = Tracks,
                   !.disk.unit = w.dev[w.pdrv[v].d].unit]

Revalidated(w, full) ==
    LET d == w.pdrv[w.disk.v].d IN
    IF ~drive_run_revalidate(w) THEN Dropped(w)
    ELSE [w EXCEPT !.disk.at = IF w.disk.k = "format" /\ (w.itf[d].bot \/ ~full)
                               THEN "mkfs" ELSE "run",
                   !.disk.medium = w.dev[d].medium]

InfoDone(w, full) ==
    IF w.disk.at = "info" THEN Validated(w) ELSE Revalidated(w, full)

Shown(w) ==
    [w EXCEPT !.disk.at = IF Destroys(w.disk.k) THEN "asked" ELSE "run"]

msc_drive_reenumerate(w) ==
    LET v == w.disk.v IN
    IF w.pdrv[v].status = "free" THEN w
    ELSE [w EXCEPT !.pdrv[v] = [@ EXCEPT !.fs = NoFs(v), !.listed = TRUE],
                   !.file = IF @ = v THEN -1 ELSE @]

\* Mutant: FatFs keeps what it knew of the drive.
DiskDone_kept(w) == Dropped(w)

(* FatFs is to forget what it knew of the drive.                           *)
DiskDone(w) == Dropped(IF Destroys(w.disk.k) THEN msc_drive_reenumerate(w) ELSE w)

(* A step ends; a sector that cannot be read is counted.                   *)
Stepped(w, ok) ==
    LET v == [w EXCEPT !.disk.left = @ - 1] IN
    IF w.disk.at = "mkfs" THEN [w EXCEPT !.disk.at = IF ok THEN "name" ELSE "end"]
    ELSE IF Destroys(w.disk.k) /\ ~ok THEN DiskDone(w)
    ELSE IF v.disk.left # 0 THEN v
    ELSE [v EXCEPT !.disk.at = IF w.disk.k = "format" THEN "mkfs" ELSE "end"]

DiskOp(k) ==
    CASE k = "erase" -> "zero" [] k = "format" -> "track" [] OTHER -> "read"
=============================================================================
