------------------------------ MODULE DrivesProofs ------------------------------
(***************************************************************************)
(* Proofs about Drives: that every record keeps its type, that no transfer *)
(* into a caller's buffer outlives the wait for it, and that every drive   *)
(* can be sent another command once all is still.  The steps of Drives are *)
(* functions of the world W.  A handler of one device is Local to it; what *)
(* FatFs and the disk functions do is Above the transfers; what the drives *)
(* do to themselves is Aside.  Each handler takes a device from one of the *)
(* states Shut, Opening, Settled and Started to another (Device), and only *)
(* the device whose command is waited for is Started.                      *)
(***************************************************************************)
EXTENDS Drives, SequenceTheorems, WellFoundedInduction, TLAPS

USE DrivesAssumption

----------------------------------------------------------------------------
(* Changes of one part of the world.                                       *)
PutItf(w, d, x) == [w EXCEPT !.itf = [@ EXCEPT ![d] = x]]
PutHw(w, d, h) == [w EXCEPT !.hw = [@ EXCEPT ![d] = h]]
PutCtrl(w, k) == [w EXCEPT !.ctrl = k]
PutEvents(w, q) == [w EXCEPT !.events = q]
PutDev(w, d, v) == [w EXCEPT !.dev = [@ EXCEPT ![d] = v]]
PutSlot(w, v, p) == [w EXCEPT !.pdrv = [@ EXCEPT ![v] = p]]
PutC(w, k) == [w EXCEPT !.c = k]
PutDisk(w, k) == [w EXCEPT !.disk = k]
PutFile(w, f) == [w EXCEPT !.file = f]
PutLast(w, k) == [w EXCEPT !.last = k]

Hws == [in : Xfers, out : Xfers]

LEMMA PutItfIs ==
  ASSUME NEW w \in Worlds, NEW d \in Addrs, NEW x \in Itfs
  PROVE  LET v == PutItf(w, d, x) IN
         /\ v \in Worlds /\ v.itf[d] = x /\ \A e \in Addrs : e # d => v.itf[e] = w.itf[e]
         /\ v.hw = w.hw /\ v.ctrl = w.ctrl /\ v.events = w.events /\ v.pdrv = w.pdrv
         /\ v.gen = w.gen /\ v.dev = w.dev /\ v.c = w.c /\ v.file = w.file
         /\ v.disk = w.disk /\ v.last = w.last
BY DEF PutItf, Worlds

LEMMA PutHwIs ==
  ASSUME NEW w \in Worlds, NEW d \in Addrs, NEW h \in Hws
  PROVE  LET v == PutHw(w, d, h) IN
         /\ v \in Worlds /\ v.hw[d] = h /\ \A e \in Addrs : e # d => v.hw[e] = w.hw[e]
         /\ v.itf = w.itf /\ v.ctrl = w.ctrl /\ v.events = w.events /\ v.pdrv = w.pdrv
         /\ v.gen = w.gen /\ v.dev = w.dev /\ v.c = w.c /\ v.file = w.file
         /\ v.disk = w.disk /\ v.last = w.last
BY DEF PutHw, Worlds, Hws

LEMMA PutCtrlIs ==
  ASSUME NEW w \in Worlds, NEW k \in Ctrls
  PROVE  LET v == PutCtrl(w, k) IN
         /\ v \in Worlds /\ v.ctrl = k /\ v.itf = w.itf /\ v.hw = w.hw
         /\ v.events = w.events /\ v.pdrv = w.pdrv /\ v.gen = w.gen /\ v.dev = w.dev
         /\ v.c = w.c /\ v.file = w.file /\ v.disk = w.disk /\ v.last = w.last
BY DEF PutCtrl, Worlds

LEMMA PutEventsIs ==
  ASSUME NEW w \in Worlds, NEW q \in Seq(Completions)
  PROVE  LET v == PutEvents(w, q) IN
         /\ v \in Worlds /\ v.events = q /\ v.itf = w.itf /\ v.hw = w.hw
         /\ v.ctrl = w.ctrl /\ v.pdrv = w.pdrv /\ v.gen = w.gen /\ v.dev = w.dev
         /\ v.c = w.c /\ v.file = w.file /\ v.disk = w.disk /\ v.last = w.last
BY DEF PutEvents, Worlds

LEMMA PutDevIs ==
  ASSUME NEW w \in Worlds, NEW d \in Addrs, NEW x \in Devices
  PROVE  LET v == PutDev(w, d, x) IN
         /\ v \in Worlds /\ v.itf = w.itf /\ v.hw = w.hw /\ v.ctrl = w.ctrl
         /\ v.events = w.events /\ v.c = w.c /\ v.dev[d] = x
         /\ v.pdrv = w.pdrv /\ v.disk = w.disk
BY DEF PutDev, Worlds

LEMMA PutSlotIs ==
  ASSUME NEW w \in Worlds, NEW s \in Vols, NEW p \in Slots
  PROVE  LET v == PutSlot(w, s, p) IN
         /\ v \in Worlds /\ v.itf = w.itf /\ v.hw = w.hw /\ v.ctrl = w.ctrl
         /\ v.events = w.events /\ v.c = w.c /\ v.pdrv[s] = p /\ v.disk = w.disk
         /\ v.file = w.file /\ v.last = w.last /\ v.dev = w.dev
         /\ \A t \in Vols : t # s => v.pdrv[t] = w.pdrv[t]
BY DEF PutSlot, Worlds

LEMMA PutCIs ==
  ASSUME NEW w \in Worlds, NEW k \in Callers
  PROVE  LET v == PutC(w, k) IN
         /\ v \in Worlds /\ v.c = k /\ v.itf = w.itf /\ v.hw = w.hw /\ v.ctrl = w.ctrl
         /\ v.events = w.events /\ v.pdrv = w.pdrv /\ v.disk = w.disk /\ v.file = w.file
         /\ v.dev = w.dev
BY DEF PutC, Worlds

LEMMA PutDiskIs ==
  ASSUME NEW w \in Worlds, NEW k \in Disks
  PROVE  LET v == PutDisk(w, k) IN
         /\ v \in Worlds /\ v.disk = k /\ v.itf = w.itf /\ v.hw = w.hw /\ v.ctrl = w.ctrl
         /\ v.events = w.events /\ v.pdrv = w.pdrv /\ v.c = w.c /\ v.dev = w.dev
BY DEF PutDisk, Worlds

LEMMA PutFileIs ==
  ASSUME NEW w \in Worlds, NEW f \in Vols \cup {-1}
  PROVE  LET v == PutFile(w, f) IN
         /\ v \in Worlds /\ v.itf = w.itf /\ v.hw = w.hw /\ v.ctrl = w.ctrl
         /\ v.events = w.events /\ v.pdrv = w.pdrv /\ v.c = w.c /\ v.disk = w.disk
BY DEF PutFile, Worlds

LEMMA PutLastIs ==
  ASSUME NEW w \in Worlds,
         NEW k \in [ok : BOOLEAN, lucky : BOOLEAN, done : BOOLEAN, same : BOOLEAN,
                    ghost : BOOLEAN]
  PROVE  LET v == PutLast(w, k) IN
         /\ v \in Worlds /\ v.itf = w.itf /\ v.hw = w.hw /\ v.ctrl = w.ctrl
         /\ v.events = w.events /\ v.pdrv = w.pdrv /\ v.c = w.c /\ v.disk = w.disk
         /\ v.file = w.file
BY DEF PutLast, Worlds

LEMMA WorldParts ==
  ASSUME NEW w \in Worlds
  PROVE  /\ w.itf \in [Addrs -> Itfs] /\ w.hw \in [Addrs -> Hws] /\ w.ctrl \in Ctrls
         /\ w.events \in Seq(Completions) /\ w.pdrv \in [Vols -> Slots]
         /\ w.gen \in [Vols -> Nat] /\ w.dev \in [Addrs -> Devices] /\ w.c \in Callers
         /\ w.file \in Vols \cup {-1} /\ w.disk \in Disks
         /\ w.last \in [ok : BOOLEAN, lucky : BOOLEAN, done : BOOLEAN, same : BOOLEAN,
                        ghost : BOOLEAN]
BY DEF Worlds, Hws

----------------------------------------------------------------------------
(* What FatFs and the disk functions do leaves the transfers alone.        *)
Alike(x, y) ==
    /\ x.open = y.open /\ x.mounted = y.mounted /\ x.stage = y.stage
    /\ x.recovery = y.recovery /\ x.bot = y.bot /\ x.tag = y.tag

Above(w, v) ==
    /\ v \in Worlds /\ v.hw = w.hw /\ v.ctrl = w.ctrl /\ v.events = w.events
    /\ \A d \in Addrs : Alike(w.itf[d], v.itf[d])

Asks(k) == k.pc \in {"enter", "submit", "wait"} => k.d # 0

Back(w, v) == Above(w, v) /\ v.c.pc \in {"idle", "enter", "ret"} /\ Asks(v.c)

LEMMA AboveThrough ==
  ASSUME NEW w, NEW u, NEW v, Above(w, u), Above(u, v)
  PROVE  Above(w, v)
BY DEF Above, Alike

LEMMA BackThrough ==
  ASSUME NEW w, NEW u, NEW v, Above(w, u), Back(u, v)
  PROVE  Back(w, v)
BY AboveThrough DEF Back

LEMMA AboveSame ==
  ASSUME NEW w \in Worlds, NEW v \in Worlds, v.itf = w.itf, v.hw = w.hw, v.ctrl = w.ctrl,
         v.events = w.events
  PROVE  Above(w, v)
BY DEF Above, Alike

LEMMA PutCAbove ==
  ASSUME NEW w \in Worlds, NEW k \in Callers
  PROVE  Above(w, PutC(w, k)) /\ PutC(w, k).c = k
BY PutCIs, AboveSame

LEMMA PutSlotAbove ==
  ASSUME NEW w \in Worlds, NEW s \in Vols, NEW p \in Slots
  PROVE  Above(w, PutSlot(w, s, p)) /\ PutSlot(w, s, p).c = w.c
BY PutSlotIs, AboveSame

LEMMA ReturnedBack ==
  ASSUME NEW w \in Worlds, NEW st \in Vals \cup {"timeout"}
  PROVE  Back(w, Returned(w, st))
<1> DEFINE k == [w.c EXCEPT !.pc = "ret", !.st = st]
<1>1. Returned(w, st) = PutC(w, k)
  BY DEF Returned, PutC, Worlds, Callers
<1>0. w.c \in Callers
  BY WorldParts
<1>2. k \in Callers /\ k.pc = "ret"
  BY <1>0 DEF Callers
<1> HIDE DEF k
<1> QED
  BY <1>1, <1>2, PutCAbove DEF Back, Asks

LEMMA StartBack ==
  ASSUME NEW w \in Worlds, NEW job \in Jobs, NEW op \in Ops
  PROVE  Back(w, Start(w, job, op))
<1> DEFINE d == w.pdrv[w.c.vol].d
           pc == IF d = 0 THEN "ret" ELSE "enter"
           st == IF d = 0 THEN "failed" ELSE "none"
           k == [w.c EXCEPT !.job = job, !.op = op, !.d = d, !.attempt = 0,
                            !.sense = FALSE, !.lucky = FALSE, !.got = Nothing,
                            !.pc = pc, !.st = st]
<1>1. Start(w, job, op) = PutC(w, k)
  BY DEF Start, PutC
<1>0. w.c \in Callers /\ w.c.vol \in Vols
  BY WorldParts DEF Callers
<1>5. w.pdrv[w.c.vol] \in Slots
  BY <1>0, WorldParts
<1>2. d \in Addrs \cup {0}
  BY <1>5 DEF Slots
<1>3. Nothing \in Items
  BY DEF Nothing, Items, Item, Tags, Loads, Vals, Media
<1>6. "failed" \in Vals /\ "none" \in Vals
  BY DEF Vals, Media
<1>9. st \in Vals \cup {"timeout"} /\ pc \in {"ret", "enter"} /\ (pc = "enter" => d # 0)
  BY <1>6
<1> HIDE DEF d, pc, st
<1>4. k \in Callers /\ k.d = d /\ k.pc = pc
  BY <1>0, <1>2, <1>3, <1>9 DEF Callers
<1> HIDE DEF k
<1>7. Above(w, PutC(w, k)) /\ PutC(w, k).c = k
  BY <1>4, PutCAbove
<1>8. k.pc \in {"ret", "enter"} /\ Asks(k)
  BY <1>4, <1>9 DEF Asks
<1> QED
  BY <1>1, <1>7, <1>8 DEF Back
LEMMA FinishedBack ==
  ASSUME NEW w \in Worlds
  PROVE  Back(w, Finished(w))
<1>1. Finished(w) = PutC(w, NoCall)
  BY DEF Finished, PutC
<1>2. Nothing \in Items
  BY DEF Nothing, Items, Item, Tags, Loads, Vals, Media
<1>3. NoCall \in Callers /\ NoCall.pc = "idle"
  BY <1>2 DEF NoCall, Callers, Requests, Ops, Jobs, Vals, Media
<1> QED
  BY <1>1, <1>3, PutCAbove DEF Back, Asks

(* What a step of a command on a whole drive does beside.                  *)
Sets(w, v) == Above(w, v) /\ v.c = w.c

LEMMA SetsThrough ==
  ASSUME NEW w, NEW u, NEW v, Sets(w, u), Sets(u, v)
  PROVE  Sets(w, v)
BY AboveThrough DEF Sets

LEMMA SetsBack ==
  ASSUME NEW w, NEW u, NEW v, Sets(w, u), Back(u, v)
  PROVE  Back(w, v)
BY BackThrough DEF Sets

LEMMA SetsSame ==
  ASSUME NEW w \in Worlds
  PROVE  Sets(w, w)
BY AboveSame DEF Sets

LEMMA SetsDisk ==
  ASSUME NEW w \in Worlds, NEW k \in Disks
  PROVE  Sets(w, PutDisk(w, k))
BY PutDiskIs, AboveSame DEF Sets

LEMMA SetsSlot ==
  ASSUME NEW w \in Worlds, NEW s \in Vols, NEW p \in Slots
  PROVE  Sets(w, PutSlot(w, s, p))
BY PutSlotIs, AboveSame DEF Sets

LEMMA SetsFile ==
  ASSUME NEW w \in Worlds, NEW f \in Vols \cup {-1}
  PROVE  Sets(w, PutFile(w, f))
BY PutFileIs, AboveSame DEF Sets

LEMMA SetsWorlds ==
  ASSUME NEW w, NEW v, Sets(w, v)
  PROVE  v \in Worlds
BY DEF Sets, Above

LEMMA DroppedSets ==
  ASSUME NEW w \in Worlds
  PROVE  Sets(w, Dropped(w))
<1>1. NoDisk \in Disks
  BY DEF NoDisk, Disks, Media, Places
<1> QED
  BY <1>1, SetsDisk DEF Dropped, PutDisk

LEMMA DiskParts ==
  ASSUME NEW w \in Worlds
  PROVE  /\ w.disk \in Disks /\ w.disk.v \in Vols /\ w.pdrv[w.disk.v] \in Slots
         /\ w.gen[w.disk.v] \in Nat /\ w.disk.left \in Int
<1>1. w.disk \in Disks
  BY WorldParts
<1>2. w.disk.v \in Vols /\ w.disk.left \in Int
  BY <1>1 DEF Disks
<1> QED
  BY <1>1, <1>2, WorldParts

LEMMA PresentDrive ==
  ASSUME NEW w \in Worlds, Present(w)
  PROVE  LET d == w.pdrv[w.disk.v].d IN
         d \in Addrs /\ w.dev[d].unit \in Media /\ w.dev[d].medium \in Media
<1> DEFINE d == w.pdrv[w.disk.v].d
<1>1. d \in Addrs
  BY DiskParts DEF Present, Slots
<1>2. w.dev[d] \in Devices
  BY <1>1, WorldParts
<1> QED
  BY <1>1, <1>2 DEF Devices

LEMMA ValidatedSets ==
  ASSUME NEW w \in Worlds
  PROVE  Sets(w, Validated(w))
<1>1. CASE ~drive_validate(w)
  BY <1>1, DroppedSets DEF Validated
<1>2. CASE drive_validate(w)
  <2> DEFINE unit == w.dev[w.pdrv[w.disk.v].d].unit
             at == IF w.disk.k = "format" THEN "try" ELSE "strings"
             gen1 == w.gen[w.disk.v]
             k == [w.disk EXCEPT !.at = at, !.gen = gen1, !.left = Tracks, !.unit = unit]
  <2>1. Validated(w) = PutDisk(w, k)
    BY <1>2 DEF Validated, PutDisk, Worlds, Disks
  <2>2. unit \in Media /\ gen1 \in Nat /\ w.disk \in Disks /\ at \in Places
          /\ Tracks \in Int
    BY <1>2, PresentDrive, DiskParts DEF drive_validate, Places
  <2> HIDE DEF unit, gen1, at
  <2>3. k \in Disks
    BY <2>2 DEF Disks
  <2> HIDE DEF k
  <2> QED BY <2>1, <2>3, SetsDisk
<1> QED
  BY <1>1, <1>2

LEMMA RevalidatedSets ==
  ASSUME NEW w \in Worlds, NEW full
  PROVE  Sets(w, Revalidated(w, full))
<1>1. CASE ~drive_run_revalidate(w)
  BY <1>1, DroppedSets DEF Revalidated
<1>2. CASE drive_run_revalidate(w)
  <2> DEFINE d == w.pdrv[w.disk.v].d
             at == IF w.disk.k = "format" /\ (w.itf[d].bot \/ ~full) THEN "mkfs" ELSE "run"
             medium == w.dev[d].medium
             k == [w.disk EXCEPT !.at = at, !.medium = medium]
  <2>1. Revalidated(w, full) = PutDisk(w, k)
    BY <1>2 DEF Revalidated, PutDisk, Worlds, Disks
  <2>2. medium \in Media /\ w.disk \in Disks /\ at \in Places
    BY <1>2, PresentDrive, DiskParts DEF drive_run_revalidate, Places
  <2> HIDE DEF medium, at
  <2>3. k \in Disks
    BY <2>2 DEF Disks
  <2> HIDE DEF k
  <2> QED BY <2>1, <2>3, SetsDisk
<1> QED
  BY <1>1, <1>2

LEMMA InfoDoneSets ==
  ASSUME NEW w \in Worlds, NEW full
  PROVE  Sets(w, InfoDone(w, full))
BY ValidatedSets, RevalidatedSets DEF InfoDone

(* A command goes on to another place.                                     *)
LEMMA AtSets ==
  ASSUME NEW w \in Worlds, NEW at \in Places
  PROVE  Sets(w, [w EXCEPT !.disk.at = at])
<1> DEFINE k == [w.disk EXCEPT !.at = at]
<1>1. [w EXCEPT !.disk.at = at] = PutDisk(w, k)
  BY DEF PutDisk, Worlds, Disks
<1>2. k \in Disks
  BY DiskParts DEF Disks
<1> HIDE DEF k
<1> QED
  BY <1>1, <1>2, SetsDisk

LEMMA ShownSets ==
  ASSUME NEW w \in Worlds
  PROVE  Sets(w, Shown(w))
<1>1. CASE Destroys(w.disk.k)
  BY <1>1, AtSets DEF Shown, Places
<1>2. CASE ~Destroys(w.disk.k)
  BY <1>2, AtSets DEF Shown, Places
<1> QED
  BY <1>1, <1>2

LEMMA NoFsIs ==
  ASSUME NEW s \in Vols
  PROVE  NoFs(s) \in [medium : Vals, pdrv : Vols]
BY DEF NoFs, Vals, Media

LEMMA EnumeratedSets ==
  ASSUME NEW w \in Worlds
  PROVE  Sets(w, msc_drive_reenumerate(w))
<1>1. CASE w.pdrv[w.disk.v].status = "free"
  BY <1>1, SetsSame DEF msc_drive_reenumerate
<1>2. CASE w.pdrv[w.disk.v].status # "free"
  <2> DEFINE s == w.disk.v
             p == [w.pdrv[s] EXCEPT !.fs = NoFs(s), !.listed = TRUE]
             f == IF w.file = s THEN -1 ELSE w.file
             u == PutSlot(w, s, p)
  <2>0. s \in Vols /\ w.pdrv[s] \in Slots
    BY DiskParts
  <2>1. msc_drive_reenumerate(w) = PutFile(u, f)
    BY <1>2 DEF msc_drive_reenumerate, PutFile, PutSlot, Worlds
  <2>2. p \in Slots
    BY <2>0, NoFsIs DEF Slots
  <2>3. f \in Vols \cup {-1}
    BY WorldParts
  <2> HIDE DEF p, f
  <2>4. Sets(w, u)
    BY <2>2, DiskParts, SetsSlot
  <2> HIDE DEF u
  <2>5. Sets(u, PutFile(u, f))
    BY <2>3, <2>4, SetsWorlds, SetsFile
  <2> QED BY <2>1, <2>4, <2>5, SetsThrough
<1> QED
  BY <1>1, <1>2

LEMMA DiskDoneSets ==
  ASSUME NEW w \in Worlds
  PROVE  Sets(w, DiskDone(w))
<1>1. CASE Destroys(w.disk.k)
  <2> DEFINE u == msc_drive_reenumerate(w)
  <2>1. Sets(w, u)
    BY EnumeratedSets
  <2>2. DiskDone(w) = Dropped(u)
    BY <1>1 DEF DiskDone
  <2> HIDE DEF u
  <2>3. Sets(u, Dropped(u))
    BY <2>1, SetsWorlds, DroppedSets
  <2> QED BY <2>1, <2>2, <2>3, SetsThrough
<1>2. CASE ~Destroys(w.disk.k)
  BY <1>2, DroppedSets DEF DiskDone
<1> QED
  BY <1>1, <1>2

LEMMA SteppedSets ==
  ASSUME NEW w \in Worlds, NEW ok
  PROVE  Sets(w, Stepped(w, ok))
<1> DEFINE v == [w EXCEPT !.disk.left = @ - 1]
           k == [w.disk EXCEPT !.left = @ - 1]
<1>1. v = PutDisk(w, k)
  BY DEF PutDisk, Worlds, Disks
<1>2. k \in Disks
  BY DiskParts DEF Disks
<1>3. Sets(w, v)
  <2> HIDE DEF v, k
  <2> QED BY <1>1, <1>2, SetsDisk
<1>4. CASE w.disk.at = "mkfs"
  <2> DEFINE at == IF ok THEN "name" ELSE "end"
  <2>1. Stepped(w, ok) = [w EXCEPT !.disk.at = at]
    BY <1>4 DEF Stepped
  <2>2. at \in Places
    BY DEF Places
  <2> HIDE DEF at
  <2> QED BY <2>1, <2>2, AtSets
<1>5. CASE w.disk.at # "mkfs"
  <2> DEFINE at == IF w.disk.k = "format" THEN "mkfs" ELSE "end"
  <2>1. Stepped(w, ok) \in {DiskDone(w), [v EXCEPT !.disk.at = at], v}
    BY <1>5 DEF Stepped
  <2>2. at \in Places
    BY DEF Places
  <2> HIDE DEF v, at
  <2>3. Sets(v, [v EXCEPT !.disk.at = at])
    BY <1>3, <2>2, SetsWorlds, AtSets
  <2>4. Sets(w, [v EXCEPT !.disk.at = at])
    BY <1>3, <2>3, SetsThrough
  <2> QED BY <2>1, <1>3, <2>4, DiskDoneSets
<1> QED
  BY <1>4, <1>5

----------------------------------------------------------------------------
(* The queue of completions.                                               *)
Eps == {"in", "out"}

BulkOf(e, d) == e.d = d /\ e.ep \in Eps

Calm(q, d) == \A i \in DOMAIN q : ~BulkOf(q[i], d)

Lone(q, d, ep) ==
    \A i, j \in DOMAIN q : BulkOf(q[i], d) /\ BulkOf(q[j], d) => q[i].ep = ep /\ i = j

(* What is left of a transfer comes before the end of a control transfer.  *)
Early(q, d) ==
    \A i, j \in DOMAIN q : BulkOf(q[i], d) /\ q[j].ep = "ctl" => i < j

NoCtl(q) == \A i \in DOMAIN q : q[i].ep # "ctl"

OneCtl(q, d) ==
    \A i, j \in DOMAIN q : q[i].ep = "ctl" => q[i].d = d /\ (q[j].ep = "ctl" => i = j)

(* A queue that some have left, and in which some have another item.       *)
Leads(f, q, r) ==
    \A i, j \in DOMAIN r : (i < j => f[i] < f[j]) /\ r[i].d = q[f[i]].d /\ r[i].ep = q[f[i]].ep

Thinner(q, r) == \E f \in [DOMAIN r -> DOMAIN q] : Leads(f, q, r)

LEMMA QueueParts ==
  ASSUME NEW q \in Seq(Completions)
  PROVE  /\ DOMAIN q = 1..Len(q) /\ Len(q) \in Nat
         /\ \A i \in DOMAIN q : i \in Nat /\ q[i] \in Completions
OBVIOUS

LEMMA ThinnerKeeps ==
  ASSUME NEW q \in Seq(Completions), NEW r \in Seq(Completions), Thinner(q, r), NEW d, NEW ep
  PROVE  /\ Calm(q, d) => Calm(r, d)
         /\ Lone(q, d, ep) => Lone(r, d, ep)
         /\ Early(q, d) => Early(r, d)
         /\ NoCtl(q) => NoCtl(r)
         /\ OneCtl(q, d) => OneCtl(r, d)
<1>1. PICK f \in [DOMAIN r -> DOMAIN q] : Leads(f, q, r)
  BY DEF Thinner
<1>2. \A i \in DOMAIN r : f[i] \in DOMAIN q /\ i \in Nat /\ f[i] \in Nat
  BY <1>1, QueueParts
<1>3. \A i \in DOMAIN r : (BulkOf(r[i], d) <=> BulkOf(q[f[i]], d)) /\ r[i].ep = q[f[i]].ep
                          /\ r[i].d = q[f[i]].d
  BY <1>1 DEF Leads, BulkOf
<1>4. \A i, j \in DOMAIN r : i < j => f[i] < f[j]
  BY <1>1 DEF Leads
<1>5. \A i, j \in DOMAIN r : f[i] = f[j] => i = j
  BY <1>2, <1>4
<1>6. \A i, j \in DOMAIN r : f[i] < f[j] => i < j
  BY <1>2, <1>4
<1>7. Calm(q, d) => Calm(r, d)
  BY <1>2, <1>3 DEF Calm
<1>8. Lone(q, d, ep) => Lone(r, d, ep)
  BY <1>2, <1>3, <1>5 DEF Lone
<1>9. Early(q, d) => Early(r, d)
  BY <1>2, <1>3, <1>6 DEF Early
<1>10. NoCtl(q) => NoCtl(r)
  BY <1>2, <1>3 DEF NoCtl
<1>11. OneCtl(q, d) => OneCtl(r, d)
  <2> SUFFICES ASSUME OneCtl(q, d), NEW i \in DOMAIN r, NEW j \in DOMAIN r, r[i].ep = "ctl"
               PROVE  r[i].d = d /\ (r[j].ep = "ctl" => i = j)
    BY DEF OneCtl
  <2>1. f[i] \in DOMAIN q /\ f[j] \in DOMAIN q /\ q[f[i]].ep = "ctl" /\ r[i].d = q[f[i]].d
          /\ r[j].ep = q[f[j]].ep
    BY <1>2, <1>3
  <2>2. q[f[i]].d = d /\ (q[f[j]].ep = "ctl" => f[i] = f[j])
    BY <2>1 DEF OneCtl
  <2> QED BY <2>1, <2>2, <1>5
<1> QED
  BY <1>7, <1>8, <1>9, <1>10, <1>11

LEMMA ThinnerThrough ==
  ASSUME NEW q, NEW r, NEW s, Thinner(q, r), Thinner(r, s)
  PROVE  Thinner(q, s)
<1>1. PICK f \in [DOMAIN r -> DOMAIN q] : Leads(f, q, r)
  BY DEF Thinner
<1>2. PICK g \in [DOMAIN s -> DOMAIN r] : Leads(g, r, s)
  BY DEF Thinner
<1> DEFINE h == [i \in DOMAIN s |-> f[g[i]]]
<1>3. h \in [DOMAIN s -> DOMAIN q]
  OBVIOUS
<1>4. Leads(h, q, s)
  BY <1>1, <1>2 DEF Leads
<1> QED
  BY <1>3, <1>4 DEF Thinner

LEMMA ThinnerSame ==
  ASSUME NEW q
  PROVE  Thinner(q, q)
<1> DEFINE f == [i \in DOMAIN q |-> i]
<1>1. f \in [DOMAIN q -> DOMAIN q] /\ Leads(f, q, q)
  BY DEF Leads
<1> QED
  BY <1>1 DEF Thinner

(* The first is taken from the queue.                                      *)
LEMMA TailParts ==
  ASSUME NEW q \in Seq(Completions), q # <<>>
  PROVE  /\ Tail(q) \in Seq(Completions) /\ Head(q) \in Completions /\ Head(q) = q[1]
         /\ 1 \in DOMAIN q
         /\ \A i \in DOMAIN Tail(q) : i + 1 \in DOMAIN q /\ i + 1 # 1 /\ i \in Nat
                                      /\ Tail(q)[i] = q[i + 1]
BY HeadTailProperties

LEMMA TailThinner ==
  ASSUME NEW q \in Seq(Completions), q # <<>>
  PROVE  Thinner(q, Tail(q))
<1> DEFINE f == [i \in DOMAIN Tail(q) |-> i + 1]
<1>1. f \in [DOMAIN Tail(q) -> DOMAIN q]
  BY TailParts
<1>2. Leads(f, q, Tail(q))
  BY TailParts DEF Leads
<1> QED
  BY <1>1, <1>2 DEF Thinner

LEMMA TailOf ==
  ASSUME NEW q \in Seq(Completions), q # <<>>, NEW d, NEW ep
  PROVE  /\ BulkOf(Head(q), d) /\ Lone(q, d, ep) => Calm(Tail(q), d) /\ Head(q).ep = ep
         /\ Head(q).ep = "ctl" /\ Early(q, d) => Calm(Tail(q), d)
         /\ Head(q).ep = "ctl" /\ OneCtl(q, d) => NoCtl(Tail(q)) /\ Head(q).d = d
         /\ Calm(q, d) => ~BulkOf(Head(q), d)
         /\ NoCtl(q) => Head(q).ep # "ctl"
<1>1. BulkOf(Head(q), d) /\ Lone(q, d, ep) => Calm(Tail(q), d) /\ Head(q).ep = ep
  BY TailParts DEF Calm, Lone
<1>2. Head(q).ep = "ctl" /\ Early(q, d) => Calm(Tail(q), d)
  <2> SUFFICES ASSUME Head(q).ep = "ctl", Early(q, d), NEW i \in DOMAIN Tail(q),
                      BulkOf(Tail(q)[i], d)
               PROVE  FALSE
    BY DEF Calm
  <2>1. i + 1 \in DOMAIN q /\ BulkOf(q[i + 1], d) /\ q[1].ep = "ctl" /\ 1 \in DOMAIN q
          /\ i \in Nat /\ i + 1 # 1
    BY TailParts
  <2>2. i + 1 < 1
    BY <2>1 DEF Early
  <2> QED BY <2>1, <2>2
<1>3. Head(q).ep = "ctl" /\ OneCtl(q, d) => NoCtl(Tail(q)) /\ Head(q).d = d
  BY TailParts DEF NoCtl, OneCtl
<1>4. (Calm(q, d) => ~BulkOf(Head(q), d)) /\ (NoCtl(q) => Head(q).ep # "ctl")
  BY TailParts DEF Calm, NoCtl
<1> QED
  BY <1>1, <1>2, <1>3, <1>4

(* One is taken out of the queue.                                          *)
LEMMA RemoveAtIs ==
  ASSUME NEW S, NEW q \in Seq(S), NEW i \in 1..Len(q)
  PROVE  /\ RemoveAt(q, i) \in Seq(S) /\ Len(RemoveAt(q, i)) = Len(q) - 1
         /\ \A j \in 1..(Len(q) - 1) : RemoveAt(q, i)[j] = IF j < i THEN q[j] ELSE q[j + 1]
<1> DEFINE a == SubSeq(q, 1, i - 1)  b == SubSeq(q, i + 1, Len(q))
<1>1. /\ a \in Seq(S) /\ b \in Seq(S) /\ Len(a) = i - 1 /\ Len(b) = Len(q) - i
      /\ (\A j \in 1..(i - 1) : a[j] = q[j])
      /\ (\A j \in 1..(Len(q) - i) : b[j] = q[i + j])
  OBVIOUS
<1>2. RemoveAt(q, i) = a \o b
  BY DEF RemoveAt
<1> HIDE DEF a, b
<1>3. /\ a \o b \in Seq(S) /\ Len(a \o b) = Len(a) + Len(b)
      /\ \A j \in 1..(Len(a) + Len(b)) :
            (a \o b)[j] = IF j <= Len(a) THEN a[j] ELSE b[j - Len(a)]
  <2>1. a \in Seq(S) /\ b \in Seq(S)
    BY <1>1
  <2> QED BY <2>1, ConcatProperties
<1>4. Len(a) + Len(b) = Len(q) - 1
  BY <1>1
<1>5. ASSUME NEW j \in 1..(Len(q) - 1)
      PROVE  (a \o b)[j] = IF j < i THEN q[j] ELSE q[j + 1]
  <2>1. (a \o b)[j] = IF j <= i - 1 THEN a[j] ELSE b[j - (i - 1)]
    BY <1>1, <1>3, <1>4
  <2>2. CASE j < i
    BY <2>1, <2>2, <1>1
  <2>3. CASE ~(j < i)
    <3>1. (a \o b)[j] = b[j - (i - 1)]
      BY <2>1, <2>3
    <3>2. j - (i - 1) \in 1..(Len(q) - i) /\ i + (j - (i - 1)) = j + 1
      BY <2>3
    <3> QED BY <3>1, <3>2, <2>3, <1>1
  <2> QED BY <2>2, <2>3
<1> QED BY <1>2, <1>3, <1>4, <1>5

LEMMA WithoutThinner ==
  ASSUME NEW q \in Seq(Completions)
  PROVE  LET r == Without(q, "ctl") IN
         /\ r \in Seq(Completions) /\ Thinner(q, r)
         /\ \A d : OneCtl(q, d) => NoCtl(r)
<1>1. CASE ~ \E i \in 1..Len(q) : q[i].ep = "ctl"
  <2>1. Without(q, "ctl") = q
    BY <1>1 DEF Without
  <2>2. NoCtl(q)
    BY <1>1, QueueParts DEF NoCtl
  <2> QED BY <2>1, <2>2, ThinnerSame
<1>2. CASE \E i \in 1..Len(q) : q[i].ep = "ctl"
  <2> DEFINE k == CHOOSE i \in 1..Len(q) : q[i].ep = "ctl"
             r == RemoveAt(q, k)
             f == [j \in DOMAIN r |-> IF j < k THEN j ELSE j + 1]
  <2>1. k \in 1..Len(q) /\ q[k].ep = "ctl"
    BY <1>2
  <2>2. Without(q, "ctl") = r
    BY <1>2 DEF Without
  <2> HIDE DEF k
  <2>3. /\ r \in Seq(Completions) /\ Len(r) = Len(q) - 1
        /\ \A j \in 1..(Len(q) - 1) : r[j] = IF j < k THEN q[j] ELSE q[j + 1]
    BY <2>1, RemoveAtIs
  <2> HIDE DEF r
  <2>4. DOMAIN r = 1..(Len(q) - 1) /\ DOMAIN q = 1..Len(q) /\ Len(q) \in Nat
    BY <2>3
  <2>5. \A j \in DOMAIN r : f[j] \in DOMAIN q /\ r[j] = q[f[j]] /\ f[j] # k
    BY <2>1, <2>3, <2>4
  <2>6. \A i, j \in DOMAIN r : i < j => f[i] < f[j]
    BY <2>1, <2>4
  <2>7. f \in [DOMAIN r -> DOMAIN q]
    BY <2>5
  <2> HIDE DEF f
  <2>8. Leads(f, q, r)
    BY <2>5, <2>6 DEF Leads
  <2>9. \A d : OneCtl(q, d) => NoCtl(r)
    BY <2>1, <2>4, <2>5 DEF OneCtl, NoCtl
  <2> QED BY <2>2, <2>3, <2>7, <2>8, <2>9 DEF Thinner
<1> QED
  BY <1>1, <1>2

(* One comes to the queue.                                                 *)
LEMMA AppendOf ==
  ASSUME NEW q \in Seq(Completions), NEW e \in Completions, NEW d, NEW ep
  PROVE  LET r == Append(q, e) IN
         /\ r \in Seq(Completions)
         /\ Calm(q, d) /\ ~BulkOf(e, d) => Calm(r, d)
         /\ Calm(q, d) /\ e.ep = ep => Lone(r, d, ep)
         /\ Lone(q, d, ep) /\ ~BulkOf(e, d) => Lone(r, d, ep)
         /\ Early(q, d) /\ ~BulkOf(e, d) => Early(r, d)
         /\ NoCtl(q) /\ e.ep # "ctl" => NoCtl(r)
         /\ NoCtl(q) /\ e.d = d => OneCtl(r, d)
         /\ OneCtl(q, d) /\ e.ep # "ctl" => OneCtl(r, d)
<1> DEFINE r == Append(q, e)
<1>1. /\ r \in Seq(Completions) /\ DOMAIN r = 1..(Len(q) + 1) /\ DOMAIN q = 1..Len(q)
      /\ Len(q) \in Nat /\ r[Len(q) + 1] = e /\ \A i \in 1..Len(q) : r[i] = q[i]
  OBVIOUS
<1> HIDE DEF r
<1>2. /\ \A i \in DOMAIN r : i \in DOMAIN q \/ i = Len(q) + 1
      /\ \A i \in DOMAIN q : r[i] = q[i] /\ i < Len(q) + 1
      /\ r[Len(q) + 1] = e
  BY <1>1
<1>3. Calm(q, d) /\ ~BulkOf(e, d) => Calm(r, d)
  BY <1>2 DEF Calm
<1>4. Calm(q, d) /\ e.ep = ep => Lone(r, d, ep)
  BY <1>2 DEF Calm, Lone
<1>5. Lone(q, d, ep) /\ ~BulkOf(e, d) => Lone(r, d, ep)
  BY <1>2 DEF Lone
<1>6. Early(q, d) /\ ~BulkOf(e, d) => Early(r, d)
  BY <1>2 DEF Early
<1>7. (NoCtl(q) /\ e.ep # "ctl" => NoCtl(r)) /\ (NoCtl(q) /\ e.d = d => OneCtl(r, d))
  BY <1>2 DEF NoCtl, OneCtl
<1>8. OneCtl(q, d) /\ e.ep # "ctl" => OneCtl(r, d)
  BY <1>2 DEF OneCtl
<1> QED
  BY <1>1, <1>3, <1>4, <1>5, <1>6, <1>7, <1>8 DEF r

----------------------------------------------------------------------------
(* The control pipe and what of the world a handler of a device touches.   *)
Reqs == {"reset", "clear_in", "clear_out", "max_lun", "adsc"}
Cbs == {"recovery", "csw", "csw again", "adsc", "max_lun"}

Pipe(w) ==
    /\ w.ctrl.d # 0 => w.ctrl.req \in Reqs /\ w.ctrl.cb \in Cbs
    /\ IF w.ctrl.d # 0 /\ w.ctrl.done THEN OneCtl(w.events, w.ctrl.d) ELSE NoCtl(w.events)

Base(w) == w \in Worlds /\ Pipe(w)

Mine(k, d) == k = Quiet \/ k.d = d

Apart(w, v, d) ==
    \A e \in Addrs : e # d => v.itf[e] = w.itf[e] /\ v.hw[e] = w.hw[e]

Local(w, v, d) ==
    /\ Base(v) /\ v.c = w.c /\ Apart(w, v, d) /\ Thinner(w.events, v.events)
    /\ v.ctrl = w.ctrl \/ (Mine(w.ctrl, d) /\ Mine(v.ctrl, d))

LEMMA LocalThrough ==
  ASSUME NEW w, NEW u, NEW v, NEW d, Local(w, u, d), Local(u, v, d)
  PROVE  Local(w, v, d)
<1>1. Thinner(w.events, v.events)
  BY ThinnerThrough DEF Local
<1>2. Apart(w, v, d)
  BY DEF Local, Apart
<1> QED
  BY <1>1, <1>2 DEF Local

LEMMA LocalSame ==
  ASSUME NEW w, NEW d, Base(w)
  PROVE  Local(w, w, d)
<1>1. Thinner(w.events, w.events)
  BY ThinnerSame
<1> QED
  BY <1>1 DEF Local, Apart, Mine

LEMMA DeviceParts ==
  ASSUME NEW w \in Worlds, NEW d \in Addrs
  PROVE  w.itf[d] \in Itfs /\ w.hw[d] \in Hws /\ w.dev[d] \in Devices
BY WorldParts

LEMMA PipeSame ==
  ASSUME NEW w, NEW v, Pipe(w), v.ctrl = w.ctrl, v.events = w.events
  PROVE  Pipe(v)
BY DEF Pipe

LEMMA ItfLocal ==
  ASSUME NEW w, Base(w), NEW d \in Addrs, NEW x \in Itfs
  PROVE  LET v == PutItf(w, d, x) IN
         /\ Local(w, v, d) /\ Base(v) /\ v.itf[d] = x /\ v.hw = w.hw /\ v.ctrl = w.ctrl
         /\ v.events = w.events
<1> DEFINE v == PutItf(w, d, x)
<1>1. w \in Worlds /\ Pipe(w)
  BY DEF Base
<1>2. /\ v \in Worlds /\ v.itf[d] = x /\ \A e \in Addrs : e # d => v.itf[e] = w.itf[e]
      /\ v.hw = w.hw /\ v.ctrl = w.ctrl /\ v.events = w.events /\ v.c = w.c
  BY <1>1, PutItfIs
<1> HIDE DEF v
<1>3. Pipe(v)
  BY <1>1, <1>2, PipeSame
<1>4. Thinner(w.events, v.events)
  BY <1>2, ThinnerSame
<1>5. Local(w, v, d)
  BY <1>2, <1>3, <1>4 DEF Local, Apart, Base, Mine
<1>6. Base(v)
  BY <1>5 DEF Local
<1> QED
  BY <1>2, <1>5, <1>6 DEF v

LEMMA HwLocal ==
  ASSUME NEW w, Base(w), NEW d \in Addrs, NEW h \in Hws
  PROVE  LET v == PutHw(w, d, h) IN
         /\ Local(w, v, d) /\ Base(v) /\ v.hw[d] = h /\ v.itf = w.itf /\ v.ctrl = w.ctrl
         /\ v.events = w.events
<1> DEFINE v == PutHw(w, d, h)
<1>1. w \in Worlds /\ Pipe(w)
  BY DEF Base
<1>2. /\ v \in Worlds /\ v.hw[d] = h /\ \A e \in Addrs : e # d => v.hw[e] = w.hw[e]
      /\ v.itf = w.itf /\ v.ctrl = w.ctrl /\ v.events = w.events /\ v.c = w.c
  BY <1>1, PutHwIs
<1> HIDE DEF v
<1>3. Pipe(v)
  BY <1>1, <1>2, PipeSame
<1>4. Thinner(w.events, v.events)
  BY <1>2, ThinnerSame
<1>5. Local(w, v, d)
  BY <1>2, <1>3, <1>4 DEF Local, Apart, Base, Mine
<1>6. Base(v)
  BY <1>5 DEF Local
<1> QED
  BY <1>2, <1>5, <1>6 DEF v

LEMMA QuietIs ==
  Quiet \in Ctrls /\ Quiet.d = 0
BY DEF Quiet, Ctrls

LEMMA QuietNoCtl ==
  ASSUME NEW w, Base(w), w.ctrl = Quiet \/ w.ctrl.d = 0
  PROVE  NoCtl(w.events)
BY QuietIs DEF Base, Pipe

(* A control transfer begins, and one is dropped.                          *)
LEMMA AskLocal ==
  ASSUME NEW w, Base(w), NEW d \in Addrs, NEW req \in Reqs, NEW cb \in Cbs,
         w.ctrl = Quiet
  PROVE  LET v == control_xfer(w, d, req, cb) IN
         /\ Local(w, v, d) /\ Base(v) /\ v.itf = w.itf /\ v.hw = w.hw /\ v.ctrl.d = d
         /\ v.events = w.events /\ v.ctrl.cb = cb /\ NoCtl(v.events)
<1> DEFINE k == [d |-> d, req |-> req, cb |-> cb, done |-> FALSE]
           v == PutCtrl(w, k)
<1>1. w \in Worlds /\ Pipe(w)
  BY DEF Base
<1>2. control_xfer(w, d, req, cb) = v
  BY DEF control_xfer, PutCtrl
<1>3. k \in Ctrls /\ k.d = d /\ k.req \in Reqs /\ k.cb = cb /\ k.cb \in Cbs /\ ~k.done
  BY DEF Ctrls, Reqs, Cbs
<1> HIDE DEF k
<1>4. /\ v \in Worlds /\ v.ctrl = k /\ v.itf = w.itf /\ v.hw = w.hw
      /\ v.events = w.events /\ v.c = w.c
  BY <1>1, <1>3, PutCtrlIs
<1> HIDE DEF v
<1>5. NoCtl(v.events)
  BY <1>4, QuietNoCtl
<1>6. Pipe(v)
  BY <1>3, <1>4, <1>5 DEF Pipe
<1>7. Local(w, v, d)
  BY <1>3, <1>4, <1>6, ThinnerSame DEF Local, Apart, Base, Mine
<1> QED
  BY <1>2, <1>3, <1>4, <1>5, <1>7 DEF Local

LEMMA DropLocal ==
  ASSUME NEW w, Base(w), NEW d \in Addrs, w.ctrl.d = d
  PROVE  LET v == control_drop(w) IN
         /\ Local(w, v, d) /\ Base(v) /\ v.itf = w.itf /\ v.hw = w.hw /\ v.ctrl = Quiet
         /\ NoCtl(v.events)
<1> DEFINE q == Without(w.events, "ctl")
           u == PutCtrl(w, Quiet)
           v == PutEvents(u, q)
<1>1. w \in Worlds /\ Pipe(w) /\ w.events \in Seq(Completions) /\ d # 0
  BY WorldParts DEF Base
<1>2. control_drop(w) = v
  BY DEF control_drop, PutCtrl, PutEvents, Worlds
<1>3. q \in Seq(Completions) /\ Thinner(w.events, q) /\ \A e : OneCtl(w.events, e) => NoCtl(q)
  BY <1>1, WithoutThinner
<1> HIDE DEF q
<1>4. NoCtl(q)
  <2>1. CASE OneCtl(w.events, d)
    BY <2>1, <1>3
  <2>2. CASE NoCtl(w.events)
    BY <2>2, <1>1, <1>3, ThinnerKeeps
  <2> QED BY <2>1, <2>2, <1>1 DEF Pipe
<1>5. /\ u \in Worlds /\ u.ctrl = Quiet /\ u.itf = w.itf /\ u.hw = w.hw
      /\ u.events = w.events /\ u.c = w.c
  BY <1>1, QuietIs, PutCtrlIs
<1> HIDE DEF u
<1>6. /\ v \in Worlds /\ v.ctrl = Quiet /\ v.itf = w.itf /\ v.hw = w.hw
      /\ v.events = q /\ v.c = w.c
  BY <1>3, <1>5, PutEventsIs
<1> HIDE DEF v
<1>7. Pipe(v)
  BY <1>4, <1>6, QuietIs DEF Pipe
<1>8. Local(w, v, d)
  BY <1>3, <1>6, <1>7 DEF Local, Apart, Base, Mine
<1> QED
  BY <1>2, <1>4, <1>6, <1>8 DEF Local

(* A bulk transfer begins, and one is taken back.                          *)
LEMMA HwsParts ==
  ASSUME NEW h \in Hws, NEW ep \in Eps, NEW x \in Xfers
  PROVE  /\ [h EXCEPT ![ep] = x] \in Hws
         /\ [h EXCEPT ![ep] = x][ep] = x
         /\ \A e \in Eps : e # ep => [h EXCEPT ![ep] = x][e] = h[e]
         /\ h[ep] \in Xfers /\ h.in = h["in"] /\ h.out = h["out"]
BY DEF Hws, Eps

LEMMA XferLocal ==
  ASSUME NEW w, Base(w), NEW d \in Addrs, NEW ep \in Eps, NEW k \in Loads, NEW for \in Tags
  PROVE  LET v == usbh_edpt_xfer(w, d, ep, k, for) IN
         /\ Local(w, v, d) /\ Base(v) /\ v.itf = w.itf /\ v.ctrl = w.ctrl
         /\ v.events = w.events /\ v.hw[d][ep] = [busy |-> TRUE, k |-> k, for |-> for]
         /\ \A e \in Eps : e # ep => v.hw[d][e] = w.hw[d][e]
<1> DEFINE x == [busy |-> TRUE, k |-> k, for |-> for]
           h == [w.hw[d] EXCEPT ![ep] = x]
<1>1. w \in Worlds /\ w.hw[d] \in Hws
  BY DeviceParts DEF Base
<1>2. usbh_edpt_xfer(w, d, ep, k, for) = PutHw(w, d, h)
  BY <1>1 DEF usbh_edpt_xfer, PutHw, Worlds
<1>3. x \in Xfers
  BY DEF Xfers
<1> HIDE DEF x
<1>4. h \in Hws /\ h[ep] = x /\ \A e \in Eps : e # ep => h[e] = w.hw[d][e]
  BY <1>1, <1>3, HwsParts
<1> HIDE DEF h
<1> QED
  BY <1>2, <1>4, HwLocal DEF x

LEMMA NoXferIs ==
  NoXfer \in Xfers /\ ~NoXfer.busy /\ NoXfer.k = "none"
BY DEF NoXfer, Xfers, Loads, Tags

LEMMA AbortLocal ==
  ASSUME NEW w, Base(w), NEW d \in Addrs, NEW ep \in Eps
  PROVE  LET v == edpt_abort(w, d, ep) IN
         /\ Local(w, v, d) /\ Base(v) /\ v.itf = w.itf /\ v.ctrl = w.ctrl
         /\ v.events = w.events
         /\ v.hw[d][ep] = IF w.hw[d][ep].busy THEN NoXfer ELSE w.hw[d][ep]
         /\ \A e \in Eps : e # ep => v.hw[d][e] = w.hw[d][e]
<1>1. CASE ~w.hw[d][ep].busy
  BY <1>1, LocalSame DEF edpt_abort
<1>2. CASE w.hw[d][ep].busy
  <2> DEFINE h == [w.hw[d] EXCEPT ![ep] = NoXfer]
  <2>1. w \in Worlds /\ w.hw[d] \in Hws
    BY DeviceParts DEF Base
  <2>2. edpt_abort(w, d, ep) = PutHw(w, d, h)
    BY <1>2, <2>1 DEF edpt_abort, PutHw, Worlds
  <2>4. h \in Hws /\ h[ep] = NoXfer /\ \A e \in Eps : e # ep => h[e] = w.hw[d][e]
    BY <2>1, NoXferIs, HwsParts
  <2> HIDE DEF h
  <2> QED BY <1>2, <2>2, <2>4, HwLocal
<1> QED
  BY <1>1, <1>2

----------------------------------------------------------------------------
(* What a device is about.                                                 *)
Idle(x) == ~x.busy /\ x.k = "none"

Rest(h) == \A ep \in Eps : Idle(h[ep])

StageEp(x) ==
    IF x.stage = "cmd" THEN "out"
    ELSE IF x.stage = "data" THEN IF x.op \in DataIn THEN "in" ELSE "out" ELSE "in"

StageK(x) ==
    IF x.stage = "cmd" THEN "cbw" ELSE IF x.stage = "data" THEN "data" ELSE "csw"

(* The bulk transfer of a stage, or its completion, is under way.          *)
Moves(w, d) ==
    LET x == w.itf[d]
        h == w.hw[d]
        ep == StageEp(x) IN
    /\ \A e \in Eps : e # ep => Idle(h[e])
    /\ h[ep].busy
    /\ \/ h[ep].k = StageK(x) /\ h[ep].for = x.tag /\ Calm(w.events, d)
       \/ h[ep].k = "none" /\ Lone(w.events, d, ep)
    /\ x.bot \/ x.stage = "data"

(* The control transfer of a stage is under way.                           *)
Fits(stage, bot, cb) ==
    \/ cb = "adsc" /\ stage = "cmd" /\ ~bot
    \/ cb = "csw" /\ stage = "status" /\ bot
    \/ cb = "csw again" /\ stage = "retry" /\ bot

Asked(w, d) ==
    Rest(w.hw[d]) /\ Calm(w.events, d)
        /\ Fits(w.itf[d].stage, w.itf[d].bot, w.ctrl.cb)

Mounted(x) == x.open /\ x.mounted

Started(w, d) ==
    /\ Mounted(w.itf[d]) /\ w.itf[d].recovery = "idle" /\ w.itf[d].stage # "idle"
    /\ IF w.ctrl.d = d THEN Asked(w, d) ELSE Moves(w, d)

(* No command is being carried out: the device is ready, or recovers.      *)
Settled(w, d) ==
    /\ Mounted(w.itf[d]) /\ w.itf[d].stage = "idle" /\ Rest(w.hw[d])
    /\ IF w.itf[d].recovery = "idle" THEN w.ctrl.d # d /\ Calm(w.events, d)
       ELSE w.ctrl.d = d /\ w.ctrl.cb = "recovery" /\ Early(w.events, d)

On(w, v, d) == Settled(v, d) \/ (Started(v, d) /\ v.itf[d].tag = w.itf[d].tag)

(* Nothing is under way, and a stage or a recovery may begin.              *)
Between(w, d) ==
    /\ Mounted(w.itf[d]) /\ w.itf[d].recovery = "idle" /\ Rest(w.hw[d])
    /\ Calm(w.events, d) /\ w.ctrl.d # d

Loose(w, d) ==
    /\ Mounted(w.itf[d]) /\ w.itf[d].stage = "idle" /\ Rest(w.hw[d]) /\ w.ctrl.d # d
    /\ Calm(w.events, d) \/ w.ctrl = Quiet

(* A handler that changes no more than the state of a device.              *)
Agrees(x, y) ==
    /\ y.open = x.open /\ y.mounted = x.mounted /\ y.bot = x.bot /\ y.op = x.op
    /\ y.tag = x.tag

Edited(w, v, d) ==
    /\ Local(w, v, d) /\ Base(v) /\ v.hw = w.hw /\ v.ctrl = w.ctrl
    /\ v.events = w.events /\ Agrees(w.itf[d], v.itf[d])

Stages == {"idle", "cmd", "data", "status", "retry"}
Recoveries == {"idle", "reset", "clear_in", "clear_out"}

LEMMA ItfEdited ==
  ASSUME NEW w, Base(w), NEW d \in Addrs, NEW x \in Itfs, Agrees(w.itf[d], x)
  PROVE  Edited(w, PutItf(w, d, x), d) /\ PutItf(w, d, x).itf[d] = x
BY ItfLocal DEF Edited

LEMMA StageIs ==
  ASSUME NEW w, Base(w), NEW d \in Addrs, NEW s \in Stages
  PROVE  LET v == [w EXCEPT !.itf[d].stage = s] IN
         /\ Edited(w, v, d) /\ v.itf[d].stage = s
         /\ v.itf[d].recovery = w.itf[d].recovery
<1> DEFINE x == [w.itf[d] EXCEPT !.stage = s]
<1>1. w \in Worlds /\ w.itf[d] \in Itfs
  BY DeviceParts DEF Base
<1>2. [w EXCEPT !.itf[d].stage = s] = PutItf(w, d, x)
  BY <1>1 DEF PutItf, Worlds, Itfs
<1>3. /\ x \in Itfs /\ x.stage = s /\ x.recovery = w.itf[d].recovery
      /\ Agrees(w.itf[d], x)
  BY <1>1 DEF Itfs, Stages, Agrees
<1> HIDE DEF x
<1>4. Edited(w, PutItf(w, d, x), d) /\ PutItf(w, d, x).itf[d] = x
  BY <1>1, <1>3, ItfEdited
<1> QED
  BY <1>2, <1>3, <1>4

LEMMA RecoveryIs ==
  ASSUME NEW w, Base(w), NEW d \in Addrs, NEW r \in Recoveries
  PROVE  LET v == [w EXCEPT !.itf[d].recovery = r] IN
         /\ Edited(w, v, d) /\ v.itf[d].recovery = r
         /\ v.itf[d].stage = w.itf[d].stage
<1> DEFINE x == [w.itf[d] EXCEPT !.recovery = r]
<1>1. w \in Worlds /\ w.itf[d] \in Itfs
  BY DeviceParts DEF Base
<1>2. [w EXCEPT !.itf[d].recovery = r] = PutItf(w, d, x)
  BY <1>1 DEF PutItf, Worlds, Itfs
<1>3. /\ x \in Itfs /\ x.recovery = r /\ x.stage = w.itf[d].stage
      /\ Agrees(w.itf[d], x)
  BY <1>1 DEF Itfs, Recoveries, Agrees
<1> HIDE DEF x
<1>4. Edited(w, PutItf(w, d, x), d) /\ PutItf(w, d, x).itf[d] = x
  BY <1>1, <1>3, ItfEdited
<1> QED
  BY <1>2, <1>3, <1>4

LEMMA XferredIs ==
  ASSUME NEW w, Base(w), NEW d \in Addrs, NEW b \in BOOLEAN
  PROVE  LET v == [w EXCEPT !.itf[d].xferred = b] IN
         /\ Edited(w, v, d) /\ v.itf[d].recovery = w.itf[d].recovery
         /\ v.itf[d].stage = w.itf[d].stage
<1> DEFINE x == [w.itf[d] EXCEPT !.xferred = b]
<1>1. w \in Worlds /\ w.itf[d] \in Itfs
  BY DeviceParts DEF Base
<1>2. [w EXCEPT !.itf[d].xferred = b] = PutItf(w, d, x)
  BY <1>1 DEF PutItf, Worlds, Itfs
<1>3. /\ x \in Itfs /\ x.recovery = w.itf[d].recovery /\ x.stage = w.itf[d].stage
      /\ Agrees(w.itf[d], x)
  BY <1>1 DEF Itfs, Agrees
<1> HIDE DEF x
<1>4. Edited(w, PutItf(w, d, x), d) /\ PutItf(w, d, x).itf[d] = x
  BY <1>1, <1>3, ItfEdited
<1> QED
  BY <1>2, <1>3, <1>4

LEMMA CompleteIs ==
  ASSUME NEW w, Base(w), NEW d \in Addrs, NEW st \in Vals
  PROVE  LET v == msc_complete_command(w, d, st) IN
         /\ Edited(w, v, d) /\ v.itf[d].recovery = w.itf[d].recovery
         /\ v.itf[d].stage = "idle"
<1> DEFINE x == [w.itf[d] EXCEPT !.stage = "idle", !.csw = st]
<1>1. w \in Worlds /\ w.itf[d] \in Itfs
  BY DeviceParts DEF Base
<1>2. msc_complete_command(w, d, st) = PutItf(w, d, x)
  <2>1. [w.itf EXCEPT ![d].stage = "idle", ![d].csw = st] = [w.itf EXCEPT ![d] = x]
    <3> DEFINE f == w.itf
    <3>1. f \in [Addrs -> Itfs]
      BY <1>1, WorldParts
    <3> HIDE DEF f
    <3>2. [f EXCEPT ![d].stage = "idle", ![d].csw = st]
            = [f EXCEPT ![d] = [f[d] EXCEPT !.stage = "idle", !.csw = st]]
      BY <3>1 DEF Itfs
    <3> QED BY <3>2 DEF f
  <2>2. msc_complete_command(w, d, st)
          = [w EXCEPT !.itf = [@ EXCEPT ![d].stage = "idle", ![d].csw = st]]
    BY <1>1 DEF msc_complete_command, Worlds
  <2> HIDE DEF x
  <2> QED BY <2>1, <2>2 DEF PutItf
<1>3. /\ x \in Itfs /\ x.recovery = w.itf[d].recovery /\ x.stage = "idle"
      /\ Agrees(w.itf[d], x)
  BY <1>1 DEF Itfs, Agrees
<1> HIDE DEF x
<1>4. Edited(w, PutItf(w, d, x), d) /\ PutItf(w, d, x).itf[d] = x
  BY <1>1, <1>3, ItfEdited
<1> QED
  BY <1>2, <1>3, <1>4

LEMMA EditedBetween ==
  ASSUME NEW w, NEW v, NEW d, Edited(w, v, d), Between(w, d), v.itf[d].recovery = "idle"
  PROVE  /\ Between(v, d) /\ v.itf[d].tag = w.itf[d].tag /\ v.itf[d].bot = w.itf[d].bot
         /\ v.itf[d].op = w.itf[d].op
BY DEF Edited, Between, Agrees, Mounted

LEMMA BetweenIdle ==
  ASSUME NEW w, NEW d, Between(w, d), w.itf[d].stage = "idle"
  PROVE  Settled(w, d) /\ Loose(w, d)
BY DEF Between, Settled, Loose

LEMMA EditedLocal ==
  ASSUME NEW w, NEW v, NEW d, Edited(w, v, d)
  PROVE  Local(w, v, d) /\ Base(v)
BY DEF Edited

----------------------------------------------------------------------------
(* The recovery of a device.                                               *)
LEMMA RestedIs ==
  ASSUME NEW w, Base(w), NEW d \in Addrs
  PROVE  /\ Edited(w, Rested(w, d), d) /\ Rested(w, d).itf[d].recovery = "idle"
         /\ Rested(w, d).itf[d].stage = w.itf[d].stage
BY RecoveryIs DEF Rested, Recoveries

LEMMA QuietApart ==
  ASSUME NEW w, NEW d \in Addrs, w.ctrl = Quiet
  PROVE  w.ctrl.d # d
BY QuietIs

(* A step of the recovery is asked of a device, or recovery is given up.   *)
LEMMA ClearIs ==
  ASSUME NEW w, Base(w), NEW d \in Addrs, NEW ep \in {"clear_in", "clear_out"}
  PROVE  LET v == msc_recovery_clear(w, d, ep) IN
         Local(w, v, d) /\ (Loose(w, d) => Settled(v, d))
<1> DEFINE u == [w EXCEPT !.itf[d].recovery = ep]
           v == msc_recovery_clear(w, d, ep)
<1>1. CASE w.ctrl # Quiet
  <2>1. v = Rested(w, d)
    BY <1>1 DEF msc_recovery_clear
  <2> HIDE DEF v
  <2>2. Edited(w, v, d) /\ v.itf[d].recovery = "idle" /\ v.itf[d].stage = w.itf[d].stage
    BY <2>1, RestedIs
  <2>3. Loose(w, d) => Settled(v, d)
    BY <2>2, <1>1 DEF Loose, Settled, Edited, Agrees, Mounted
  <2> QED BY <2>2, <2>3 DEF Edited, v
<1>2. CASE w.ctrl = Quiet
  <2>0. ep \in Recoveries
    BY DEF Recoveries
  <2>1. /\ Edited(w, u, d) /\ u.itf[d].recovery = ep /\ u.itf[d].stage = w.itf[d].stage
    BY <2>0, RecoveryIs
  <2>2. v = control_xfer(u, d, ep, "recovery")
    BY <1>2 DEF msc_recovery_clear
  <2> HIDE DEF u, v
  <2>3. Base(u) /\ u.ctrl = Quiet /\ ep \in Reqs /\ "recovery" \in Cbs
    BY <2>1, <1>2 DEF Edited, Reqs, Cbs
  <2>4. /\ Local(u, v, d) /\ v.itf = u.itf /\ v.hw = u.hw /\ v.ctrl.d = d
        /\ v.ctrl.cb = "recovery" /\ NoCtl(v.events)
    BY <2>2, <2>3, AskLocal
  <2>5. Local(w, v, d)
    BY <2>1, <2>4, LocalThrough DEF Edited
  <2>6. Early(v.events, d)
    BY <2>4 DEF NoCtl, Early
  <2>7. Loose(w, d) => Settled(v, d)
    <3>1. /\ v.itf[d].open = w.itf[d].open /\ v.itf[d].mounted = w.itf[d].mounted
          /\ v.itf[d].stage = w.itf[d].stage /\ v.itf[d].recovery # "idle"
          /\ v.hw[d] = w.hw[d]
      BY <2>1, <2>4 DEF Edited, Agrees
    <3> QED BY <2>4, <2>6, <3>1 DEF Loose, Settled, Mounted
  <2> QED BY <2>5, <2>7 DEF v
<1> QED
  BY <1>1, <1>2

LEMMA StartRecoveryIs ==
  ASSUME NEW w, Base(w), NEW d \in Addrs
  PROVE  LET v == msc_start_recovery(w, d) IN
         /\ Local(w, v, d)
         /\ Loose(w, d) /\ w.itf[d].recovery = "idle" => Settled(v, d)
<1> DEFINE u == [w EXCEPT !.itf[d].recovery = "reset"]
           v == msc_start_recovery(w, d)
<1>1. CASE ~w.itf[d].open \/ w.itf[d].recovery # "idle"
  <2>1. v = w
    BY <1>1 DEF msc_start_recovery
  <2>2. ~(Loose(w, d) /\ w.itf[d].recovery = "idle")
    BY <1>1 DEF Loose, Mounted
  <2> QED BY <2>1, <2>2, LocalSame
<1>2. CASE w.itf[d].open /\ w.itf[d].recovery = "idle"
  <2>1. Edited(w, u, d) /\ u.itf[d].recovery = "reset" /\ u.itf[d].stage = w.itf[d].stage
    BY RecoveryIs DEF Recoveries
  <2>2. Base(u) /\ Local(w, u, d) /\ (Loose(w, d) => Loose(u, d))
    BY <2>1 DEF Edited, Loose, Agrees, Mounted
  <2>3. CASE w.ctrl # Quiet
    <3>1. v = msc_recovery_clear(u, d, "clear_in")
      BY <1>2, <2>3 DEF msc_start_recovery, msc_recovery_start_clear_halts
    <3> HIDE DEF u, v
    <3>2. Local(u, v, d) /\ (Loose(u, d) => Settled(v, d))
      BY <3>1, <2>2, ClearIs
    <3>3. Local(w, v, d)
      BY <3>2, <2>2, LocalThrough
    <3> QED BY <3>2, <3>3, <2>2 DEF v
  <2>4. CASE w.ctrl = Quiet
    <3>1. v = control_xfer(u, d, "reset", "recovery")
      BY <1>2, <2>4 DEF msc_start_recovery
    <3> HIDE DEF u, v
    <3>2. u.ctrl = Quiet /\ "reset" \in Reqs /\ "recovery" \in Cbs
      BY <2>1, <2>4 DEF Edited, Reqs, Cbs
    <3>3. /\ Local(u, v, d) /\ v.itf = u.itf /\ v.hw = u.hw /\ v.ctrl.d = d
          /\ v.ctrl.cb = "recovery" /\ NoCtl(v.events)
      BY <3>1, <3>2, <2>2, AskLocal
    <3>4. Local(w, v, d)
      BY <3>3, <2>2, LocalThrough
    <3>5. Early(v.events, d)
      BY <3>3 DEF NoCtl, Early
    <3>6. Loose(u, d) => Settled(v, d)
      BY <2>1, <3>3, <3>5 DEF Loose, Settled, Mounted
    <3> QED BY <3>4, <3>6, <2>2 DEF v
  <2> QED BY <2>3, <2>4
<1> QED
  BY <1>1, <1>2

LEMMA FailedIsVal ==
  "failed" \in Vals /\ "passed" \in Vals /\ "none" \in Vals /\ "phase" \in Vals
    /\ "residue" \in Vals
BY DEF Vals, Media

LEMMA FailIs ==
  ASSUME NEW w, Base(w), NEW d \in Addrs
  PROVE  LET v == Fail(w, d) IN
         Local(w, v, d) /\ (Between(w, d) => Settled(v, d))
<1> DEFINE u == msc_complete_command(w, d, "failed")
           v == Fail(w, d)
<1>0. "failed" \in Vals
  BY FailedIsVal
<1>1. Edited(w, u, d) /\ u.itf[d].recovery = w.itf[d].recovery /\ u.itf[d].stage = "idle"
  BY <1>0, CompleteIs
<1>2. v = msc_start_recovery(u, d)
  BY DEF Fail
<1> HIDE DEF u, v
<1>3. Base(u) /\ Local(w, u, d)
  BY <1>1 DEF Edited
<1>4. Between(w, d) => Loose(u, d) /\ u.itf[d].recovery = "idle"
  BY <1>1, EditedBetween, BetweenIdle DEF Between
<1>5. Local(u, v, d) /\ (Loose(u, d) /\ u.itf[d].recovery = "idle" => Settled(v, d))
  BY <1>2, <1>3, StartRecoveryIs
<1>6. Local(w, v, d)
  BY <1>3, <1>5, LocalThrough
<1> QED
  BY <1>4, <1>5, <1>6 DEF v

(* The last step of a recovery came to its end.                            *)
LEMMA RecoveryCbIs ==
  ASSUME NEW w, Base(w), NEW d \in Addrs, NEW ok
  PROVE  LET v == msc_recovery_xfer_cb(w, d, ok) IN
         /\ Local(w, v, d)
         /\ Loose(w, d) /\ Calm(w.events, d) => Settled(v, d)
<1> DEFINE v == msc_recovery_xfer_cb(w, d, ok)
<1>1. v \in {msc_recovery_clear(w, d, "clear_in"), msc_recovery_clear(w, d, "clear_out"),
             Rested(w, d)}
  BY DEF msc_recovery_xfer_cb
<1> HIDE DEF v
<1>2. CASE v = Rested(w, d)
  <2>1. Edited(w, v, d) /\ v.itf[d].recovery = "idle" /\ v.itf[d].stage = w.itf[d].stage
    BY <1>2, RestedIs
  <2>2. Loose(w, d) /\ Calm(w.events, d) => Settled(v, d)
    BY <2>1 DEF Loose, Settled, Edited, Agrees, Mounted
  <2> QED BY <2>1, <2>2 DEF Edited, v
<1>3. CASE v # Rested(w, d)
  <2>1. Local(w, v, d) /\ (Loose(w, d) => Settled(v, d))
    BY <1>1, <1>3, ClearIs
  <2> QED BY <2>1 DEF v
<1> QED
  BY <1>2, <1>3

----------------------------------------------------------------------------
(* The stages of a command.                                                *)
TagOk(w, d) == w.itf[d].tag \in Tags

LEMMA TagIs ==
  ASSUME NEW w, Base(w), NEW d \in Addrs
  PROVE  w.itf[d].tag \in Tags
BY DeviceParts DEF Base, Itfs

(* A bulk transfer of the stage it is for.                                 *)
LEMMA StageXfer ==
  ASSUME NEW w, Base(w), NEW d \in Addrs, w.itf[d].stage # "idle",
         NEW k, k = StageK(w.itf[d]), NEW ep, ep = StageEp(w.itf[d])
  PROVE  LET v == usbh_edpt_xfer(w, d, ep, k, w.itf[d].tag) IN
         /\ Local(w, v, d) /\ v.itf = w.itf
         /\ Between(w, d) /\ (w.itf[d].bot \/ w.itf[d].stage = "data") => Started(v, d)
<1> DEFINE v == usbh_edpt_xfer(w, d, ep, k, w.itf[d].tag)
<1>1. ep \in Eps /\ k \in Loads /\ k # "none"
  BY DEF StageEp, StageK, Eps, Loads
<1>2. /\ Local(w, v, d) /\ Base(v) /\ v.itf = w.itf /\ v.ctrl = w.ctrl
      /\ v.events = w.events
      /\ v.hw[d][ep] = [busy |-> TRUE, k |-> k, for |-> w.itf[d].tag]
      /\ \A e \in Eps : e # ep => v.hw[d][e] = w.hw[d][e]
  BY <1>1, TagIs, XferLocal
<1> HIDE DEF v
<1>3. v.hw[d][ep].busy /\ v.hw[d][ep].k = k /\ v.hw[d][ep].for = w.itf[d].tag
  BY <1>2
<1>4. ASSUME Between(w, d), w.itf[d].bot \/ w.itf[d].stage = "data"
      PROVE  Started(v, d)
  <2>1. Moves(v, d)
    BY <1>2, <1>3, <1>4 DEF Moves, Between, Rest
  <2> QED BY <2>1, <1>2, <1>4 DEF Started, Between
<1> QED
  BY <1>2, <1>4 DEF v

LEMMA StartDataIs ==
  ASSUME NEW w, Base(w), NEW d \in Addrs
  PROVE  LET v == msc_start_data_phase(w, d) IN
         Local(w, v, d) /\ (Between(w, d) => On(w, v, d))
<1> DEFINE u == [w EXCEPT !.itf[d].stage = "data"]
           v == msc_start_data_phase(w, d)
<1>1. /\ Edited(w, u, d) /\ u.itf[d].stage = "data"
      /\ u.itf[d].recovery = w.itf[d].recovery
  BY StageIs DEF Stages
<1>2. v = usbh_edpt_xfer(u, d, msc_data_ep(w, d), "data", w.itf[d].tag)
  BY DEF msc_start_data_phase
<1> HIDE DEF u, v
<1>3. /\ Base(u) /\ Local(w, u, d) /\ u.itf[d].tag = w.itf[d].tag
      /\ msc_data_ep(w, d) = StageEp(u.itf[d]) /\ "data" = StageK(u.itf[d])
  BY <1>1 DEF Edited, Agrees, msc_data_ep, StageEp, StageK
<1>4. Local(u, v, d) /\ v.itf = u.itf /\ (Between(u, d) => Started(v, d))
  <2>1. v = usbh_edpt_xfer(u, d, msc_data_ep(w, d), "data", u.itf[d].tag)
    BY <1>2, <1>3
  <2>2. u.itf[d].stage # "idle"
    BY <1>1
  <2> QED BY <2>1, <2>2, <1>1, <1>3, StageXfer
<1>5. Local(w, v, d)
  BY <1>3, <1>4, LocalThrough
<1>6. Between(w, d) => Between(u, d)
  BY <1>1, EditedBetween DEF Between
<1> QED
  BY <1>3, <1>4, <1>5, <1>6 DEF On, v

LEMMA StartCswIs ==
  ASSUME NEW w, Base(w), NEW d \in Addrs, NEW stage \in {"status", "retry"}
  PROVE  LET v == StartCsw(w, d, stage) IN
         Local(w, v, d) /\ (Between(w, d) /\ w.itf[d].bot => On(w, v, d))
<1> DEFINE u == [w EXCEPT !.itf[d].stage = stage]
           v == StartCsw(w, d, stage)
<1>0. stage \in Stages
  BY DEF Stages
<1>1. /\ Edited(w, u, d) /\ u.itf[d].stage = stage
      /\ u.itf[d].recovery = w.itf[d].recovery
  BY <1>0, StageIs
<1>2. v = usbh_edpt_xfer(u, d, "in", "csw", w.itf[d].tag)
  BY DEF StartCsw
<1> HIDE DEF u, v
<1>3. /\ Base(u) /\ Local(w, u, d) /\ u.itf[d].tag = w.itf[d].tag
      /\ "in" = StageEp(u.itf[d]) /\ "csw" = StageK(u.itf[d])
      /\ u.itf[d].bot = w.itf[d].bot
  BY <1>1 DEF Edited, Agrees, StageEp, StageK
<1>4. /\ Local(u, v, d) /\ v.itf = u.itf
      /\ Between(u, d) /\ u.itf[d].bot => Started(v, d)
  <2>1. v = usbh_edpt_xfer(u, d, "in", "csw", u.itf[d].tag)
    BY <1>2, <1>3
  <2>2. u.itf[d].stage # "idle"
    BY <1>1
  <2> QED BY <2>1, <2>2, <1>1, <1>3, StageXfer
<1>5. Local(w, v, d)
  BY <1>3, <1>4, LocalThrough
<1>6. Between(w, d) => Between(u, d)
  BY <1>1, EditedBetween DEF Between
<1> QED
  BY <1>3, <1>4, <1>5, <1>6 DEF On, v

LEMMA EndedOn ==
  ASSUME NEW w, NEW d, NEW v, Edited(w, v, d), v.itf[d].stage = "idle",
         v.itf[d].recovery = w.itf[d].recovery
  PROVE  Local(w, v, d) /\ (Between(w, d) => On(w, v, d))
BY EditedBetween, BetweenIdle DEF Between, On, Edited

LEMMA FailOn ==
  ASSUME NEW w, Base(w), NEW d \in Addrs
  PROVE  Local(w, Fail(w, d), d) /\ (Between(w, d) => On(w, Fail(w, d), d))
BY FailIs DEF On

LEMMA ClearForCswIs ==
  ASSUME NEW w, Base(w), NEW d \in Addrs, NEW ok, NEW retry
  PROVE  LET v == msc_bot_clear_for_csw_cb(w, d, ok, retry) IN
         Local(w, v, d) /\ (Between(w, d) /\ w.itf[d].bot => On(w, v, d))
<1> DEFINE v == msc_bot_clear_for_csw_cb(w, d, ok, retry)
<1>1. v \in {Fail(w, d), StartCsw(w, d, "status"), StartCsw(w, d, "retry")}
  BY DEF msc_bot_clear_for_csw_cb
<1> HIDE DEF v
<1>2. Local(w, v, d) /\ (Between(w, d) /\ w.itf[d].bot => On(w, v, d))
  BY <1>1, FailOn, StartCswIs
<1> QED
  BY <1>2 DEF v

LEMMA AdscCompleteIs ==
  ASSUME NEW w, Base(w), NEW d \in Addrs, NEW ok
  PROVE  LET v == msc_cbi_adsc_complete(w, d, ok) IN
         Local(w, v, d) /\ (Between(w, d) => On(w, v, d))
<1> DEFINE v == msc_cbi_adsc_complete(w, d, ok)
<1>1. v \in {msc_complete_command(w, d, "failed"), msc_start_data_phase(w, d),
             msc_complete_command(w, d, "passed")}
  BY DEF msc_cbi_adsc_complete
<1> HIDE DEF v
<1>2. CASE v = msc_start_data_phase(w, d)
  BY <1>2, StartDataIs DEF v
<1>3. CASE \E st \in Vals : v = msc_complete_command(w, d, st)
  <2>1. /\ Edited(w, v, d) /\ v.itf[d].recovery = w.itf[d].recovery
        /\ v.itf[d].stage = "idle"
    BY <1>3, CompleteIs
  <2> QED BY <2>1, EndedOn DEF v
<1> QED
  BY <1>1, <1>2, <1>3, FailedIsVal

LEMMA AskStage ==
  ASSUME NEW w, Base(w), NEW d \in Addrs, w.ctrl = Quiet, NEW s \in Stages,
         NEW req \in Reqs, NEW cb \in Cbs
  PROVE  LET v == control_xfer([w EXCEPT !.itf[d].stage = s], d, req, cb) IN
         /\ Local(w, v, d)
         /\ Between(w, d) /\ Fits(s, w.itf[d].bot, cb) => On(w, v, d)
<1> DEFINE u == [w EXCEPT !.itf[d].stage = s]
           v == control_xfer(u, d, req, cb)
<1>1. /\ Edited(w, u, d) /\ u.itf[d].stage = s
      /\ u.itf[d].recovery = w.itf[d].recovery
  BY StageIs
<1> HIDE DEF u
<1>2. Base(u) /\ Local(w, u, d) /\ u.ctrl = Quiet
  BY <1>1 DEF Edited
<1>3. /\ Local(u, v, d) /\ v.itf = u.itf /\ v.hw = u.hw /\ v.ctrl.d = d
      /\ v.ctrl.cb = cb /\ v.events = u.events
  BY <1>2, AskLocal
<1> HIDE DEF v
<1>4. Local(w, v, d)
  BY <1>2, <1>3, LocalThrough
<1>5. ASSUME Between(w, d), Fits(s, w.itf[d].bot, cb)
      PROVE  On(w, v, d)
  <2>1. Between(u, d) /\ u.itf[d].tag = w.itf[d].tag /\ u.itf[d].bot = w.itf[d].bot
    BY <1>1, <1>5, EditedBetween DEF Between
  <2>2. s # "idle"
    BY <1>5 DEF Fits
  <2>3. Fits(u.itf[d].stage, u.itf[d].bot, cb)
    BY <1>1, <1>5, <2>1
  <2>4. Asked(v, d)
    BY <1>3, <2>1, <2>3 DEF Asked, Between
  <2>5. Started(v, d)
    BY <1>1, <1>3, <1>5, <2>1, <2>2, <2>4 DEF Started, Between
  <2> QED BY <1>3, <2>1, <2>5 DEF On
<1>6. Between(w, d) /\ Fits(s, w.itf[d].bot, cb) => On(w, v, d)
  BY <1>5
<1> QED
  BY <1>4, <1>6 DEF v, u

LEMMA AskCsw ==
  ASSUME NEW w, Base(w), NEW d \in Addrs, w.ctrl = Quiet, NEW req \in Reqs, NEW s, NEW cb,
         (s = "status" /\ cb = "csw") \/ (s = "retry" /\ cb = "csw again")
  PROVE  LET v == control_xfer([w EXCEPT !.itf[d].stage = s], d, req, cb) IN
         Local(w, v, d) /\ (Between(w, d) /\ w.itf[d].bot => On(w, v, d))
<1> DEFINE v == control_xfer([w EXCEPT !.itf[d].stage = s], d, req, cb)
<1>1. s \in Stages /\ cb \in Cbs
  BY DEF Stages, Cbs
<1>2. w.itf[d].bot => Fits(s, w.itf[d].bot, cb)
  BY DEF Fits
<1>3. /\ Local(w, v, d)
      /\ Between(w, d) /\ Fits(s, w.itf[d].bot, cb) => On(w, v, d)
  BY <1>1, AskStage
<1> HIDE DEF v
<1>4. Local(w, v, d) /\ (Between(w, d) /\ w.itf[d].bot => On(w, v, d))
  BY <1>2, <1>3
<1> QED
  BY <1>4 DEF v

LEMMA CompletionParts ==
  ASSUME NEW e \in Completions
  PROVE  /\ e.item \in Items /\ e.item.val \in Vals /\ e.whole \in BOOLEAN /\ e.d \in Addrs
         /\ e.ep \in {"in", "out", "ctl", "gone"}
BY DEF Completions, Items

LEMMA SectorIs ==
  ASSUME NEW e \in Completions, NEW w, NEW d
  PROVE  Sector(w, d, e) \in BOOLEAN
BY CompletionParts DEF Sector

LEMMA ClearsIs ==
  ASSUME NEW ep
  PROVE  Clears(ep) \in Reqs
BY DEF Clears, Reqs

(* The end of the data phase of Bulk-Only Transport.                       *)
LEMMA DataCbIs ==
  ASSUME NEW w, Base(w), NEW d \in Addrs, NEW e \in Completions
  PROVE  LET v == msc_bot_data_cb(w, d, e) IN
         /\ Local(w, v, d)
         /\ Between(w, d) /\ w.itf[d].bot /\ e.ep = msc_data_ep(w, d) => On(w, v, d)
<1> DEFINE u == [w EXCEPT !.itf[d].xferred = Sector(w, d, e)]
           ep == msc_data_ep(w, d)
           v == msc_bot_data_cb(w, d, e)
<1>1. Edited(w, u, d) /\ u.itf[d].recovery = w.itf[d].recovery
  BY SectorIs, XferredIs
<1>2. \/ v = w /\ e.ep # ep
      \/ v \in {Fail(u, d), StartCsw(u, d, "status")}
      \/ /\ v = control_xfer([u EXCEPT !.itf[d].stage = "status"], d, Clears(ep), "csw")
         /\ u.ctrl = Quiet
  BY DEF msc_bot_data_cb
<1> HIDE DEF u, v
<1>5. Base(u) /\ Local(w, u, d)
  BY <1>1 DEF Edited
<1>6. Between(w, d) => Between(u, d)
  BY <1>1, EditedBetween DEF Between
<1>7. u.itf[d].tag = w.itf[d].tag /\ u.itf[d].bot = w.itf[d].bot
  BY <1>1 DEF Edited, Agrees
<1>8. CASE \/ v \in {Fail(u, d), StartCsw(u, d, "status")}
           \/ /\ v = control_xfer([u EXCEPT !.itf[d].stage = "status"], d, Clears(ep),
                                  "csw")
              /\ u.ctrl = Quiet
  <2>1. Local(u, v, d) /\ (Between(u, d) /\ u.itf[d].bot => On(u, v, d))
    <3>1. CASE v \in {Fail(u, d), StartCsw(u, d, "status")}
      BY <3>1, <1>5, FailOn, StartCswIs
    <3>2. CASE /\ v = control_xfer([u EXCEPT !.itf[d].stage = "status"], d, Clears(ep),
                                   "csw")
               /\ u.ctrl = Quiet
      <4>1. Clears(ep) \in Reqs
        BY ClearsIs
      <4> DEFINE req == Clears(ep)
                 t == control_xfer([u EXCEPT !.itf[d].stage = "status"], d, req, "csw")
      <4> HIDE DEF req
      <4>2. Local(u, t, d) /\ (Between(u, d) /\ u.itf[d].bot => On(u, t, d))
        BY <3>2, <4>1, <1>5, AskCsw DEF req
      <4>3. v = t
        BY <3>2 DEF req
      <4> QED BY <4>2, <4>3
    <3> QED BY <3>1, <3>2, <1>8
  <2>2. Local(w, v, d)
    BY <2>1, <1>5, LocalThrough
  <2>3. Between(w, d) /\ w.itf[d].bot => On(w, v, d)
    BY <2>1, <1>6, <1>7 DEF On
  <2> QED BY <2>2, <2>3 DEF v
<1>9. CASE v = w /\ e.ep # ep
  <2>1. Local(w, v, d)
    BY <1>9, LocalSame
  <2> QED BY <2>1, <1>9 DEF v
<1> QED
  BY <1>2, <1>8, <1>9

(* The status of a command.                                                *)
LEMMA StatusCbIs ==
  ASSUME NEW w, Base(w), NEW d \in Addrs, NEW e \in Completions
  PROVE  LET v == msc_bot_status_cb(w, d, e) IN
         /\ Local(w, v, d)
         /\ Between(w, d) /\ w.itf[d].bot /\ e.ep = "in" => On(w, v, d)
<1> DEFINE st == IF e.item.k = "csw" THEN e.item.val ELSE w.itf[d].csw
           u == msc_complete_command(w, d, st)
           a == control_xfer([w EXCEPT !.itf[d].stage = "retry"], d, "clear_in",
                             "csw again")
           v == msc_bot_status_cb(w, d, e)
<1>0. w \in Worlds /\ w.itf[d] \in Itfs
  BY DeviceParts DEF Base
<1>1. [w EXCEPT !.itf[d].stage = "idle",
                !.itf[d].csw = IF e.item.k = "csw" THEN e.item.val ELSE @] = u
  BY <1>0 DEF msc_complete_command, Worlds, Itfs
<1>2. \/ v = w /\ e.ep # "in"
      \/ v \in {Fail(w, d), StartCsw(w, d, "retry")}
      \/ v = a /\ w.ctrl = Quiet
      \/ v \in {Fail(u, d), msc_start_recovery(u, d), u}
  BY <1>1 DEF msc_bot_status_cb
<1>3. st \in Vals
  BY <1>0, CompletionParts DEF Itfs
<1> HIDE DEF st
<1>4. Edited(w, u, d) /\ u.itf[d].recovery = w.itf[d].recovery /\ u.itf[d].stage = "idle"
  BY <1>3, CompleteIs
<1> HIDE DEF u, v
<1>5. CASE v = w /\ e.ep # "in"
  <2>1. Local(w, v, d)
    BY <1>5, LocalSame
  <2> QED BY <2>1, <1>5 DEF v
<1>6. CASE v \in {Fail(w, d), StartCsw(w, d, "retry")}
  <2>1. Local(w, v, d) /\ (Between(w, d) /\ w.itf[d].bot => On(w, v, d))
    BY <1>6, FailOn, StartCswIs
  <2> QED BY <2>1 DEF v
<1>7. CASE v = a /\ w.ctrl = Quiet
  <2>1. "clear_in" \in Reqs
    BY DEF Reqs
  <2>2. Local(w, a, d) /\ (Between(w, d) /\ w.itf[d].bot => On(w, a, d))
    BY <2>1, <1>7, AskCsw
  <2> QED BY <2>2, <1>7 DEF v
<1>8. CASE v \in {Fail(u, d), msc_start_recovery(u, d), u}
  <2>1. Base(u) /\ Local(w, u, d)
    BY <1>4 DEF Edited
  <2>2. Between(w, d) => Between(u, d) /\ Loose(u, d) /\ Settled(u, d)
                         /\ u.itf[d].recovery = "idle"
    BY <1>4, EditedBetween, BetweenIdle DEF Between
  <2>3. Local(u, v, d)
    BY <1>8, <2>1, FailIs, StartRecoveryIs, LocalSame
  <2>4. Between(w, d) => Settled(v, d)
    BY <1>8, <2>1, <2>2, FailIs, StartRecoveryIs
  <2>5. Local(w, v, d)
    BY <2>1, <2>3, LocalThrough
  <2> QED BY <2>4, <2>5 DEF On, v
<1> QED
  BY <1>2, <1>5, <1>6, <1>7, <1>8

(* The end of a bulk transfer.                                             *)
LEMMA BotXferCbIs ==
  ASSUME NEW w, Base(w), NEW d \in Addrs, NEW e \in Completions
  PROVE  LET v == msc_bot_xfer_cb(w, d, e) IN
         /\ Local(w, v, d) /\ (w.itf[d].stage = "idle" => v = w)
         /\ Between(w, d) /\ w.itf[d].bot /\ e.ep = StageEp(w.itf[d])
              /\ w.itf[d].stage # "idle" => On(w, v, d)
<1> DEFINE x == w.itf[d]
           v == msc_bot_xfer_cb(w, d, e)
<1>1. x.stage \in Stages
  BY DeviceParts DEF Base, Itfs, Stages
<1>2. CASE x.stage = "cmd"
  <2>1. v \in {w, Fail(w, d), msc_start_data_phase(w, d), msc_bot_data_cb(w, d, e)}
    BY <1>2 DEF msc_bot_xfer_cb
  <2>2. v = w => e.ep # "out" \/ v \in {Fail(w, d), msc_start_data_phase(w, d),
                                         msc_bot_data_cb(w, d, e)}
    BY <1>2 DEF msc_bot_xfer_cb
  <2>3. v = msc_bot_data_cb(w, d, e)
           => ~HasData(x.op) \/ v \in {w, Fail(w, d), msc_start_data_phase(w, d)}
    BY <1>2 DEF msc_bot_xfer_cb
  <2> HIDE DEF v
  <2>4. StageEp(x) = "out" /\ (~HasData(x.op) => msc_data_ep(w, d) = "out")
    BY <1>2 DEF StageEp, msc_data_ep, HasData
  <2>5. Local(w, v, d)
    BY <2>1, LocalSame, FailIs, StartDataIs, DataCbIs
  <2>6. ASSUME Between(w, d), x.bot, e.ep = StageEp(x), x.stage # "idle"
        PROVE  On(w, v, d)
    <3>1. CASE v \in {Fail(w, d), msc_start_data_phase(w, d)}
      BY <3>1, <2>6, FailOn, StartDataIs
    <3>2. CASE v = msc_bot_data_cb(w, d, e) /\ ~HasData(x.op)
      BY <3>2, <2>6, <2>4, DataCbIs
    <3>3. v \in {Fail(w, d), msc_start_data_phase(w, d)}
            \/ (v = msc_bot_data_cb(w, d, e) /\ ~HasData(x.op)) \/ e.ep # "out"
      BY <1>2 DEF msc_bot_xfer_cb, v
    <3> QED BY <3>1, <3>2, <3>3, <2>4, <2>6
  <2> QED BY <1>2, <2>5, <2>6 DEF v
<1>3. CASE x.stage = "data"
  <2>1. v = msc_bot_data_cb(w, d, e)
    BY <1>3 DEF msc_bot_xfer_cb
  <2> HIDE DEF v
  <2>2. StageEp(x) = msc_data_ep(w, d)
    BY <1>3 DEF StageEp, msc_data_ep
  <2>3. Local(w, v, d) /\ (Between(w, d) /\ x.bot /\ e.ep = StageEp(x) => On(w, v, d))
    BY <2>1, <2>2, DataCbIs
  <2> QED BY <1>3, <2>3 DEF v
<1>4. CASE x.stage \in {"status", "retry"}
  <2>1. v = msc_bot_status_cb(w, d, e)
    BY <1>4 DEF msc_bot_xfer_cb
  <2> HIDE DEF v
  <2>2. StageEp(x) = "in"
    BY <1>4 DEF StageEp
  <2>3. Local(w, v, d) /\ (Between(w, d) /\ x.bot /\ e.ep = StageEp(x) => On(w, v, d))
    BY <2>1, <2>2, StatusCbIs
  <2> QED BY <1>4, <2>3 DEF v
<1>5. CASE x.stage = "idle"
  <2>1. v = w
    BY <1>5 DEF msc_bot_xfer_cb
  <2>2. Local(w, v, d)
    BY <2>1, LocalSame
  <2> HIDE DEF v
  <2> QED BY <2>1, <2>2, <1>5 DEF v
<1> QED
  BY <1>1, <1>2, <1>3, <1>4, <1>5 DEF Stages

LEMMA CbiXferCbIs ==
  ASSUME NEW w, Base(w), NEW d \in Addrs, NEW e \in Completions
  PROVE  LET v == msc_cbi_xfer_cb(w, d, e) IN
         /\ Local(w, v, d) /\ (w.itf[d].stage = "idle" => v = w)
         /\ Between(w, d) /\ w.itf[d].stage = "data" => On(w, v, d)
<1> DEFINE st == IF e.res = "ok" THEN "passed" ELSE "failed"
           s == [w EXCEPT !.itf[d].xferred = Sector(w, d, e)]
           u == msc_complete_command(s, d, st)
           v == msc_cbi_xfer_cb(w, d, e)
<1>1. CASE w.itf[d].stage # "data"
  <2>1. v = w
    BY <1>1 DEF msc_cbi_xfer_cb
  <2>2. Local(w, v, d)
    BY <2>1, LocalSame
  <2> HIDE DEF v
  <2> QED BY <2>1, <2>2, <1>1 DEF v
<1>2. CASE w.itf[d].stage = "data"
  <2>1. v \in {u, msc_recovery_clear(u, d, "clear_in")}
    BY <1>2 DEF msc_cbi_xfer_cb, msc_recovery_start_clear_halts
  <2>2. Edited(w, s, d) /\ s.itf[d].recovery = w.itf[d].recovery
    BY SectorIs, XferredIs
  <2>3. st \in Vals
    BY FailedIsVal
  <2> HIDE DEF s, st
  <2>4. Edited(s, u, d) /\ u.itf[d].recovery = s.itf[d].recovery /\ u.itf[d].stage = "idle"
    BY <2>2, <2>3, CompleteIs DEF Edited
  <2> HIDE DEF u, v
  <2>5. Base(u) /\ Local(w, u, d)
    BY <2>2, <2>4, LocalThrough DEF Edited
  <2>6. Between(w, d) => Between(u, d)
    <3>1. Between(w, d) => Between(s, d)
      BY <2>2, EditedBetween DEF Between
    <3>2. Between(s, d) => Between(u, d)
      BY <2>4, EditedBetween DEF Between
    <3> QED BY <3>1, <3>2
  <2>7. Between(w, d) => Settled(u, d) /\ Loose(u, d)
    BY <2>4, <2>6, BetweenIdle
  <2>8. Local(u, v, d) /\ (Between(w, d) => Settled(v, d))
    <3>1. CASE v = u
      BY <3>1, <2>5, <2>7, LocalSame
    <3>2. CASE v = msc_recovery_clear(u, d, "clear_in")
      BY <3>2, <2>5, <2>7, ClearIs
    <3> QED BY <3>1, <3>2, <2>1
  <2>9. Local(w, v, d)
    BY <2>5, <2>8, LocalThrough
  <2> QED BY <1>2, <2>8, <2>9 DEF On, v
<1> QED
  BY <1>1, <1>2

----------------------------------------------------------------------------
(* What is in flight is taken back.                                        *)
Held(h) == \A ep \in Eps : h[ep].busy \/ Idle(h[ep])

BothAborted(w, d) == edpt_abort(edpt_abort(w, d, "in"), d, "out")

LEMMA BothAbortedIs ==
  ASSUME NEW w, Base(w), NEW d \in Addrs
  PROVE  LET v == BothAborted(w, d) IN
         /\ Local(w, v, d) /\ Base(v) /\ v.itf = w.itf /\ v.ctrl = w.ctrl
         /\ v.events = w.events /\ (Held(w.hw[d]) => Rest(v.hw[d]))
<1> DEFINE u == edpt_abort(w, d, "in")
           v == edpt_abort(u, d, "out")
<1>0. "in" \in Eps /\ "out" \in Eps /\ "in" # "out" /\ \A e \in Eps : e = "in" \/ e = "out"
  BY DEF Eps
<1>1. /\ Local(w, u, d) /\ Base(u) /\ u.itf = w.itf /\ u.ctrl = w.ctrl
      /\ u.events = w.events
      /\ u.hw[d]["in"] = IF w.hw[d]["in"].busy THEN NoXfer ELSE w.hw[d]["in"]
      /\ u.hw[d]["out"] = w.hw[d]["out"]
  BY <1>0, AbortLocal
<1> HIDE DEF u
<1>2. /\ Local(u, v, d) /\ Base(v) /\ v.itf = u.itf /\ v.ctrl = u.ctrl
      /\ v.events = u.events
      /\ v.hw[d]["out"] = IF u.hw[d]["out"].busy THEN NoXfer ELSE u.hw[d]["out"]
      /\ v.hw[d]["in"] = u.hw[d]["in"]
  BY <1>0, <1>1, AbortLocal
<1> HIDE DEF v
<1>3. Local(w, v, d)
  BY <1>1, <1>2, LocalThrough
<1>4. Held(w.hw[d]) => Rest(v.hw[d])
  BY <1>0, <1>1, <1>2, NoXferIs DEF Held, Rest, Idle
<1> QED
  BY <1>1, <1>2, <1>3, <1>4 DEF v, u, BothAborted

LEMMA RestHeld ==
  ASSUME NEW h, Rest(h)
  PROVE  Held(h)
BY DEF Rest, Held

LEMMA StartedHeld ==
  ASSUME NEW w, NEW d, Started(w, d) \/ Settled(w, d)
  PROVE  Held(w.hw[d])
<1>1. CASE Moves(w, d)
  BY <1>1 DEF Moves, Held
<1>2. CASE Rest(w.hw[d])
  BY <1>2, RestHeld
<1> QED
  BY <1>1, <1>2 DEF Started, Settled, Asked

LEMMA SettledIdle ==
  ASSUME NEW w, NEW v, NEW d, Edited(w, v, d), Settled(w, d), v.itf[d].stage = "idle",
         v.itf[d].recovery = w.itf[d].recovery
  PROVE  Settled(v, d)
BY DEF Settled, Edited, Agrees, Mounted

LEMMA SettledRecovers ==
  ASSUME NEW w, Base(w), NEW d \in Addrs, Settled(w, d)
  PROVE  Settled(msc_start_recovery(w, d), d)
<1>1. CASE w.itf[d].recovery = "idle"
  <2>1. Loose(w, d)
    BY <1>1 DEF Loose, Settled
  <2> QED BY <2>1, <1>1, StartRecoveryIs
<1>2. CASE w.itf[d].recovery # "idle"
  BY <1>2 DEF msc_start_recovery
<1> QED
  BY <1>1, <1>2

Undone(w, d) ==
    IF w.ctrl.d # d THEN w
    ELSE IF w.ctrl.cb \in {"csw", "csw again"}
    THEN msc_bot_clear_for_csw_cb(control_drop(w), d, FALSE, FALSE)
    ELSE control_drop(w)

(* A device whose command may be given up, and when nothing would be left. *)
Pending(w, d) ==
    \/ Started(w, d)
    \/ Settled(w, d) /\ w.itf[d].recovery # "idle"

Leaves(w, d) == w.ctrl = Quiet \/ w.ctrl.d = d \/ Calm(w.events, d)

(* After that: as a failure has left it, or ready for a recovery.          *)
Cancelled(w, v, d) ==
    \/ Settled(v, d) /\ w.itf[d].recovery = "idle"
    \/ Loose(v, d) /\ v.itf[d].recovery = w.itf[d].recovery

LEMMA UndoneIs ==
  ASSUME NEW w, Base(w), NEW d \in Addrs
  PROVE  LET v == Undone(w, d) IN
         /\ Local(w, v, d)
         /\ Pending(w, d) /\ Leaves(w, d) =>
              \/ Settled(v, d) /\ w.itf[d].recovery = "idle"
              \/ /\ Mounted(v.itf[d]) /\ v.itf[d].recovery = w.itf[d].recovery
                 /\ Held(v.hw[d]) /\ v.ctrl.d # d /\ (Calm(v.events, d) \/ v.ctrl = Quiet)
<1> DEFINE u == control_drop(w)
           v == Undone(w, d)
<1>0. Pending(w, d) => Mounted(w.itf[d]) /\ Held(w.hw[d])
  BY StartedHeld DEF Pending, Started, Settled
<1>1. CASE w.ctrl.d # d
  <2>1. v = w
    BY <1>1 DEF Undone
  <2>2. Local(w, v, d)
    BY <2>1, LocalSame
  <2> HIDE DEF v
  <2> QED BY <2>1, <2>2, <1>0, <1>1 DEF Leaves, v
<1>2. CASE w.ctrl.d = d /\ w.ctrl.cb \notin {"csw", "csw again"}
  <2>1. v = u
    BY <1>2 DEF Undone
  <2>2. /\ Local(w, u, d) /\ u.itf = w.itf /\ u.hw = w.hw /\ u.ctrl = Quiet
    BY <1>2, DropLocal
  <2>3. u.ctrl.d # d
    BY <2>2, QuietApart
  <2> HIDE DEF v, u
  <2> QED BY <2>1, <2>2, <2>3, <1>0 DEF v
<1>3. CASE w.ctrl.d = d /\ w.ctrl.cb \in {"csw", "csw again"}
  <2>1. v = Fail(u, d)
    BY <1>3 DEF Undone, msc_bot_clear_for_csw_cb
  <2>2. /\ Local(w, u, d) /\ Base(u) /\ u.itf = w.itf /\ u.hw = w.hw /\ u.ctrl = Quiet
    BY <1>3, DropLocal
  <2> HIDE DEF v, u
  <2>3. Local(u, v, d) /\ (Between(u, d) => Settled(v, d))
    BY <2>1, <2>2, FailIs
  <2>4. Local(w, v, d)
    BY <2>2, <2>3, LocalThrough
  <2>5. ASSUME Pending(w, d)
        PROVE  Between(u, d) /\ w.itf[d].recovery = "idle"
    <3>1. Started(w, d) /\ Asked(w, d)
      BY <1>3, <2>5 DEF Pending, Settled, Started
    <3>2. Calm(u.events, d)
      <4>1. /\ w.events \in Seq(Completions) /\ u.events \in Seq(Completions)
            /\ Thinner(w.events, u.events)
        BY <2>2, WorldParts DEF Base, Local
      <4> QED BY <3>1, <4>1, ThinnerKeeps DEF Asked
    <3>3. u.ctrl.d # d
      BY <2>2, QuietApart
    <3> QED BY <3>1, <3>2, <3>3, <2>2 DEF Between, Started, Asked
  <2> QED BY <2>3, <2>4, <2>5 DEF v
<1> QED
  BY <1>1, <1>2, <1>3

LEMMA CancelIs ==
  ASSUME NEW w, Base(w), NEW d \in Addrs
  PROVE  LET v == msc_cancel_inflight(w, d) IN
         Local(w, v, d) /\ (Pending(w, d) /\ Leaves(w, d) => Cancelled(w, v, d))
<1> DEFINE t == Undone(w, d)
           u == BothAborted(t, d)
           v == msc_cancel_inflight(w, d)
<1>1. /\ Local(w, t, d)
      /\ Pending(w, d) /\ Leaves(w, d) =>
              \/ Settled(t, d) /\ w.itf[d].recovery = "idle"
              \/ /\ Mounted(t.itf[d]) /\ t.itf[d].recovery = w.itf[d].recovery
                 /\ Held(t.hw[d]) /\ t.ctrl.d # d /\ (Calm(t.events, d) \/ t.ctrl = Quiet)
  BY UndoneIs
<1>2. v = [u EXCEPT !.itf[d].stage = "idle"]
  BY DEF msc_cancel_inflight, Undone, BothAborted
<1> HIDE DEF t
<1>3. /\ Local(t, u, d) /\ Base(u) /\ u.itf = t.itf /\ u.ctrl = t.ctrl
      /\ u.events = t.events /\ (Held(t.hw[d]) => Rest(u.hw[d]))
  BY <1>1, BothAbortedIs DEF Local
<1> HIDE DEF u
<1>4. "idle" \in Stages
  BY DEF Stages
<1>5. Edited(u, v, d) /\ v.itf[d].stage = "idle" /\ v.itf[d].recovery = u.itf[d].recovery
  BY <1>2, <1>3, <1>4, StageIs
<1> HIDE DEF v
<1>6. Local(w, v, d)
  BY <1>1, <1>3, <1>5, LocalThrough DEF Edited
<1>7. Settled(t, d) => Settled(v, d)
  <2>1. Settled(t, d) => Settled(u, d)
    BY <1>3, RestHeld DEF Settled
  <2>2. Settled(u, d) => Settled(v, d)
    BY <1>5, SettledIdle
  <2> QED BY <2>1, <2>2
<1>8. Mounted(t.itf[d]) /\ Held(t.hw[d]) /\ t.ctrl.d # d /\ (Calm(t.events, d) \/ t.ctrl = Quiet)
        => Loose(v, d)
  BY <1>3, <1>5 DEF Loose, Edited, Agrees, Mounted
<1> QED
  BY <1>1, <1>3, <1>5, <1>6, <1>7, <1>8 DEF Cancelled, v

(* A command is given up.                                                  *)
LEMMA AbortIs ==
  ASSUME NEW w, Base(w), NEW d \in Addrs
  PROVE  LET v == msc_abort(w, d) IN
         Local(w, v, d) /\ (Pending(w, d) /\ Leaves(w, d) => Settled(v, d))
<1> DEFINE u == msc_cancel_inflight(w, d)
           r == Rested(u, d)
           v == msc_abort(w, d)
<1>1. Local(w, u, d) /\ (Pending(w, d) /\ Leaves(w, d) => Cancelled(w, u, d))
  BY CancelIs
<1>2. Pending(w, d) => w.itf[d].open /\ (w.itf[d].recovery # "idle" \/ w.itf[d].stage # "idle")
  BY DEF Pending, Started, Settled, Mounted
<1>3. \/ v = w /\ ~Pending(w, d)
      \/ v = msc_start_recovery(r, d) /\ w.itf[d].recovery # "idle"
      \/ v = msc_start_recovery(u, d) /\ w.itf[d].recovery = "idle"
  BY <1>2 DEF msc_abort
<1> HIDE DEF u
<1>4. Base(u)
  BY <1>1 DEF Local
<1>5. /\ Edited(u, r, d) /\ r.itf[d].recovery = "idle" /\ r.itf[d].stage = u.itf[d].stage
  BY <1>4, RestedIs
<1> HIDE DEF r, v
<1>6. CASE v = w /\ ~Pending(w, d)
  <2>1. Local(w, v, d)
    BY <1>6, LocalSame
  <2> QED BY <2>1, <1>6 DEF v
<1>7. CASE v = msc_start_recovery(r, d) /\ w.itf[d].recovery # "idle"
  <2>1. Base(r) /\ Local(u, r, d)
    BY <1>5 DEF Edited
  <2>2. Local(r, v, d) /\ (Loose(r, d) => Settled(v, d))
    BY <1>5, <1>7, <2>1, StartRecoveryIs
  <2>3. Local(w, v, d)
    BY <1>1, <2>1, <2>2, LocalThrough
  <2>4. Cancelled(w, u, d) => Loose(u, d)
    BY <1>7 DEF Cancelled
  <2>5. Loose(u, d) => Loose(r, d)
    BY <1>5 DEF Loose, Edited, Agrees, Mounted
  <2> QED BY <1>1, <2>2, <2>3, <2>4, <2>5 DEF v
<1>8. CASE v = msc_start_recovery(u, d) /\ w.itf[d].recovery = "idle"
  <2>1. /\ Local(u, v, d) /\ (Loose(u, d) /\ u.itf[d].recovery = "idle" => Settled(v, d))
        /\ Settled(u, d) => Settled(v, d)
    BY <1>4, <1>8, StartRecoveryIs, SettledRecovers
  <2>2. Local(w, v, d)
    BY <1>1, <2>1, LocalThrough
  <2> QED BY <1>1, <1>8, <2>1, <2>2 DEF Cancelled, v
<1> QED
  BY <1>3, <1>6, <1>7, <1>8

----------------------------------------------------------------------------
(* A command is sent.  Those before it are told from it by their tags.     *)
LEMMA RetaggedIs ==
  ASSUME NEW tags
  PROVE  /\ \A x \in Items : Retagged(x, tags) \in Items
         /\ \A x \in Devices : Retagged(x, tags) \in Devices
<1>1. "old" \in Tags
  BY DEF Tags
<1>2. \A x \in Items : Retagged(x, tags) \in Items
  BY <1>1 DEF Retagged, Items
<1>3. \A x \in Devices : Retagged(x, tags) \in Devices
  <2> SUFFICES ASSUME NEW x \in Devices
               PROVE  [x EXCEPT !.tag = "old"] \in Devices
    BY DEF Retagged
  <2> QED BY <1>1 DEF Devices
<1> QED
  BY <1>2, <1>3

LEMMA OldEventsIs ==
  ASSUME NEW q \in Seq(Completions), NEW tags
  PROVE  OldEvents(q, tags) \in Seq(Completions) /\ Thinner(q, OldEvents(q, tags))
<1> DEFINE r == OldEvents(q, tags)
           f == [i \in DOMAIN r |-> i]
<1>1. \A i \in DOMAIN q : [q[i] EXCEPT !.item = Retagged(@, tags)] \in Completions
  <2> SUFFICES ASSUME NEW i \in DOMAIN q
               PROVE  [q[i] EXCEPT !.item = Retagged(@, tags)] \in Completions
    OBVIOUS
  <2>1. q[i] \in Completions
    BY QueueParts
  <2>2. Retagged(q[i].item, tags) \in Items
    BY <2>1, CompletionParts, RetaggedIs
  <2> DEFINE it == Retagged(q[i].item, tags)
  <2>3. [q[i] EXCEPT !.item = it] \in Completions
    <3> HIDE DEF it
    <3>1. it \in Items
      BY <2>2 DEF it
    <3> QED BY <2>1, <3>1 DEF Completions
  <2> QED BY <2>3
<1>2. DOMAIN r = DOMAIN q /\ DOMAIN q = 1..Len(q) /\ Len(q) \in Nat
  BY DEF OldEvents
<1>3. \A i \in DOMAIN q : r[i] \in Completions /\ r[i].d = q[i].d /\ r[i].ep = q[i].ep
  <2> SUFFICES ASSUME NEW i \in DOMAIN q
               PROVE  r[i] \in Completions /\ r[i].d = q[i].d /\ r[i].ep = q[i].ep
    OBVIOUS
  <2>1. r[i] = [q[i] EXCEPT !.item = Retagged(@, tags)]
    BY DEF OldEvents
  <2>2. q[i] \in Completions
    BY QueueParts
  <2> DEFINE it == Retagged(q[i].item, tags)
  <2>3. r[i] = [q[i] EXCEPT !.item = it] /\ r[i] \in Completions
    BY <1>1, <2>1
  <2> HIDE DEF it, r
  <2> QED BY <2>2, <2>3 DEF Completions
<1>4. r \in [1..Len(q) -> Completions]
  <2>1. r = [i \in DOMAIN q |-> r[i]]
    BY DEF OldEvents
  <2> HIDE DEF r
  <2> QED BY <1>2, <1>3, <2>1
<1> HIDE DEF r
<1>5. r \in Seq(Completions)
  BY <1>2, <1>4, SeqDef
<1>6. f \in [DOMAIN r -> DOMAIN q] /\ Leads(f, q, r)
  BY <1>2, <1>3 DEF Leads
<1> QED
  BY <1>5, <1>6 DEF Thinner, r

LEMMA OldHwIs ==
  ASSUME NEW h \in Hws, NEW tags
  PROVE  OldXfers(h, tags) \in Hws /\ (Rest(h) => Rest(OldXfers(h, tags)))
<1>1. DOMAIN h = {"in", "out"} /\ "old" \in Tags
  BY DEF Hws, Tags
<1>2. h["in"] \in Xfers /\ h["out"] \in Xfers
  BY DEF Hws
<1> DEFINE g(ep) == [h[ep] EXCEPT !.for = IF @ \in tags THEN "old" ELSE @]
<1>3. \A ep \in Eps : g(ep) \in Xfers /\ g(ep).busy = h[ep].busy /\ g(ep).k = h[ep].k
  BY <1>1, <1>2 DEF Xfers, Eps
<1>4. OldXfers(h, tags) = [ep \in {"in", "out"} |-> g(ep)]
  BY <1>1 DEF OldXfers
<1> HIDE DEF g
<1>5. OldXfers(h, tags) \in Hws
  BY <1>3, <1>4 DEF Hws, Eps
<1>6. Rest(h) => Rest(OldXfers(h, tags))
  BY <1>3, <1>4 DEF Rest, Idle, Eps
<1> QED
  BY <1>5, <1>6

LEMMA OldDevIs ==
  ASSUME NEW x \in Devices, NEW tags
  PROVE  OldDrive(x, tags) \in Devices
<1> DEFINE y == Retagged(x, tags)
           q == [i \in DOMAIN y.inq |-> Retagged(y.inq[i], tags)]
<1>1. y \in Devices
  BY RetaggedIs
<1>2. OldDrive(x, tags) = [y EXCEPT !.inq = q]
  BY DEF OldDrive
<1> HIDE DEF y
<1>3. y.inq \in Seq(Items)
  BY <1>1 DEF Devices
<1>4. DOMAIN y.inq = 1..Len(y.inq) /\ Len(y.inq) \in Nat /\ \A i \in DOMAIN y.inq : y.inq[i] \in Items
  BY <1>3
<1>5. \A i \in DOMAIN y.inq : Retagged(y.inq[i], tags) \in Items
  BY <1>4, RetaggedIs
<1>6. q \in [1..Len(y.inq) -> Items]
  BY <1>4, <1>5
<1>7. q \in Seq(Items)
  BY <1>4, <1>6, SeqDef
<1> HIDE DEF q
<1> QED
  BY <1>1, <1>2, <1>7 DEF Devices

LEMMA OlderIs ==
  ASSUME NEW w, Base(w), NEW d \in Addrs, NEW tags
  PROVE  LET v == Older(w, d, tags) IN
         /\ Local(w, v, d) /\ Base(v) /\ v.itf = w.itf /\ v.ctrl = w.ctrl
         /\ Rest(w.hw[d]) => Rest(v.hw[d])
<1> DEFINE q == OldEvents(w.events, tags)
           h == OldXfers(w.hw[d], tags)
           x == OldDrive(w.dev[d], tags)
           a == PutEvents(w, q)
           b == PutHw(a, d, h)
           v == PutDev(b, d, x)
<1>1. w \in Worlds /\ Pipe(w) /\ w.events \in Seq(Completions) /\ w.hw[d] \in Hws
        /\ w.dev[d] \in Devices
  BY WorldParts, DeviceParts DEF Base
<1>2. Older(w, d, tags) = v
  <2>1. Older(w, d, tags) = [w EXCEPT !.events = q, !.hw[d] = h, !.dev[d] = x]
    BY DEF Older
  <2> HIDE DEF q, h, x
  <2> QED BY <1>1, <2>1 DEF PutEvents, PutHw, PutDev, Worlds
<1>3. /\ q \in Seq(Completions) /\ Thinner(w.events, q) /\ h \in Hws /\ x \in Devices
      /\ Rest(w.hw[d]) => Rest(h)
  BY <1>1, OldEventsIs, OldHwIs, OldDevIs
<1> HIDE DEF q, h, x
<1>4. /\ a \in Worlds /\ a.events = q /\ a.itf = w.itf /\ a.hw = w.hw /\ a.ctrl = w.ctrl
      /\ a.c = w.c
  BY <1>1, <1>3, PutEventsIs
<1> HIDE DEF a
<1>5. /\ b \in Worlds /\ b.hw[d] = h /\ \A e \in Addrs : e # d => b.hw[e] = a.hw[e]
      /\ b.itf = a.itf /\ b.ctrl = a.ctrl /\ b.events = a.events /\ b.c = a.c
  BY <1>3, <1>4, PutHwIs
<1> HIDE DEF b
<1>6. /\ v \in Worlds /\ v.itf = b.itf /\ v.hw = b.hw /\ v.ctrl = b.ctrl
      /\ v.events = b.events /\ v.c = b.c
  <2>1. b \in Worlds /\ x \in Devices
    BY <1>3, <1>5
  <2> QED BY <2>1, PutDevIs
<1> HIDE DEF v
<1>7. Pipe(v)
  <2>1. \A e : (NoCtl(w.events) => NoCtl(q)) /\ (OneCtl(w.events, e) => OneCtl(q, e))
    BY <1>1, <1>3, ThinnerKeeps
  <2> QED BY <1>1, <1>4, <1>5, <1>6, <2>1 DEF Pipe
<1>8. Local(w, v, d) /\ Base(v)
  BY <1>3, <1>4, <1>5, <1>6, <1>7 DEF Local, Apart, Base, Mine
<1> QED
  BY <1>2, <1>3, <1>4, <1>5, <1>6, <1>8

LEMMA CalmThinner ==
  ASSUME NEW w \in Worlds, NEW v \in Worlds, NEW d, Calm(w.events, d),
         Thinner(w.events, v.events)
  PROVE  Calm(v.events, d)
BY WorldParts, ThinnerKeeps

LEMMA SubmitIs ==
  ASSUME NEW w, Base(w), NEW d \in Addrs, NEW op \in Ops, NEW tag \in {"main", "sense"}
  PROVE  LET v == msc_scsi_submit(w, d, op, tag) IN
         /\ Local(w, v, d)
         /\ Settled(w, d) /\ w.itf[d].recovery = "idle" =>
               Settled(v, d) \/ (Started(v, d) /\ v.itf[d].tag = tag)
<1> DEFINE tags == IF tag = "main" THEN {"main", "sense"} ELSE {"sense"}
           o == Older(w, d, tags)
           x == [o.itf[d] EXCEPT !.op = op, !.tag = tag, !.stage = "cmd"]
           u == PutItf(o, d, x)
           n == [u EXCEPT !.itf[d].stage = "idle"]
           v == msc_scsi_submit(w, d, op, tag)
<1>1. /\ Local(w, o, d) /\ Base(o) /\ o.itf = w.itf /\ o.ctrl = w.ctrl
      /\ Rest(w.hw[d]) => Rest(o.hw[d])
  <2> HIDE DEF tags
  <2> QED BY OlderIs
<1>2. o \in Worlds /\ o.itf[d] \in Itfs /\ tag \in Tags
  BY <1>1, DeviceParts DEF Base, Tags
<1>3. [o EXCEPT !.itf[d].op = op, !.itf[d].tag = tag, !.itf[d].stage = "cmd"] = u
  <2> HIDE DEF o
  <2>1. [o.itf EXCEPT ![d].op = op, ![d].tag = tag, ![d].stage = "cmd"]
          = [o.itf EXCEPT ![d] = x]
    BY <1>2, WorldParts DEF Itfs
  <2>2. [o EXCEPT !.itf[d].op = op, !.itf[d].tag = tag, !.itf[d].stage = "cmd"]
          = [o EXCEPT !.itf = [@ EXCEPT ![d].op = op, ![d].tag = tag, ![d].stage = "cmd"]]
    BY <1>2 DEF Worlds
  <2> HIDE DEF x
  <2> QED BY <2>1, <2>2 DEF PutItf
<1>4. \/ v = usbh_edpt_xfer(u, d, "out", "cbw", tag) /\ w.itf[d].bot
      \/ v = n
      \/ v = control_xfer(u, d, "adsc", "adsc") /\ w.ctrl = Quiet /\ ~w.itf[d].bot
  BY <1>3 DEF msc_scsi_submit
<1> HIDE DEF o, v
<1>5. /\ x \in Itfs /\ x.tag = tag /\ x.op = op /\ x.stage = "cmd" /\ x.open = o.itf[d].open
      /\ x.mounted = o.itf[d].mounted /\ x.recovery = o.itf[d].recovery
      /\ x.bot = o.itf[d].bot
  BY <1>2 DEF Itfs
<1> HIDE DEF x
<1>6. /\ Local(o, u, d) /\ Base(u) /\ u.itf[d] = x /\ u.hw = o.hw /\ u.ctrl = o.ctrl
      /\ u.events = o.events
  BY <1>1, <1>5, ItfLocal
<1> HIDE DEF u
<1>7. Local(w, u, d)
  BY <1>1, <1>6, LocalThrough
<1>8. ASSUME Settled(w, d), w.itf[d].recovery = "idle" PROVE Between(u, d)
  <2>1. Calm(o.events, d)
    <3>1. /\ w \in Worlds /\ o \in Worlds /\ Calm(w.events, d)
          /\ Thinner(w.events, o.events)
      BY <1>1, <1>8 DEF Settled, Base, Local
    <3> QED BY <3>1, CalmThinner
  <2>2. Mounted(w.itf[d]) /\ Rest(w.hw[d]) /\ w.ctrl.d # d
    BY <1>8 DEF Settled
  <2>3. Mounted(u.itf[d]) /\ u.itf[d].recovery = "idle"
    BY <1>1, <1>5, <1>6, <1>8, <2>2 DEF Mounted
  <2>4. Rest(u.hw[d]) /\ Calm(u.events, d) /\ u.ctrl.d # d
    BY <1>1, <1>6, <2>1, <2>2
  <2> QED BY <2>3, <2>4 DEF Between
<1>9. CASE v = usbh_edpt_xfer(u, d, "out", "cbw", tag) /\ w.itf[d].bot
  <2>1. /\ v = usbh_edpt_xfer(u, d, "out", "cbw", u.itf[d].tag) /\ u.itf[d].stage # "idle"
        /\ "cbw" = StageK(u.itf[d]) /\ "out" = StageEp(u.itf[d]) /\ u.itf[d].bot
    BY <1>1, <1>5, <1>6, <1>9 DEF StageK, StageEp
  <2>2. /\ Local(u, v, d) /\ v.itf = u.itf
        /\ Between(u, d) => Started(v, d)
    BY <2>1, <1>6, StageXfer
  <2>3. Local(w, v, d)
    BY <1>7, <2>2, LocalThrough
  <2> QED BY <1>5, <1>6, <1>8, <2>2, <2>3 DEF v
<1>10. CASE v = n
  <2>1. "idle" \in Stages
    BY DEF Stages
  <2>2. Edited(u, v, d) /\ v.itf[d].stage = "idle" /\ v.itf[d].recovery = u.itf[d].recovery
    BY <1>6, <1>10, <2>1, StageIs
  <2>3. Local(w, v, d)
    BY <1>7, <2>2, LocalThrough DEF Edited
  <2>4. Between(u, d) => Settled(v, d)
    BY <2>2, EditedBetween, BetweenIdle DEF Between
  <2> QED BY <1>8, <2>3, <2>4 DEF v
<1>11. CASE v = control_xfer(u, d, "adsc", "adsc") /\ w.ctrl = Quiet /\ ~w.itf[d].bot
  <2>1. u.ctrl = Quiet /\ "adsc" \in Reqs /\ "adsc" \in Cbs
    BY <1>1, <1>6, <1>11 DEF Reqs, Cbs
  <2>2. /\ Local(u, v, d) /\ v.itf = u.itf /\ v.hw = u.hw /\ v.ctrl.d = d
        /\ v.events = u.events /\ v.ctrl.cb = "adsc"
    BY <2>1, <1>6, <1>11, AskLocal
  <2>3. Local(w, v, d)
    BY <1>7, <2>2, LocalThrough
  <2>4. Between(u, d) => Started(v, d)
    BY <1>1, <1>5, <1>6, <1>11, <2>2 DEF Between, Started, Asked, Fits
  <2> QED BY <1>5, <1>6, <1>8, <2>2, <2>3, <2>4 DEF v
<1> QED
  BY <1>4, <1>9, <1>10, <1>11

----------------------------------------------------------------------------
(* Volumes come and go with their devices.                                 *)
Beside(w, v) ==
    /\ v \in Worlds /\ v.itf = w.itf /\ v.hw = w.hw /\ v.ctrl = w.ctrl
    /\ v.events = w.events /\ v.c = w.c

LEMMA BesideLocal ==
  ASSUME NEW w, Base(w), NEW v, Beside(w, v), NEW d
  PROVE  Local(w, v, d) /\ Base(v)
<1>1. Pipe(v) /\ Thinner(w.events, v.events)
  BY PipeSame, ThinnerSame DEF Base, Beside
<1> QED
  BY <1>1 DEF Local, Base, Beside, Apart, Mine

LEMMA Least ==
  ASSUME NEW S, S \subseteq Nat, S # {}
  PROVE  \E x \in S : \A y \in S : x <= y
<1> DEFINE R == {p \in Nat \X Nat : p[1] < p[2]}
<1>1. IsWellFoundedOn({ss \in Nat \X Nat : ss[1] < ss[2]}, Nat)
  BY NatLessThanWellFounded DEF OpToRel
<1>2. \E x \in S : \A y \in S : ~(<<y, x>> \in R)
  <2>1. IsWellFoundedOn(R, Nat)
    BY <1>1
  <2> HIDE DEF R
  <2> QED BY <2>1, WFMin
<1>3. \A x, y \in Nat : x < y => <<x, y>> \in R
  OBVIOUS
<1> HIDE DEF R
<1>4. PICK x \in S : \A y \in S : ~(<<y, x>> \in R)
  BY <1>2
<1>5. ASSUME NEW y \in S PROVE x <= y
  <2>1. x \in Nat /\ y \in Nat /\ ~(<<y, x>> \in R)
    BY <1>4
  <2>2. ~(y < x)
    BY <2>1, <1>3
  <2> QED BY <2>1, <2>2
<1> QED BY <1>5

LEMMA MinIs ==
  ASSUME NEW S, S \subseteq Vols, S # {}
  PROVE  Min1(S) \in S
<1>1. \E x \in S : \A y \in S : x <= y
  <2>1. S \subseteq Nat
    OBVIOUS
  <2> QED BY <2>1, Least
<1> QED
  BY <1>1 DEF Min1

LEMMA MountCbIs ==
  ASSUME NEW w \in Worlds, NEW d \in Addrs
  PROVE  Beside(w, msc_mount_cb(w, d))
<1> DEFINE free == {v \in Vols : w.pdrv[v].status = "free"}
<1>1. CASE free = {}
  BY <1>1 DEF msc_mount_cb, Beside
<1>2. CASE free # {}
  <2> DEFINE s == Min1(free)
             p == [w.pdrv[s] EXCEPT !.status = "registered", !.d = d, !.fs = NoFs(s),
                                    !.listed = TRUE]
             u == PutSlot(w, s, p)
             k == w.gen[s] + 1
             g == [w.gen EXCEPT ![s] = k]
             v == [u EXCEPT !.gen = g]
  <2>1. s \in Vols
    BY <1>2, MinIs
  <2>2. msc_mount_cb(w, d)
          = [w EXCEPT !.pdrv[s].status = "registered", !.pdrv[s].d = d, !.pdrv[s].fs = NoFs(s),
                      !.pdrv[s].listed = TRUE, !.gen[s] = @ + 1]
    BY <1>2 DEF msc_mount_cb
  <2> HIDE DEF s
  <2>3. w.pdrv[s] \in Slots /\ w.pdrv \in [Vols -> Slots] /\ w.gen \in [Vols -> Nat]
    BY <2>1, WorldParts
  <2>4. [w.pdrv EXCEPT ![s].status = "registered", ![s].d = d, ![s].fs = NoFs(s), ![s].listed = TRUE]
          = [w.pdrv EXCEPT ![s] = p]
    BY <2>1, <2>3 DEF Slots
  <2>12. k \in Nat
    BY <2>1, <2>3
  <2>5. p \in Slots
    BY <2>1, <2>3, NoFsIs DEF Slots
  <2>6. msc_mount_cb(w, d) = [w EXCEPT !.pdrv = [@ EXCEPT ![s].status = "registered", ![s].d = d,
                                                         ![s].fs = NoFs(s), ![s].listed = TRUE],
                                       !.gen = [@ EXCEPT ![s] = k]]
    BY <2>2 DEF Worlds
  <2> HIDE DEF p, k
  <2>7. u.gen = w.gen
    BY DEF PutSlot, Worlds
  <2>8. msc_mount_cb(w, d) = v
    <3>1. msc_mount_cb(w, d) = [w EXCEPT !.pdrv = [w.pdrv EXCEPT ![s] = p], !.gen = g]
      BY <2>4, <2>6, <2>7
    <3> QED BY <3>1 DEF PutSlot, Worlds
  <2>9. u \in Worlds /\ u.itf = w.itf /\ u.hw = w.hw /\ u.ctrl = w.ctrl
          /\ u.events = w.events /\ u.c = w.c
    BY <2>1, <2>5, PutSlotIs
  <2>10. g \in [Vols -> Nat]
    BY <2>3, <2>12
  <2> HIDE DEF u, g
  <2>11. Beside(u, v)
    BY <2>9, <2>10 DEF Beside, Worlds
  <2> QED BY <2>8, <2>9, <2>11 DEF Beside
<1> QED
  BY <1>1, <1>2

LEMMA UmountCbIs ==
  ASSUME NEW w \in Worlds, NEW d \in Addrs
  PROVE  Beside(w, msc_umount_cb(w, d))
<1> DEFINE gone == {v \in Vols : w.pdrv[v].status # "free" /\ w.pdrv[v].d = d}
           p == [v \in Vols |-> IF v \in gone THEN FreeSlot ELSE w.pdrv[v]]
           g == [v \in Vols |-> w.gen[v] + IF v \in gone THEN 1 ELSE 0]
           v1 == [w EXCEPT !.pdrv = p, !.gen = g]
<1>1. msc_umount_cb(w, d) = v1
  BY DEF msc_umount_cb
<1>2. FreeSlot \in Slots
  BY FailedIsVal, NoFsIs DEF FreeSlot, Slots
<1> HIDE DEF gone
<1>3. p \in [Vols -> Slots] /\ g \in [Vols -> Nat]
  BY <1>2, WorldParts
<1> HIDE DEF p, g
<1>4. Beside(w, v1)
  BY <1>3 DEF Beside, Worlds
<1> QED
  BY <1>1, <1>4

(* A device that is open and not yet mounted.                              *)
Fresh(w, d) ==
    /\ w.itf[d].open /\ w.itf[d].stage = "idle" /\ w.itf[d].recovery = "idle"
    /\ Rest(w.hw[d]) /\ Calm(w.events, d)

LEMMA MountedNowIs ==
  ASSUME NEW w, Base(w), NEW d \in Addrs
  PROVE  LET v == msc_mounted_now(w, d) IN
         Local(w, v, d) /\ (Fresh(w, d) /\ w.ctrl.d # d => Settled(v, d))
<1> DEFINE x == [w.itf[d] EXCEPT !.mounted = TRUE]
           u == PutItf(w, d, x)
           v == msc_mounted_now(w, d)
<1>1. w \in Worlds /\ w.itf[d] \in Itfs
  BY DeviceParts DEF Base
<1>2. v = msc_mount_cb(u, d)
  <2>1. [w EXCEPT !.itf[d].mounted = TRUE] = u
    BY <1>1 DEF PutItf, Worlds, Itfs
  <2> HIDE DEF u
  <2> QED BY <2>1 DEF msc_mounted_now
<1>3. /\ x \in Itfs /\ x.mounted /\ x.open = w.itf[d].open /\ x.stage = w.itf[d].stage
      /\ x.recovery = w.itf[d].recovery
  BY <1>1 DEF Itfs
<1> HIDE DEF x, v
<1>4. /\ Local(w, u, d) /\ Base(u) /\ u.itf[d] = x /\ u.hw = w.hw /\ u.ctrl = w.ctrl
      /\ u.events = w.events
  BY <1>3, ItfLocal
<1> HIDE DEF u
<1>5. Beside(u, v)
  BY <1>2, <1>4, MountCbIs DEF Base
<1>6. Local(u, v, d)
  BY <1>4, <1>5, BesideLocal
<1>7. Local(w, v, d)
  BY <1>4, <1>6, LocalThrough
<1>8. Fresh(w, d) /\ w.ctrl.d # d => Settled(v, d)
  BY <1>3, <1>4, <1>5 DEF Fresh, Settled, Beside, Mounted
<1> QED
  BY <1>7, <1>8 DEF v

Opening(w, d) ==
    Fresh(w, d) /\ ~w.itf[d].mounted /\ w.ctrl.d = d /\ w.ctrl.cb = "max_lun"

LEMMA NoItfIs ==
  /\ NoItf \in Itfs /\ ~NoItf.open /\ ~NoItf.mounted /\ NoItf.stage = "idle"
  /\ NoItf.recovery = "idle"
BY FailedIsVal DEF NoItf, Itfs, Ops, Requests, Tags

LEMMA SetConfigIs ==
  ASSUME NEW w, Base(w), NEW d \in Addrs
  PROVE  LET v == msc_class_driver_set_config(w, d) IN
         /\ Local(w, v, d)
         /\ Rest(w.hw[d]) /\ Calm(w.events, d) /\ w.ctrl = Quiet
               => Opening(v, d) \/ Settled(v, d)
<1> DEFINE bot == w.dev[d].bot
           x == [NoItf EXCEPT !.open = TRUE, !.bot = bot]
           u == PutItf(w, d, x)
           v == msc_class_driver_set_config(w, d)
<1>1. w \in Worlds /\ bot \in BOOLEAN
  BY DeviceParts DEF Base, Devices
<1>2. v = msc_mounted_now(u, d) \/ (v = control_xfer(u, d, "max_lun", "max_lun") /\ u.ctrl = Quiet)
  <2>1. [w EXCEPT !.itf[d] = x] = u
    BY <1>1 DEF PutItf, Worlds
  <2>2. [w EXCEPT !.itf[d] = [NoItf EXCEPT !.open = TRUE, !.bot = w.dev[d].bot]] = u
    BY <2>1
  <2> HIDE DEF u
  <2> QED BY <2>2 DEF msc_class_driver_set_config
<1> HIDE DEF bot
<1>3. /\ x \in Itfs /\ x.open /\ ~x.mounted /\ x.stage = "idle" /\ x.recovery = "idle"
  BY <1>1, NoItfIs DEF Itfs
<1> HIDE DEF x, v
<1>4. /\ Local(w, u, d) /\ Base(u) /\ u.itf[d] = x /\ u.hw = w.hw /\ u.ctrl = w.ctrl
      /\ u.events = w.events
  BY <1>1, <1>3, ItfLocal
<1> HIDE DEF u
<1>5. Rest(w.hw[d]) /\ Calm(w.events, d) => Fresh(u, d)
  BY <1>3, <1>4 DEF Fresh
<1>6. CASE v = msc_mounted_now(u, d)
  <2>1. Local(u, v, d) /\ (Fresh(u, d) /\ u.ctrl.d # d => Settled(v, d))
    BY <1>4, <1>6, MountedNowIs
  <2>2. Local(w, v, d)
    BY <1>4, <2>1, LocalThrough
  <2>3. w.ctrl = Quiet => u.ctrl.d # d
    BY <1>4, QuietApart
  <2> QED BY <1>5, <2>1, <2>2, <2>3 DEF v
<1>7. CASE v = control_xfer(u, d, "max_lun", "max_lun") /\ u.ctrl = Quiet
  <2>1. "max_lun" \in Reqs /\ "max_lun" \in Cbs
    BY DEF Reqs, Cbs
  <2>2. /\ Local(u, v, d) /\ v.itf = u.itf /\ v.hw = u.hw /\ v.ctrl.d = d
        /\ v.events = u.events /\ v.ctrl.cb = "max_lun"
    BY <1>4, <1>7, <2>1, AskLocal
  <2>3. Local(w, v, d)
    BY <1>4, <2>2, LocalThrough
  <2>4. Fresh(u, d) => Opening(v, d)
    BY <1>3, <1>4, <2>2 DEF Fresh, Opening
  <2> QED BY <1>5, <2>3, <2>4 DEF v
<1> QED
  BY <1>2, <1>6, <1>7

Shut(w, d) ==
    /\ ~w.itf[d].open /\ ~w.itf[d].mounted /\ w.itf[d].stage = "idle"
    /\ w.itf[d].recovery = "idle" /\ Rest(w.hw[d]) /\ w.ctrl.d # d

LEMMA CloseIs ==
  ASSUME NEW w, Base(w), NEW d \in Addrs
  PROVE  LET v == msc_class_driver_close(w, d) IN
         /\ Local(w, v, d)
         /\ IF w.itf[d].open THEN Shut(v, d) ELSE v = w
<1> DEFINE a == msc_cancel_inflight(w, d)
           b == Rested(a, d)
           u == IF b.itf[d].mounted THEN msc_umount_cb(b, d) ELSE b
           h == [in |-> NoXfer, out |-> NoXfer]
           y == PutItf(u, d, NoItf)
           x == PutHw(y, d, h)
           v == msc_class_driver_close(w, d)
<1>1. CASE ~w.itf[d].open
  <2>1. v = w
    BY <1>1 DEF msc_class_driver_close
  <2> HIDE DEF v
  <2>2. Local(w, v, d)
    BY <2>1, LocalSame
  <2> QED BY <1>1, <2>1, <2>2 DEF v
<1>2. CASE w.itf[d].open
  <2>1. v = LET z == [u EXCEPT !.itf[d] = NoItf, !.hw[d] = h] IN
            IF z.ctrl.d = d THEN control_drop(z) ELSE z
    BY <1>2 DEF msc_class_driver_close
  <2>2. Local(w, a, d)
    BY CancelIs
  <2> HIDE DEF a
  <2>3. Local(a, b, d)
    BY <2>2, RestedIs DEF Local, Edited
  <2> HIDE DEF b
  <2>4. Local(b, u, d)
    <3>1. Base(b) /\ b \in Worlds
      BY <2>3 DEF Local, Base
    <3>2. CASE b.itf[d].mounted
      <4>1. Beside(b, u)
        BY <3>1, <3>2, UmountCbIs
      <4> QED BY <3>1, <4>1, BesideLocal
    <3>3. CASE ~b.itf[d].mounted
      BY <3>1, <3>3, LocalSame
    <3> QED BY <3>2, <3>3
  <2> HIDE DEF u
  <2>5. Base(u) /\ u \in Worlds /\ h \in Hws /\ NoItf \in Itfs
    BY <2>4, NoXferIs, NoItfIs DEF Local, Base, Hws
  <2>6. [u EXCEPT !.itf[d] = NoItf, !.hw[d] = h] = x
    <3> HIDE DEF h
    <3> QED BY <2>5 DEF PutItf, PutHw, Worlds
  <2>7. Rest(h)
    BY NoXferIs DEF Rest, Eps, Idle
  <2> HIDE DEF h
  <2>8. Local(u, y, d) /\ Base(y) /\ y.itf[d] = NoItf
    BY <2>5, ItfLocal
  <2> HIDE DEF y
  <2>9. Local(y, x, d) /\ Base(x) /\ x.itf = y.itf /\ x.hw[d] = h
    BY <2>5, <2>8, HwLocal
  <2>10. v = IF x.ctrl.d = d THEN control_drop(x) ELSE x
    BY <2>1, <2>6
  <2> HIDE DEF x, v
  <2>11. Local(w, x, d)
    BY <2>2, <2>3, <2>4, <2>8, <2>9, LocalThrough
  <2>12. CASE x.ctrl.d = d
    <3>1. Local(x, v, d) /\ v.itf = x.itf /\ v.hw = x.hw /\ v.ctrl = Quiet
      BY <2>9, <2>10, <2>12, DropLocal
    <3>2. Local(w, v, d)
      BY <2>11, <3>1, LocalThrough
    <3>3. v.ctrl.d # d
      BY <3>1, QuietApart
    <3> QED BY <1>2, <2>7, <2>8, <2>9, <3>1, <3>2, <3>3, NoItfIs DEF Shut, v
  <2>13. CASE x.ctrl.d # d
    BY <1>2, <2>7, <2>8, <2>9, <2>10, <2>11, <2>13, NoItfIs DEF Shut, v
  <2> QED BY <2>12, <2>13
<1> QED
  BY <1>1, <1>2

----------------------------------------------------------------------------
(* tuh_task delivers a completion.                                         *)
Works(w, d) == Shut(w, d) \/ Opening(w, d) \/ Settled(w, d) \/ Started(w, d)

(* A device goes on, with the command it has or without one.               *)
Goes(w, v, d) ==
    \/ Shut(v, d) \/ Opening(v, d) \/ Settled(v, d)
    \/ Started(v, d) /\ Started(w, d) /\ v.itf[d].tag = w.itf[d].tag

LEMMA ControlCbIs ==
  ASSUME NEW w, Base(w), NEW d \in Addrs, NEW cb \in Cbs, NEW ok
  PROVE  LET v == tuh_control_cb(w, d, cb, ok) IN
         /\ Local(w, v, d)
         /\ cb = "recovery" /\ Loose(w, d) /\ Calm(w.events, d) => Settled(v, d)
         /\ cb = "max_lun" /\ Fresh(w, d) /\ w.ctrl.d # d => Settled(v, d)
         /\ Fits(w.itf[d].stage, w.itf[d].bot, cb) /\ Between(w, d) => On(w, v, d)
<1> DEFINE v == tuh_control_cb(w, d, cb, ok)
<1>1. CASE cb = "recovery"
  <2>1. v = msc_recovery_xfer_cb(w, d, ok)
    BY <1>1 DEF tuh_control_cb
  <2> HIDE DEF v
  <2>2. Local(w, v, d) /\ (Loose(w, d) /\ Calm(w.events, d) => Settled(v, d))
    BY <2>1, RecoveryCbIs
  <2> QED BY <1>1, <2>2 DEF Fits, v
<1>2. CASE cb \in {"csw", "csw again"}
  <2> DEFINE again == cb = "csw again"
  <2>1. v = msc_bot_clear_for_csw_cb(w, d, ok, again)
    <3>1. CASE cb = "csw"
      <4>1. v = msc_bot_clear_for_csw_cb(w, d, ok, FALSE) /\ again = FALSE
        BY <3>1 DEF tuh_control_cb
      <4> HIDE DEF v, again
      <4> QED BY <4>1
    <3>2. CASE cb = "csw again"
      <4>1. v = msc_bot_clear_for_csw_cb(w, d, ok, TRUE) /\ again = TRUE
        BY <3>2 DEF tuh_control_cb
      <4> HIDE DEF v, again
      <4> QED BY <4>1
    <3> QED BY <1>2, <3>1, <3>2
  <2> HIDE DEF v, again
  <2>2. Local(w, v, d) /\ (Between(w, d) /\ w.itf[d].bot => On(w, v, d))
    BY <2>1, ClearForCswIs
  <2> QED BY <1>2, <2>2 DEF Fits, v
<1>3. CASE cb = "adsc"
  <2>1. v = msc_cbi_adsc_complete(w, d, ok)
    BY <1>3 DEF tuh_control_cb
  <2> HIDE DEF v
  <2>2. Local(w, v, d) /\ (Between(w, d) => On(w, v, d))
    BY <2>1, AdscCompleteIs
  <2> QED BY <1>3, <2>2 DEF Fits, v
<1>4. CASE cb = "max_lun"
  <2>1. v = msc_mounted_now(w, d)
    BY <1>4 DEF tuh_control_cb
  <2> HIDE DEF v
  <2>2. Local(w, v, d) /\ (Fresh(w, d) /\ w.ctrl.d # d => Settled(v, d))
    BY <2>1, MountedNowIs
  <2> QED BY <1>4, <2>2 DEF Fits, v
<1> QED
  BY <1>1, <1>2, <1>3, <1>4 DEF Cbs

(* The event is taken from the queue.                                      *)
Taken(w) == PutEvents(w, Tail(w.events))

LEMMA TakenIs ==
  ASSUME NEW w, Base(w), w.events # <<>>, NEW d
  PROVE  LET v == Taken(w) IN
         /\ v \in Worlds /\ v.events = Tail(w.events) /\ v.itf = w.itf /\ v.hw = w.hw
         /\ v.ctrl = w.ctrl /\ v.c = w.c /\ Thinner(w.events, v.events)
         /\ Head(w.events).ep # "ctl" => Local(w, v, d) /\ Base(v)
<1> DEFINE q == Tail(w.events)
           v == PutEvents(w, q)
<1>1. w \in Worlds /\ Pipe(w) /\ w.events \in Seq(Completions)
  BY WorldParts DEF Base
<1>2. q \in Seq(Completions) /\ Thinner(w.events, q)
  BY <1>1, TailParts, TailThinner
<1> HIDE DEF q
<1>3. /\ v \in Worlds /\ v.events = q /\ v.itf = w.itf /\ v.hw = w.hw
      /\ v.ctrl = w.ctrl /\ v.c = w.c
  BY <1>1, <1>2, PutEventsIs
<1> HIDE DEF v
<1>4. Pipe(v)
  <2>1. \A e : (NoCtl(w.events) => NoCtl(q)) /\ (OneCtl(w.events, e) => OneCtl(q, e))
    BY <1>1, <1>2, ThinnerKeeps
  <2> QED BY <1>1, <1>3, <2>1 DEF Pipe
<1>5. Local(w, v, d) /\ Base(v)
  BY <1>2, <1>3, <1>4 DEF Local, Base, Apart, Mine
<1> QED
  BY <1>2, <1>3, <1>5 DEF v, q, Taken

LEMMA GoneIs ==
  ASSUME NEW w, Base(w), w.events # <<>>, NEW d \in Addrs, Head(w.events).ep = "gone"
  PROVE  LET v == msc_class_driver_close(Taken(w), d) IN
         Local(w, v, d) /\ (Works(w, d) => Goes(w, v, d))
<1> DEFINE u == Taken(w)
           v == msc_class_driver_close(u, d)
<1>1. /\ Local(w, u, d) /\ Base(u) /\ u.itf = w.itf /\ u.hw = w.hw /\ u.ctrl = w.ctrl
  <2>1. Head(w.events).ep # "ctl"
    OBVIOUS
  <2> QED BY <2>1, TakenIs
<1> HIDE DEF u
<1>2. Local(u, v, d) /\ IF u.itf[d].open THEN Shut(v, d) ELSE v = u
  BY <1>1, CloseIs
<1> HIDE DEF v
<1>3. Local(w, v, d)
  BY <1>1, <1>2, LocalThrough
<1>4. ~w.itf[d].open /\ Works(w, d) => Shut(w, d)
  BY DEF Works, Opening, Fresh, Settled, Started, Mounted
<1>5. Shut(w, d) => Shut(u, d)
  BY <1>1 DEF Shut
<1> QED
  BY <1>1, <1>2, <1>3, <1>4, <1>5 DEF Goes, u, v

LEMMA CtlIs ==
  ASSUME NEW w, Base(w), w.events # <<>>, Head(w.events).ep = "ctl", NEW ok
  PROVE  LET d == Head(w.events).d
             v == tuh_control_cb(PutCtrl(Taken(w), Quiet), d, w.ctrl.cb, ok) IN
         /\ Local(w, v, d)
         /\ Works(w, d) => Goes(w, v, d)
<1> DEFINE d == Head(w.events).d
           t == Taken(w)
           u == PutCtrl(t, Quiet)
           cb == w.ctrl.cb
           v == tuh_control_cb(u, d, cb, ok)
<1>0. /\ w \in Worlds /\ Pipe(w) /\ w.events \in Seq(Completions)
      /\ Head(w.events) \in Completions /\ d \in Addrs /\ d # 0
  <2>1. w \in Worlds /\ Pipe(w) /\ w.events \in Seq(Completions)
    BY WorldParts DEF Base
  <2>2. Head(w.events) \in Completions
    BY <2>1, TailParts
  <2> QED BY <2>1, <2>2, CompletionParts
<1>1. OneCtl(w.events, w.ctrl.d) /\ w.ctrl.d # 0
  <2>1. ~NoCtl(w.events)
    BY <1>0, TailOf
  <2> QED BY <1>0, <2>1 DEF Pipe
<1>2. w.ctrl.d = d /\ NoCtl(Tail(w.events))
  BY <1>0, <1>1, TailOf
<1>3. cb \in Cbs
  BY <1>0, <1>1 DEF Pipe
<1>4. Early(w.events, d) => Calm(Tail(w.events), d)
  BY <1>0, TailOf
<1> HIDE DEF d, cb
<1>5. /\ t \in Worlds /\ t.events = Tail(w.events) /\ t.itf = w.itf /\ t.hw = w.hw
      /\ t.ctrl = w.ctrl /\ t.c = w.c /\ Thinner(w.events, t.events)
  BY TakenIs
<1> HIDE DEF t
<1>6. /\ u \in Worlds /\ u.ctrl = Quiet /\ u.itf = t.itf /\ u.hw = t.hw
      /\ u.events = t.events /\ u.c = t.c
  BY <1>5, QuietIs, PutCtrlIs
<1> HIDE DEF u
<1>7. Pipe(u)
  BY <1>2, <1>5, <1>6, QuietIs DEF Pipe
<1>8. Local(w, u, d) /\ Base(u)
  BY <1>2, <1>5, <1>6, <1>7 DEF Local, Base, Apart, Mine
<1>9. /\ Local(u, v, d)
      /\ cb = "recovery" /\ Loose(u, d) /\ Calm(u.events, d) => Settled(v, d)
      /\ cb = "max_lun" /\ Fresh(u, d) /\ u.ctrl.d # d => Settled(v, d)
      /\ Fits(u.itf[d].stage, u.itf[d].bot, cb) /\ Between(u, d) => On(u, v, d)
  BY <1>0, <1>3, <1>8, ControlCbIs
<1> HIDE DEF v
<1>10. Local(w, v, d)
  BY <1>8, <1>9, LocalThrough
<1>11. u.ctrl.d # d
  BY <1>0, <1>6, QuietApart
<1>12. Calm(w.events, d) => Calm(u.events, d)
  BY <1>0, <1>5, <1>6, CalmThinner
<1>13. ASSUME Works(w, d) PROVE Goes(w, v, d)
  <2>1. ~Shut(w, d)
    BY <1>2 DEF Shut
  <2>2. CASE Opening(w, d)
    <3>1. cb = "max_lun" /\ Fresh(u, d)
      BY <2>2, <1>5, <1>6, <1>12 DEF Opening, Fresh, cb
    <3> QED BY <3>1, <1>9, <1>11 DEF Goes
  <2>3. CASE Settled(w, d)
    <3>1. cb = "recovery" /\ Early(w.events, d)
      BY <2>3, <1>2 DEF Settled, cb
    <3>2. Calm(u.events, d)
      BY <3>1, <1>4, <1>5, <1>6
    <3>3. Loose(u, d)
      BY <2>3, <3>2, <1>5, <1>6, <1>11 DEF Settled, Loose
    <3> QED BY <3>1, <3>2, <3>3, <1>9 DEF Goes
  <2>4. CASE Started(w, d)
    <3>1. Asked(w, d)
      BY <2>4, <1>2 DEF Started
    <3>2. Fits(u.itf[d].stage, u.itf[d].bot, cb) /\ Calm(u.events, d) /\ Rest(u.hw[d])
      BY <3>1, <1>5, <1>6, <1>12 DEF Asked, cb
    <3>3. Between(u, d)
      BY <2>4, <3>2, <1>5, <1>6, <1>11 DEF Started, Between
    <3>4. On(u, v, d)
      BY <3>2, <3>3, <1>9
    <3> QED BY <2>4, <3>4, <1>5, <1>6 DEF On, Goes
  <2> QED BY <1>13, <2>1, <2>2, <2>3, <2>4 DEF Works
<1> QED
  BY <1>10, <1>13 DEF d, t, u, v, cb

Freed(w, d, ep) == [w EXCEPT !.hw[d][ep].busy = FALSE]

LEMMA FreedIs ==
  ASSUME NEW w, Base(w), NEW d \in Addrs, NEW ep \in Eps
  PROVE  LET v == Freed(w, d, ep) IN
         /\ Local(w, v, d) /\ Base(v) /\ v.itf = w.itf /\ v.ctrl = w.ctrl
         /\ v.events = w.events /\ ~v.hw[d][ep].busy /\ v.hw[d][ep].k = w.hw[d][ep].k
         /\ \A e \in Eps : e # ep => v.hw[d][e] = w.hw[d][e]
<1> DEFINE x == [w.hw[d][ep] EXCEPT !.busy = FALSE]
           h == [w.hw[d] EXCEPT ![ep] = x]
           v == Freed(w, d, ep)
<1>1. w \in Worlds /\ w.hw[d] \in Hws
  BY DeviceParts DEF Base
<1>2. w.hw[d][ep] \in Xfers
  BY <1>1, HwsParts, NoXferIs
<1>3. x \in Xfers /\ ~x.busy /\ x.k = w.hw[d][ep].k
  BY <1>2 DEF Xfers
<1>4. v = PutHw(w, d, h)
  <2>1. [w.hw EXCEPT ![d][ep].busy = FALSE] = [w.hw EXCEPT ![d] = h]
    BY <1>1, WorldParts DEF Hws, Eps
  <2>2. v = [w EXCEPT !.hw = [@ EXCEPT ![d][ep].busy = FALSE]]
    BY <1>1 DEF Worlds, Freed
  <2> HIDE DEF h, v
  <2> QED BY <2>1, <2>2 DEF PutHw
<1> HIDE DEF x
<1>5. h \in Hws /\ h[ep] = x /\ \A e \in Eps : e # ep => h[e] = w.hw[d][e]
  BY <1>1, <1>3, HwsParts
<1> HIDE DEF h, v
<1>6. /\ Local(w, v, d) /\ Base(v) /\ v.hw[d] = h /\ v.itf = w.itf /\ v.ctrl = w.ctrl
      /\ v.events = w.events
  BY <1>4, <1>5, HwLocal
<1> QED
  BY <1>3, <1>5, <1>6 DEF v

XferEnds(w, e) ==
    LET u == Freed(Taken(w), e.d, e.ep) IN
    IF ~w.itf[e.d].open THEN Taken(w)
    ELSE IF w.itf[e.d].bot THEN msc_bot_xfer_cb(u, e.d, e)
    ELSE msc_cbi_xfer_cb(u, e.d, e)

LEMMA BulkIs ==
  ASSUME NEW w, Base(w), w.events # <<>>, Head(w.events).ep \in Eps
  PROVE  LET d == Head(w.events).d
             v == XferEnds(w, Head(w.events)) IN
         /\ Local(w, v, d)
         /\ Works(w, d) => Goes(w, v, d)
<1> DEFINE e == Head(w.events)
           d == e.d
           ep == e.ep
           t == Taken(w)
           u == Freed(t, d, ep)
           v == XferEnds(w, e)
<1>0. /\ w \in Worlds /\ Pipe(w) /\ w.events \in Seq(Completions)
      /\ e \in Completions /\ d \in Addrs /\ d # 0 /\ ep \in Eps /\ ep # "ctl"
  <2>1. w \in Worlds /\ Pipe(w) /\ w.events \in Seq(Completions)
    BY WorldParts DEF Base
  <2>2. e \in Completions
    BY <2>1, TailParts
  <2>3. ep \in Eps /\ ep # "ctl"
    BY DEF Eps
  <2> QED BY <2>1, <2>2, <2>3, CompletionParts
<1>1. /\ ~Calm(w.events, d)
      /\ \A k : Lone(w.events, d, k) => Calm(Tail(w.events), d) /\ ep = k
  <2>1. BulkOf(e, d)
    BY <1>0 DEF BulkOf
  <2> QED BY <2>1, <1>0, TailOf
<1>2. v = IF ~w.itf[d].open THEN t
          ELSE IF w.itf[d].bot THEN msc_bot_xfer_cb(u, d, e) ELSE msc_cbi_xfer_cb(u, d, e)
  BY DEF XferEnds
<1>3. /\ Local(w, t, d) /\ Base(t) /\ t.itf = w.itf /\ t.hw = w.hw /\ t.ctrl = w.ctrl
      /\ t.events = Tail(w.events) /\ Thinner(w.events, t.events)
  <2>1. Head(w.events).ep # "ctl"
    BY <1>0
  <2> QED BY <2>1, TakenIs
<1> HIDE DEF e, d, ep, t
<1>4. /\ Local(t, u, d) /\ Base(u) /\ u.itf = t.itf /\ u.ctrl = t.ctrl
      /\ u.events = t.events /\ ~u.hw[d][ep].busy /\ u.hw[d][ep].k = t.hw[d][ep].k
      /\ \A f \in Eps : f # ep => u.hw[d][f] = t.hw[d][f]
  <2>1. Base(t) /\ d \in Addrs /\ ep \in Eps
    BY <1>0, <1>3
  <2> QED BY <2>1, FreedIs
<1> HIDE DEF u, v
<1>5. CASE ~w.itf[d].open
  <2>1. v = t
    BY <1>2, <1>5
  <2>2. Works(w, d) => Shut(w, d)
    BY <1>5 DEF Works, Opening, Fresh, Settled, Started, Mounted
  <2>3. Shut(w, d) => Shut(t, d)
    BY <1>3 DEF Shut
  <2> QED BY <1>3, <2>1, <2>2, <2>3 DEF Goes, v, d, e
<1>6. CASE w.itf[d].open
  <2>1. v = msc_bot_xfer_cb(u, d, e) \/ v = msc_cbi_xfer_cb(u, d, e)
    BY <1>2, <1>6
  <2>2. Local(u, v, d)
    BY <2>1, <1>0, <1>4, BotXferCbIs, CbiXferCbIs
  <2>3. Local(w, v, d)
    BY <1>3, <1>4, <2>2, LocalThrough
  <2>4. u.itf = w.itf /\ u.ctrl = w.ctrl /\ u.events = Tail(w.events)
          /\ Thinner(w.events, u.events) /\ u \in Worlds
    BY <1>3, <1>4 DEF Base
  <2>5. ASSUME Works(w, d) PROVE Goes(w, v, d)
    <3>1. ~Shut(w, d) /\ ~Opening(w, d)
      BY <1>1, <1>6, NoItfIs DEF Shut, Opening, Fresh
    <3>2. CASE Settled(w, d)
      <4>1. w.itf[d].recovery # "idle" /\ w.itf[d].stage = "idle"
        BY <3>2, <1>1 DEF Settled
      <4>2. v = u
        <5>1. Base(u) /\ d \in Addrs /\ e \in Completions /\ u.itf[d].stage = "idle"
          BY <2>4, <4>1, <1>0, <1>4
        <5>2. msc_bot_xfer_cb(u, d, e) = u
          BY <5>1, BotXferCbIs
        <5>3. msc_cbi_xfer_cb(u, d, e) = u
          BY <5>1, CbiXferCbIs
        <5> QED BY <2>1, <5>2, <5>3
      <4>3. Early(u.events, d)
        <5>1. Early(w.events, d) /\ w.events \in Seq(Completions) /\ u.events \in Seq(Completions)
          BY <3>2, <4>1, <2>4, <1>0, WorldParts DEF Settled
        <5> QED BY <5>1, <2>4, ThinnerKeeps
      <4>4. Rest(u.hw[d])
        BY <3>2, <1>0, <1>3, <1>4 DEF Settled, Rest, Idle
      <4>5. Settled(u, d)
        BY <3>2, <4>1, <4>3, <4>4, <2>4 DEF Settled
      <4> QED BY <4>2, <4>5 DEF Goes
    <3>3. CASE Started(w, d)
      <4>1. Moves(w, d) /\ w.ctrl.d # d
        BY <3>3, <1>1 DEF Started, Asked
      <4> DEFINE x == w.itf[d]
      <4>2. /\ w.hw[d][StageEp(x)].k = "none" /\ ep = StageEp(x) /\ Calm(u.events, d)
            /\ x.bot \/ x.stage = "data"
            /\ \A f \in Eps : f # StageEp(x) => Idle(w.hw[d][f])
        BY <4>1, <1>1, <2>4 DEF Moves
      <4>3. Rest(u.hw[d])
        BY <4>2, <1>3, <1>4 DEF Rest, Idle
      <4>4. Between(u, d) /\ u.itf[d] = x /\ x.stage # "idle"
        BY <3>3, <4>1, <4>2, <4>3, <2>4 DEF Between, Started
      <4>5. On(u, v, d)
        <5>1. CASE x.bot
          <6>1. v = msc_bot_xfer_cb(u, d, e)
            BY <5>1, <1>2, <1>6
          <6>2. e.ep = StageEp(u.itf[d]) /\ u.itf[d].bot /\ u.itf[d].stage # "idle"
            BY <4>2, <4>4, <5>1 DEF ep
          <6> QED BY <6>1, <6>2, <4>4, <1>0, <1>4, BotXferCbIs
        <5>2. CASE ~x.bot
          <6>1. v = msc_cbi_xfer_cb(u, d, e)
            BY <5>2, <1>2, <1>6
          <6>2. u.itf[d].stage = "data"
            BY <4>2, <4>4, <5>2
          <6> QED BY <6>1, <6>2, <4>4, <1>0, <1>4, CbiXferCbIs
        <5> QED BY <5>1, <5>2
      <4> QED BY <3>3, <4>4, <4>5 DEF On, Goes
    <3> QED BY <2>5, <3>1, <3>2, <3>3 DEF Works
  <2> QED BY <2>3, <2>5 DEF v, d, e
<1> QED
  BY <1>5, <1>6

LEMMA DeliveredIs ==
  ASSUME NEW w, Base(w), w.events # <<>>
  PROVE  LET d == Head(w.events).d
             v == Delivered(w) IN
         /\ d \in Addrs /\ Local(w, v, d)
         /\ Works(w, d) => Goes(w, v, d)
<1> DEFINE e == Head(w.events)
           d == e.d
           v == Delivered(w)
           ok == e.res = "ok"
<1>0. e \in Completions /\ d \in Addrs /\ e.ep \in {"in", "out", "ctl", "gone"} /\ w \in Worlds
  <2>1. w \in Worlds /\ w.events \in Seq(Completions)
    BY WorldParts DEF Base
  <2>2. e \in Completions
    BY <2>1, TailParts
  <2> QED BY <2>1, <2>2, CompletionParts
<1>1. [w EXCEPT !.events = Tail(@)] = Taken(w)
  BY DEF Taken, PutEvents
<1>2. [Taken(w) EXCEPT !.ctrl = Quiet] = PutCtrl(Taken(w), Quiet)
  BY DEF PutCtrl
<1>3. CASE e.ep = "gone"
  <2>1. v = msc_class_driver_close(Taken(w), d)
    BY <1>1, <1>3 DEF Delivered
  <2> HIDE DEF v
  <2>2. Local(w, v, d) /\ (Works(w, d) => Goes(w, v, d))
    BY <2>1, <1>0, <1>3, GoneIs
  <2> QED BY <1>0, <2>2 DEF v
<1>4. CASE e.ep = "ctl"
  <2>1. v = tuh_control_cb(PutCtrl(Taken(w), Quiet), d, w.ctrl.cb, ok)
    BY <1>1, <1>2, <1>4 DEF Delivered
  <2> HIDE DEF v, ok
  <2>2. Local(w, v, d) /\ (Works(w, d) => Goes(w, v, d))
    BY <2>1, <1>0, <1>4, CtlIs
  <2> QED BY <1>0, <2>2 DEF v
<1>5. CASE e.ep \in Eps
  <2>1. v = XferEnds(w, e)
    <3>1. Taken(w).itf = w.itf
      BY TakenIs
    <3>2. e.ep # "gone" /\ e.ep # "ctl"
      BY <1>5 DEF Eps
    <3>3. v = IF ~w.itf[d].open THEN Taken(w)
              ELSE IF w.itf[d].bot THEN msc_bot_xfer_cb(Freed(Taken(w), d, e.ep), d, e)
              ELSE msc_cbi_xfer_cb(Freed(Taken(w), d, e.ep), d, e)
      BY <3>2 DEF Delivered, Freed, Taken, PutEvents
    <3> HIDE DEF v
    <3> QED BY <3>3 DEF XferEnds
  <2> HIDE DEF v
  <2>2. Local(w, v, d) /\ (Works(w, d) => Goes(w, v, d))
    BY <2>1, <1>0, <1>5, BulkIs
  <2> QED BY <1>0, <2>2 DEF v
<1> QED
  BY <1>0, <1>3, <1>4, <1>5 DEF Eps

----------------------------------------------------------------------------
(* A command returns, and the disk functions go on or come to their ends.  *)
LEMMA CallParts ==
  ASSUME NEW w \in Worlds
  PROVE  /\ w.c \in Callers /\ w.c.vol \in Vols /\ w.c.v \in Vols
         /\ w.pdrv[w.c.vol] \in Slots /\ w.pdrv[w.c.v] \in Slots
         /\ w.c.st \in Vals \cup {"timeout"} /\ w.c.got \in Items /\ w.c.resp \in Items
         /\ w.c.got.val \in Vals /\ w.c.resp.val \in Vals /\ w.c.op \in Ops
<1>1. w.c \in Callers
  BY WorldParts
<1>2. /\ w.c.vol \in Vols /\ w.c.v \in Vols /\ w.c.got \in Items /\ w.c.resp \in Items
      /\ w.c.st \in Vals \cup {"timeout"} /\ w.c.op \in Ops
  BY <1>1 DEF Callers
<1>3. w.c.got.val \in Vals /\ w.c.resp.val \in Vals
  BY <1>2 DEF Items
<1> QED
  BY <1>1, <1>2, <1>3, WorldParts

LEMMA ValsIs ==
  /\ {"none", "failed", "passed", "phase"} \subseteq Vals
  /\ Nothing \in Items
<1>1. "none" \in Vals /\ "failed" \in Vals /\ "passed" \in Vals /\ "phase" \in Vals
  BY DEF Vals, Media
<1> QED
  BY <1>1 DEF Nothing, Items, Item, Tags, Loads

(* The kinds of changes of a slot.                                         *)
LEMMA SlotSenseSets ==
  ASSUME NEW w \in Worlds, NEW s \in Vols, NEW x \in Vals
  PROVE  Sets(w, [w EXCEPT !.pdrv[s].sense = x])
<1> DEFINE p == [w.pdrv[s] EXCEPT !.sense = x]
<1>1. [w EXCEPT !.pdrv[s].sense = x] = PutSlot(w, s, p)
  BY DEF PutSlot, Worlds, Slots
<1>2. p \in Slots
  <2>1. w.pdrv[s] \in Slots
    BY WorldParts
  <2> QED BY <2>1 DEF Slots
<1> HIDE DEF p
<1> QED
  BY <1>1, <1>2, SetsSlot

LEMMA SlotRecentSets ==
  ASSUME NEW w \in Worlds, NEW s \in Vols, NEW x \in BOOLEAN
  PROVE  Sets(w, [w EXCEPT !.pdrv[s].recent = x])
<1> DEFINE p == [w.pdrv[s] EXCEPT !.recent = x]
<1>1. [w EXCEPT !.pdrv[s].recent = x] = PutSlot(w, s, p)
  BY DEF PutSlot, Worlds, Slots
<1>2. p \in Slots
  <2>1. w.pdrv[s] \in Slots
    BY WorldParts
  <2> QED BY <2>1 DEF Slots
<1> HIDE DEF p
<1> QED
  BY <1>1, <1>2, SetsSlot

LEMMA SlotStatusSets ==
  ASSUME NEW w \in Worlds, NEW s \in Vols,
         NEW x \in {"free", "registered", "mounted", "ejected"}
  PROVE  Sets(w, [w EXCEPT !.pdrv[s].status = x])
<1> DEFINE p == [w.pdrv[s] EXCEPT !.status = x]
<1>1. [w EXCEPT !.pdrv[s].status = x] = PutSlot(w, s, p)
  BY DEF PutSlot, Worlds, Slots
<1>2. p \in Slots
  <2>1. w.pdrv[s] \in Slots
    BY WorldParts
  <2> QED BY <2>1 DEF Slots
<1> HIDE DEF p
<1> QED
  BY <1>1, <1>2, SetsSlot

LEMMA SlotUnmapSets ==
  ASSUME NEW w \in Worlds, NEW s \in Vols, NEW x \in BOOLEAN
  PROVE  Sets(w, [w EXCEPT !.pdrv[s].unmap = x])
<1> DEFINE p == [w.pdrv[s] EXCEPT !.unmap = x]
<1>1. [w EXCEPT !.pdrv[s].unmap = x] = PutSlot(w, s, p)
  BY DEF PutSlot, Worlds, Slots
<1>2. p \in Slots
  <2>1. w.pdrv[s] \in Slots
    BY WorldParts
  <2> QED BY <2>1 DEF Slots
<1> HIDE DEF p
<1> QED
  BY <1>1, <1>2, SetsSlot

LEMMA SlotWpSets ==
  ASSUME NEW w \in Worlds, NEW s \in Vols, NEW x \in BOOLEAN
  PROVE  Sets(w, [w EXCEPT !.pdrv[s].wp = x])
<1> DEFINE p == [w.pdrv[s] EXCEPT !.wp = x]
<1>1. [w EXCEPT !.pdrv[s].wp = x] = PutSlot(w, s, p)
  BY DEF PutSlot, Worlds, Slots
<1>2. p \in Slots
  <2>1. w.pdrv[s] \in Slots
    BY WorldParts
  <2> QED BY <2>1 DEF Slots
<1> HIDE DEF p
<1> QED
  BY <1>1, <1>2, SetsSlot

LEMMA SlotRemovableSets ==
  ASSUME NEW w \in Worlds, NEW s \in Vols, NEW x \in BOOLEAN
  PROVE  Sets(w, [w EXCEPT !.pdrv[s].removable = x])
<1> DEFINE p == [w.pdrv[s] EXCEPT !.removable = x]
<1>1. [w EXCEPT !.pdrv[s].removable = x] = PutSlot(w, s, p)
  BY DEF PutSlot, Worlds, Slots
<1>2. p \in Slots
  <2>1. w.pdrv[s] \in Slots
    BY WorldParts
  <2> QED BY <2>1 DEF Slots
<1> HIDE DEF p
<1> QED
  BY <1>1, <1>2, SetsSlot

LEMMA SlotNosyncSets ==
  ASSUME NEW w \in Worlds, NEW s \in Vols, NEW x \in BOOLEAN
  PROVE  Sets(w, [w EXCEPT !.pdrv[s].nosync = x])
<1> DEFINE p == [w.pdrv[s] EXCEPT !.nosync = x]
<1>1. [w EXCEPT !.pdrv[s].nosync = x] = PutSlot(w, s, p)
  BY DEF PutSlot, Worlds, Slots
<1>2. p \in Slots
  <2>1. w.pdrv[s] \in Slots
    BY WorldParts
  <2> QED BY <2>1 DEF Slots
<1> HIDE DEF p
<1> QED
  BY <1>1, <1>2, SetsSlot

LEMMA SlotMediumSets ==
  ASSUME NEW w \in Worlds, NEW s \in Vols, NEW x \in Vals
  PROVE  Sets(w, [w EXCEPT !.pdrv[s].fs.medium = x])
<1> DEFINE m == [w.pdrv[s].fs EXCEPT !.medium = x]
           p == [w.pdrv[s] EXCEPT !.fs = m]
<1>3. w.pdrv[s] \in Slots /\ w.pdrv \in [Vols -> Slots]
  BY WorldParts
<1>4. m \in [medium : Vals, pdrv : Vols]
  BY <1>3 DEF Slots
<1>1. [w EXCEPT !.pdrv[s].fs.medium = x] = PutSlot(w, s, p)
  <2>1. [w.pdrv EXCEPT ![s].fs.medium = x] = [w.pdrv EXCEPT ![s] = p]
    BY <1>3 DEF Slots
  <2>2. [w EXCEPT !.pdrv[s].fs.medium = x] = [w EXCEPT !.pdrv = [@ EXCEPT ![s].fs.medium = x]]
    BY DEF Worlds
  <2> HIDE DEF p
  <2> QED BY <2>1, <2>2 DEF PutSlot
<1> HIDE DEF m
<1>2. p \in Slots
  BY <1>3, <1>4 DEF Slots
<1> HIDE DEF p
<1> QED
  BY <1>1, <1>2, SetsSlot

LEMMA FileSets ==
  ASSUME NEW w \in Worlds, NEW f \in Vols \cup {-1}
  PROVE  Sets(w, [w EXCEPT !.file = f])
BY SetsFile DEF PutFile

LEMMA CmdxSets ==
  ASSUME NEW w \in Worlds, NEW d \in Addrs
  PROVE  Sets(w, [w EXCEPT !.itf[d].cmdx = w.itf[d].xferred])
<1> DEFINE b == w.itf[d].xferred
           x == [w.itf[d] EXCEPT !.cmdx = b]
           v == [w EXCEPT !.itf[d].cmdx = b]
<1>1. w.itf[d] \in Itfs /\ b \in BOOLEAN
  BY DeviceParts DEF Itfs
<1> HIDE DEF b
<1>2. v = PutItf(w, d, x)
  BY <1>1 DEF PutItf, Worlds, Itfs
<1>3. x \in Itfs /\ Alike(w.itf[d], x)
  BY <1>1 DEF Itfs, Alike
<1> HIDE DEF x, v
<1>4. /\ v \in Worlds /\ v.itf[d] = x /\ \A e \in Addrs : e # d => v.itf[e] = w.itf[e]
      /\ v.hw = w.hw /\ v.ctrl = w.ctrl /\ v.events = w.events /\ v.c = w.c
  BY <1>2, <1>3, PutItfIs
<1>5. \A e \in Addrs : Alike(w.itf[e], v.itf[e])
  BY <1>3, <1>4 DEF Alike
<1>6. Sets(w, v)
  BY <1>4, <1>5 DEF Sets, Above
<1> QED
  BY <1>6 DEF v, b

(* The end of a command, or of its autosense.                              *)
LEMMA MainDoneBack ==
  ASSUME NEW w \in Worlds, w.c.d \in Addrs, NEW st \in Vals \cup {"timeout"}
  PROVE  Back(w, MainDone(w, st))
<1> DEFINE v == [w EXCEPT !.itf[w.c.d].cmdx = w.itf[w.c.d].xferred]
           a == [v EXCEPT !.pdrv[w.c.vol].sense = "none"]
           b == [v EXCEPT !.pdrv[w.c.vol].recent = TRUE]
           k == [v.c EXCEPT !.sense = TRUE, !.pc = "enter", !.st = st, !.resp = Nothing]
           n == PutC(v, k)
<1>1. Sets(w, v)
  BY CmdxSets
<1>2. MainDone(w, st) \in {Returned(v, st), Returned(a, st), Returned(b, st), n}
  <2>1. [v EXCEPT !.c.sense = TRUE, !.c.pc = "enter", !.c.st = st, !.c.resp = Nothing] = n
    <3>1. v \in Worlds
      BY <1>1, SetsWorlds
    <3> HIDE DEF v
    <3> QED BY <3>1 DEF PutC, Worlds, Callers
  <2>2. MainDone(w, st) \in {Returned(v, st), Returned(a, st), Returned(b, st),
             [v EXCEPT !.c.sense = TRUE, !.c.pc = "enter", !.c.st = st, !.c.resp = Nothing]}
    BY DEF MainDone
  <2> HIDE DEF v, a, b, n
  <2> QED BY <2>1, <2>2
<1> HIDE DEF v
<1>3. v \in Worlds /\ v.c = w.c /\ w.c \in Callers /\ w.c.vol \in Vols /\ v.c.d # 0
  BY <1>1, SetsWorlds, CallParts DEF Sets
<1>4. Sets(v, a) /\ Sets(v, b)
  BY <1>3, ValsIs, SlotSenseSets, SlotRecentSets
<1> HIDE DEF a, b
<1>5. a \in Worlds /\ b \in Worlds
  BY <1>4, SetsWorlds
<1>6. Back(v, Returned(v, st)) /\ Back(a, Returned(a, st)) /\ Back(b, Returned(b, st))
  BY <1>3, <1>5, ReturnedBack
<1>7. Back(v, Returned(a, st)) /\ Back(v, Returned(b, st))
  BY <1>4, <1>6, SetsBack
<1>8. k \in Callers /\ k.pc = "enter" /\ k.d # 0
  BY <1>3, ValsIs DEF Callers
<1> HIDE DEF k
<1>9. Back(v, n)
  BY <1>3, <1>8, PutCAbove DEF Back, Asks
<1> HIDE DEF n
<1>10. Back(v, MainDone(w, st))
  BY <1>2, <1>6, <1>7, <1>9
<1> QED
  BY <1>1, <1>10, SetsBack

LEMMA SenseDoneBack ==
  ASSUME NEW w \in Worlds, w.c.d \in Addrs, NEW st \in Vals \cup {"timeout"}, NEW late
  PROVE  Back(w, SenseDone(w, st, late))
<1> DEFINE told == w.c.resp.k = "data"
           valid == st = "passed" \/ (st # "timeout" /\ told)
           sense == IF valid /\ told THEN w.c.resp.val ELSE "none"
           bot == w.itf[w.c.d].bot
           end == IF bot THEN w.c.st ELSE IF ~valid THEN "timeout"
                  ELSE IF sense = "none" THEN "passed" ELSE "failed"
           lucky == ~bot /\ w.c.st = "failed"
           s == w.c.vol
           recent == w.pdrv[s].recent \/ (~bot /\ end = "passed")
           p == [w.pdrv[s] EXCEPT !.sense = sense, !.recent = recent]
           k == [w.c EXCEPT !.lucky = lucky]
           u == PutSlot(w, s, p)
           v == PutC(u, k)
           m == w.c.attempt + 1
           j == [v.c EXCEPT !.attempt = m, !.sense = FALSE, !.pc = "enter"]
           n == PutC(v, j)
<1>1. /\ s \in Vols /\ w.pdrv[s] \in Slots /\ w.c \in Callers /\ sense \in Vals
      /\ end \in Vals \cup {"timeout"} /\ lucky \in BOOLEAN /\ w.pdrv \in [Vols -> Slots]
  BY CallParts, ValsIs, WorldParts
<1>2. recent \in BOOLEAN /\ m \in Nat
  BY <1>1 DEF Slots, Callers
<1>3. SenseDone(w, st, late) \in {Returned(v, end),
            [v EXCEPT !.c.attempt = @ + 1, !.c.sense = FALSE, !.c.pc = "enter"]}
  <2> DEFINE x == [w EXCEPT !.c.lucky = lucky, !.pdrv[s] = p]
  <2>1. SenseDone(w, st, late) \in {Returned(x, end),
            [x EXCEPT !.c.attempt = @ + 1, !.c.sense = FALSE, !.c.pc = "enter"]}
    BY DEF SenseDone
  <2>2. x = v
    <3> HIDE DEF s, p, lucky
    <3> QED BY <1>1 DEF PutSlot, PutC, Worlds
  <2> HIDE DEF x, v
  <2> QED BY <2>1, <2>2
<1> HIDE DEF sense, end, lucky, recent, s, told, valid, bot
<1>4. p \in Slots /\ k \in Callers /\ k.d = w.c.d /\ k.attempt = w.c.attempt
  BY <1>1, <1>2 DEF Slots, Callers
<1> HIDE DEF p, k
<1>5. Sets(w, u) /\ u \in Worlds
  BY <1>1, <1>4, SetsSlot, SetsWorlds
<1> HIDE DEF u
<1>6. Above(u, v) /\ v.c = k /\ v \in Worlds
  BY <1>4, <1>5, PutCAbove, PutCIs
<1> HIDE DEF v
<1>7. Above(w, v)
  BY <1>5, <1>6, AboveThrough DEF Sets
<1>8. [v EXCEPT !.c.attempt = @ + 1, !.c.sense = FALSE, !.c.pc = "enter"] = n
  <2>1. v.c.attempt = w.c.attempt
    BY <1>4, <1>6
  <2> QED BY <2>1, <1>6 DEF PutC, Worlds, Callers
<1>9. j \in Callers /\ j.pc = "enter" /\ j.d # 0
  BY <1>2, <1>4, <1>6 DEF Callers
<1> HIDE DEF j, m
<1>10. Back(v, n)
  BY <1>6, <1>9, PutCAbove DEF Back, Asks
<1>11. Back(v, Returned(v, end))
  BY <1>1, <1>6, ReturnedBack
<1> HIDE DEF n
<1>12. Back(v, SenseDone(w, st, late))
  BY <1>3, <1>8, <1>10, <1>11
<1> QED
  BY <1>7, <1>12, BackThrough

LEMMA SyncDoneBack ==
  ASSUME NEW w \in Worlds, w.c.d \in Addrs, NEW st \in Vals \cup {"timeout"}, NEW late
  PROVE  Back(w, SyncDone(w, st, late))
BY MainDoneBack, SenseDoneBack DEF SyncDone

(* The disk functions, the first that call no other first.                 *)
LEMMA NamesIs ==
  /\ {"name", "raw", "file", "boot", "dir", "sync", "status", "inquiry", "tur", "tur again",
      "capacity", "wp", "probe"} \subseteq Jobs
  /\ {"inquiry", "capacity", "wp", "probe", "read", "write", "zero", "track", "make", "tur",
      "sync"} \subseteq Ops
BY DEF Jobs, Ops, DataIn, DataOut, Raw

LEMMA FinishedSets ==
  ASSUME NEW w, NEW v, Sets(w, v)
  PROVE  Back(w, Finished(v))
BY SetsWorlds, FinishedBack, SetsBack

LEMMA StartSets ==
  ASSUME NEW w, NEW v, Sets(w, v), NEW job \in Jobs, NEW op \in Ops
  PROVE  Back(w, Start(v, job, op))
BY SetsWorlds, StartBack, SetsBack

LEMMA DiskIoBack ==
  ASSUME NEW w \in Worlds, NEW job \in Jobs, NEW op \in Ops
  PROVE  Back(w, disk_io(w, job, op))
<1> DEFINE x == w.pdrv[w.c.v].fs.pdrv
           k == [w.c EXCEPT !.vol = x]
           v == PutC(w, k)
<1>1. x \in Vols /\ w.c \in Callers
  BY CallParts DEF Slots
<1>2. [w EXCEPT !.c.vol = x] = v
  BY DEF PutC, Worlds, Callers
<1>3. disk_io(w, job, op) \in {Finished(v), Start(v, job, op)}
  <2> HIDE DEF v
  <2> QED BY <1>2 DEF disk_io
<1> HIDE DEF x
<1>4. k \in Callers
  BY <1>1 DEF Callers
<1> HIDE DEF k
<1>5. Above(w, v) /\ v \in Worlds
  BY <1>4, PutCAbove, PutCIs
<1> HIDE DEF v
<1>6. Back(v, Finished(v)) /\ Back(v, Start(v, job, op))
  BY <1>5, FinishedBack, StartBack
<1>7. Back(v, disk_io(w, job, op))
  BY <1>3, <1>6
<1> QED
  BY <1>5, <1>7, BackThrough

LEMMA DriveIoBack ==
  ASSUME NEW w \in Worlds, NEW op \in Ops
  PROVE  Back(w, msc_drive_io(w, op))
<1>1. msc_drive_io(w, op) \in {Finished(Stepped(w, FALSE)), Start(w, "raw", op)}
  BY DEF msc_drive_io
<1>2. Sets(w, Stepped(w, FALSE))
  BY SteppedSets
<1>3. Back(w, Finished(Stepped(w, FALSE)))
  BY <1>2, FinishedSets
<1>4. Back(w, Start(w, "raw", op))
  BY NamesIs, StartBack
<1> QED
  BY <1>1, <1>3, <1>4

LEMMA SyncBack ==
  ASSUME NEW w \in Worlds
  PROVE  Back(w, disk_ioctl_sync(w))
<1>1. disk_ioctl_sync(w) \in {Finished(w), Start(w, "sync", "sync")}
  BY DEF disk_ioctl_sync
<1>2. Back(w, Finished(w)) /\ Back(w, Start(w, "sync", "sync"))
  BY NamesIs, StartBack, FinishedBack
<1> QED
  BY <1>1, <1>2

LEMMA SyncSets ==
  ASSUME NEW w, NEW v, Sets(w, v)
  PROVE  Back(w, disk_ioctl_sync(v))
BY SetsWorlds, SyncBack, SetsBack

LEMMA IoDoneBack ==
  ASSUME NEW w \in Worlds
  PROVE  Back(w, IoDone(w))
<1> DEFINE k == Io(w)
           v == [w EXCEPT !.last = k]
           opened == IF w.c.call = "open" THEN w.c.v ELSE w.file
           r == Stepped(v, TRUE)
           s == Stepped(v, IoOk(w))
           a == [v EXCEPT !.file = -1]
           x == w.c.got.val
           b == [v EXCEPT !.pdrv[w.c.v].fs.medium = x]
           n == [b EXCEPT !.file = opened]
           f == [v EXCEPT !.file = opened]
           y == [v EXCEPT !.pdrv[w.c.v].fs.medium = x, !.file = opened]
<1>1. IoDone(w) \in {disk_ioctl_sync(r), Finished(s), Finished(a), Finished(v), Finished(y),
                     Finished(f), disk_ioctl_sync(v)}
  BY DEF IoDone
<1>2. w.c.v \in Vols /\ opened \in Vols \cup {-1} /\ x \in Vals
  BY CallParts, WorldParts
<1>3. k \in [ok : BOOLEAN, lucky : BOOLEAN, done : BOOLEAN, same : BOOLEAN, ghost : BOOLEAN]
  BY CallParts DEF Io, IoOk, Callers
<1> HIDE DEF k, x, opened
<1>4. Sets(w, v) /\ v \in Worlds
  <2>1. v = PutLast(w, k)
    BY DEF PutLast
  <2> HIDE DEF v
  <2> QED BY <1>3, <2>1, PutLastIs, AboveSame DEF Sets
<1> HIDE DEF v
<1>5. Sets(v, r) /\ Sets(v, s) /\ Sets(v, a) /\ Sets(v, f)
  BY <1>2, <1>4, SteppedSets, FileSets
<1>6. y = n
  BY <1>4 DEF Worlds
<1>7. Sets(v, b) /\ b \in Worlds
  BY <1>2, <1>4, SlotMediumSets, SetsWorlds
<1> HIDE DEF b, y, r, s, a, f
<1>8. Sets(b, n)
  BY <1>2, <1>7, FileSets
<1>9. Sets(v, y)
  BY <1>6, <1>7, <1>8, SetsThrough
<1> HIDE DEF n
<1>10. /\ Back(v, disk_ioctl_sync(r)) /\ Back(v, Finished(s)) /\ Back(v, Finished(a))
       /\ Back(v, Finished(v)) /\ Back(v, Finished(y)) /\ Back(v, Finished(f))
       /\ Back(v, disk_ioctl_sync(v))
  BY <1>4, <1>5, <1>9, SyncSets, FinishedSets, FinishedBack, SyncBack
<1>11. Back(v, IoDone(w))
  BY <1>1, <1>10
<1> QED
  BY <1>4, <1>11, SetsBack

LEMMA MkfsReadyBack ==
  ASSUME NEW w \in Worlds
  PROVE  Back(w, MkfsReady(w))
<1> DEFINE s == Stepped(w, FALSE)
           v == msc_drive_reenumerate(w)
           a == [v EXCEPT !.disk.at = "strings"]
           b == Dropped(v)
<1>1. MkfsReady(w) \in {msc_drive_io(w, "make"), Finished(s), Finished(a), Finished(b)}
  BY DEF MkfsReady
<1>2. Sets(w, s) /\ Sets(w, v) /\ v \in Worlds
  BY SteppedSets, EnumeratedSets, SetsWorlds
<1> HIDE DEF s, v
<1>3. Sets(v, a) /\ Sets(v, b)
  <2>1. "strings" \in Places
    BY DEF Places
  <2> QED BY <1>2, <2>1, AtSets, DroppedSets
<1> HIDE DEF a, b
<1>4. Sets(w, a) /\ Sets(w, b)
  BY <1>2, <1>3, SetsThrough
<1>5. Back(w, Finished(s)) /\ Back(w, Finished(a)) /\ Back(w, Finished(b))
  BY <1>2, <1>4, FinishedSets
<1>6. Back(w, msc_drive_io(w, "make"))
  BY NamesIs, DriveIoBack
<1> QED
  BY <1>1, <1>5, <1>6

LEMMA InitializedBack ==
  ASSUME NEW w \in Worlds
  PROVE  Back(w, Initialized(w))
<1> DEFINE s == InfoDone(w, w.c.full)
<1>1. Initialized(w) \in {Start(w, "name", "inquiry"), Finished(s), Finished(w),
                          MkfsReady(w), disk_io(w, "boot", "read")}
  BY DEF Initialized
<1>2. Sets(w, s)
  BY InfoDoneSets
<1> HIDE DEF s
<1>3. /\ Back(w, Start(w, "name", "inquiry")) /\ Back(w, Finished(s)) /\ Back(w, Finished(w))
      /\ Back(w, disk_io(w, "boot", "read"))
  BY <1>2, NamesIs, StartBack, FinishedSets, FinishedBack, DiskIoBack
<1> QED
  BY <1>1, <1>3, MkfsReadyBack

LEMMA InitializedSets ==
  ASSUME NEW w, NEW v, Sets(w, v)
  PROVE  Back(w, Initialized(v))
BY SetsWorlds, InitializedBack, SetsBack

LEMMA MarkMountedSets ==
  ASSUME NEW w, NEW v, Sets(w, v)
  PROVE  Back(w, MarkMounted(v))
<1>1. v \in Worlds /\ v.c.vol \in Vols
  BY SetsWorlds, CallParts
<1> DEFINE u == [v EXCEPT !.pdrv[v.c.vol].status = "mounted"]
<1>2. Sets(v, u)
  BY <1>1, SlotStatusSets
<1>3. MarkMounted(v) = Initialized(u)
  BY DEF MarkMounted
<1> HIDE DEF u
<1>4. Back(v, Initialized(u))
  BY <1>2, InitializedSets
<1> QED
  BY <1>3, <1>4, SetsBack

LEMMA ProbeDoneBack ==
  ASSUME NEW w \in Worlds
  PROVE  Back(w, ProbeDone(w))
<1> DEFINE x == w.c.st = "passed" /\ w.c.got.k = "data"
           v == [w EXCEPT !.pdrv[w.c.vol].unmap = x]
<1>1. w.c.vol \in Vols /\ x \in BOOLEAN
  BY CallParts
<1>2. ProbeDone(w) = MarkMounted(v)
  BY DEF ProbeDone
<1> HIDE DEF x
<1>3. Sets(w, v)
  BY <1>1, SlotUnmapSets
<1> HIDE DEF v
<1> QED
  BY <1>2, <1>3, MarkMountedSets

LEMMA WpDoneBack ==
  ASSUME NEW w \in Worlds, NEW junk \in BOOLEAN
  PROVE  Back(w, WpDone(w, junk))
<1> DEFINE wp == IF w.c.st # "passed" THEN w.pdrv[w.c.vol].wp
                 ELSE IF w.c.got.k = "data" THEN w.c.got.val = "yes" ELSE junk
           v == [w EXCEPT !.pdrv[w.c.vol].wp = wp]
<1>1. w.c.vol \in Vols /\ w.pdrv[w.c.vol] \in Slots
  BY CallParts
<1>2. wp \in BOOLEAN
  BY <1>1 DEF Slots
<1>3. WpDone(w, junk) \in {Start(v, "probe", "probe"), MarkMounted(v)}
  BY DEF WpDone
<1> HIDE DEF wp
<1>4. Sets(w, v)
  BY <1>1, <1>2, SlotWpSets
<1> HIDE DEF v
<1>5. Back(w, Start(v, "probe", "probe"))
  BY <1>4, NamesIs, StartSets
<1> QED
  BY <1>3, <1>4, <1>5, MarkMountedSets

LEMMA CapacityDoneBack ==
  ASSUME NEW w \in Worlds
  PROVE  Back(w, CapacityDone(w))
<1> DEFINE s == w.c.vol
           x == w.c.got.val = "lbpme"
           p == [w.pdrv[s] EXCEPT !.sized = TRUE, !.lbpme = x]
           v == PutSlot(w, s, p)
<1>1. s \in Vols /\ w.pdrv[s] \in Slots /\ x \in BOOLEAN /\ w.pdrv \in [Vols -> Slots]
  BY CallParts, WorldParts
<1>2. CapacityDone(w) \in {Initialized(w), Start(v, "wp", "wp")}
  <2>1. [w EXCEPT !.pdrv[s] = [@ EXCEPT !.sized = TRUE, !.lbpme = x]] = v
    BY DEF PutSlot, Worlds
  <2> DEFINE t == [w EXCEPT !.pdrv[s] = [@ EXCEPT !.sized = TRUE, !.lbpme = x]]
  <2>2. CapacityDone(w) \in {Initialized(w), Start(t, "wp", "wp")}
    BY DEF CapacityDone
  <2> HIDE DEF v, t
  <2> QED BY <2>1, <2>2 DEF t
<1> HIDE DEF x, s
<1>4. p \in Slots
  BY <1>1 DEF Slots
<1> HIDE DEF p
<1>5. Sets(w, v)
  BY <1>1, <1>4, SetsSlot
<1> HIDE DEF v
<1>6. Back(w, Start(v, "wp", "wp"))
  BY <1>5, NamesIs, StartSets
<1> QED
  BY <1>2, <1>6, InitializedBack

LEMMA TurDoneBack ==
  ASSUME NEW w \in Worlds
  PROVE  Back(w, TurDone(w))
<1> DEFINE v == [w EXCEPT !.pdrv[w.c.vol].status = "ejected"]
<1>1. TurDone(w) \in {Start(w, "capacity", "capacity"), Start(w, "tur again", "tur"),
                      Initialized(v), Initialized(w)}
  BY DEF TurDone
<1>2. Sets(w, v)
  BY CallParts, SlotStatusSets
<1> HIDE DEF v
<1>3. Back(w, Start(w, "capacity", "capacity")) /\ Back(w, Start(w, "tur again", "tur"))
  BY NamesIs, StartBack
<1>4. Back(w, Initialized(v)) /\ Back(w, Initialized(w))
  BY <1>2, InitializedSets, InitializedBack
<1> QED
  BY <1>1, <1>3, <1>4

LEMMA InquiryDoneBack ==
  ASSUME NEW w \in Worlds
  PROVE  Back(w, InquiryDone(w))
<1> DEFINE x == w.c.got.k = "data" /\ w.c.got.val = "yes"
           v == [w EXCEPT !.pdrv[w.c.vol].removable = x]
<1>1. InquiryDone(w) \in {Initialized(w), Start(v, "tur", "tur")}
  BY DEF InquiryDone
<1>2. x \in BOOLEAN
  OBVIOUS
<1> HIDE DEF x
<1>3. Sets(w, v)
  BY <1>2, CallParts, SlotRemovableSets
<1> HIDE DEF v
<1>4. Back(w, Start(v, "tur", "tur"))
  BY <1>3, NamesIs, StartSets
<1> QED
  BY <1>1, <1>4, InitializedBack

LEMMA DiskInitializeBack ==
  ASSUME NEW w \in Worlds
  PROVE  Back(w, disk_initialize(w))
<1>1. disk_initialize(w) \in {Start(w, "inquiry", "inquiry"), Start(w, "tur", "tur"),
                              Initialized(w)}
  BY DEF disk_initialize
<1>2. Back(w, Start(w, "inquiry", "inquiry")) /\ Back(w, Start(w, "tur", "tur"))
  BY NamesIs, StartBack
<1> QED
  BY <1>1, <1>2, InitializedBack

LEMMA MountBack ==
  ASSUME NEW w \in Worlds
  PROVE  Back(w, mount_volume(w))
<1> DEFINE s == w.c.v
           f == IF w.file = s THEN -1 ELSE w.file
           u == [w EXCEPT !.pdrv[s].fs.medium = "none"]
           v == [u EXCEPT !.file = f]
<1>1. s \in Vols /\ f \in Vols \cup {-1} /\ "none" \in Vals
  BY CallParts, WorldParts, ValsIs
<1>2. mount_volume(w) = disk_initialize(v)
  <2>1. [w EXCEPT !.pdrv[w.c.v].fs.medium = "none", !.file = IF @ = w.c.v THEN -1 ELSE @] = v
    BY DEF Worlds
  <2> HIDE DEF v
  <2> QED BY <2>1 DEF mount_volume
<1> HIDE DEF s, f
<1>3. Sets(w, u) /\ u \in Worlds
  BY <1>1, SlotMediumSets, SetsWorlds
<1> HIDE DEF u
<1>4. Sets(u, v) /\ v \in Worlds
  BY <1>1, <1>3, FileSets, SetsWorlds
<1>5. Back(v, disk_initialize(v))
  BY <1>4, DiskInitializeBack
<1> HIDE DEF v
<1> QED
  BY <1>2, <1>3, <1>4, <1>5, SetsThrough, SetsBack

LEMMA StatusKnownBack ==
  ASSUME NEW w \in Worlds, NEW init
  PROVE  Back(w, StatusKnown(w, init))
<1>1. StatusKnown(w, init) \in {Initialized(w), disk_initialize(w), disk_io(w, "dir", "read"),
                                mount_volume(w), disk_io(w, "file", w.c.call), Finished(w)}
  BY DEF StatusKnown
<1>2. w.c.call \in Ops
  BY CallParts DEF Callers, Ops
<1>3. Back(w, disk_io(w, "dir", "read")) /\ Back(w, disk_io(w, "file", w.c.call))
  BY <1>2, NamesIs, DiskIoBack
<1> QED
  BY <1>1, <1>3, InitializedBack, DiskInitializeBack, MountBack, FinishedBack

LEMMA StatusDoneBack ==
  ASSUME NEW w \in Worlds
  PROVE  Back(w, StatusDone(w))
<1> DEFINE s == w.c.vol
           p == [w.pdrv[s] EXCEPT !.status = "ejected", !.sized = FALSE, !.wp = FALSE,
                                  !.sense = "none"]
           v == PutSlot(w, s, p)
           init == w.pdrv[s].status = "mounted"
<1>1. StatusDone(w) \in {StatusKnown(v, FALSE), StatusKnown(w, init)}
  <2>1. [w EXCEPT !.pdrv[s] = [@ EXCEPT !.status = "ejected", !.sized = FALSE, !.wp = FALSE,
                                        !.sense = "none"]] = v
    BY DEF PutSlot, Worlds
  <2>2. StatusDone(w) \in {StatusKnown([w EXCEPT !.pdrv[s] =
             [@ EXCEPT !.status = "ejected", !.sized = FALSE, !.wp = FALSE,
                       !.sense = "none"]], FALSE), StatusKnown(w, init)}
    BY DEF StatusDone
  <2> HIDE DEF v, p, init, s
  <2> QED BY <2>1, <2>2
<1>2. s \in Vols /\ w.pdrv[s] \in Slots
  BY CallParts
<1>3. p \in Slots
  BY <1>2, ValsIs DEF Slots
<1> HIDE DEF p, s, init
<1>4. Sets(w, v) /\ v \in Worlds
  BY <1>2, <1>3, SetsSlot, SetsWorlds
<1> HIDE DEF v
<1>5. Back(v, StatusKnown(v, FALSE)) /\ Back(w, StatusKnown(w, init))
  BY <1>4, StatusKnownBack
<1>6. Back(w, StatusKnown(v, FALSE))
  BY <1>4, <1>5, SetsBack
<1> QED
  BY <1>1, <1>5, <1>6

LEMMA DiskStatusBack ==
  ASSUME NEW w \in Worlds
  PROVE  Back(w, disk_status(w))
<1>1. disk_status(w) \in {StatusKnown(w, FALSE), Start(w, "status", "tur"), StatusKnown(w, TRUE)}
  BY DEF disk_status
<1>2. Back(w, Start(w, "status", "tur"))
  BY NamesIs, StartBack
<1>3. Back(w, StatusKnown(w, FALSE)) /\ Back(w, StatusKnown(w, TRUE))
  BY StatusKnownBack
<1> QED
  BY <1>1, <1>2, <1>3

LEMMA ResumedBack ==
  ASSUME NEW w \in Worlds, NEW junk \in BOOLEAN
  PROVE  Back(w, Resumed(w, junk))
<1> DEFINE x == w.pdrv[w.c.vol].nosync \/ (w.c.st = "failed" /\ w.pdrv[w.c.vol].sense = "error")
           v == [w EXCEPT !.pdrv[w.c.vol].nosync = x]
<1>0. w.c.vol \in Vols /\ w.pdrv[w.c.vol] \in Slots
  BY CallParts
<1>1. Resumed(w, junk) \in {StatusDone(w), InquiryDone(w), TurDone(w), CapacityDone(w),
                            WpDone(w, junk), ProbeDone(w), disk_status(w), Finished(w),
                            Finished(v), IoDone(w)}
  <2>1. [w EXCEPT !.pdrv[w.c.vol].nosync =
                @ \/ (w.c.st = "failed" /\ w.pdrv[w.c.vol].sense = "error")] = v
    BY <1>0 DEF Worlds
  <2> HIDE DEF v
  <2> QED BY <2>1 DEF Resumed
<1>2. x \in BOOLEAN
  BY <1>0 DEF Slots
<1> HIDE DEF x
<1>3. Sets(w, v)
  BY <1>0, <1>2, SlotNosyncSets
<1> HIDE DEF v
<1>4. Back(w, Finished(v)) /\ Back(w, Finished(w))
  BY <1>3, FinishedSets, FinishedBack
<1> QED
  BY <1>1, <1>4, StatusDoneBack, InquiryDoneBack, TurDoneBack, CapacityDoneBack,
     WpDoneBack, ProbeDoneBack, DiskStatusBack, IoDoneBack

----------------------------------------------------------------------------
(* The devices, and the call that waits for one of them.                   *)
Free(w, d) == Shut(w, d) \/ Opening(w, d) \/ Settled(w, d)

Awaited(w, d) ==
    w.c.pc = "wait" /\ w.c.d = d
        /\ w.itf[d].tag = IF w.c.sense THEN "sense" ELSE "main"

Device(w, d) == Free(w, d) \/ (Started(w, d) /\ Awaited(w, d))

Ready(w) == \A d \in Addrs : Device(w, d)

Typed(w) == Base(w) /\ Asks(w.c)

(* What a step keeps.                                                      *)
Holds(w, v) == Typed(v) /\ (Ready(w) => Ready(v))

LEMMA HoldsThrough ==
  ASSUME NEW w, NEW u, NEW v, Holds(w, u), Holds(u, v)
  PROVE  Holds(w, v)
BY DEF Holds

LEMMA FreeOrStarted ==
  ASSUME NEW w, NEW d, Free(w, d)
  PROVE  ~Started(w, d)
BY DEF Free, Shut, Opening, Settled, Started, Mounted

LEMMA AllFree ==
  ASSUME NEW w, Ready(w), w.c.pc # "wait" \/ ~Started(w, w.c.d), NEW d \in Addrs
  PROVE  Free(w, d)
BY DEF Ready, Device, Awaited

LEMMA AskedAddr ==
  ASSUME NEW w, Typed(w), w.c.pc \in {"enter", "submit", "wait"}
  PROVE  w.c.d \in Addrs /\ w \in Worlds
BY CallParts DEF Typed, Base, Asks, Callers

LEMMA AboveHolds ==
  ASSUME NEW w, Typed(w), NEW v, Above(w, v), Asks(v.c),
         w.c.pc # "wait" \/ ~Started(w, w.c.d)
  PROVE  Holds(w, v)
<1>1. Typed(v)
  BY PipeSame DEF Typed, Base, Above
<1>2. ASSUME Ready(w) PROVE Ready(v)
  <2> SUFFICES ASSUME NEW d \in Addrs PROVE Free(v, d)
    BY DEF Ready, Device
  <2>1. Free(w, d)
    BY <1>2, AllFree
  <2>2. /\ Alike(w.itf[d], v.itf[d]) /\ v.hw = w.hw /\ v.ctrl = w.ctrl
        /\ v.events = w.events
    BY DEF Above
  <2> QED BY <2>1, <2>2 DEF Free, Shut, Opening, Fresh, Settled, Mounted, Alike
<1> QED
  BY <1>1, <1>2 DEF Holds

LEMMA BackHolds ==
  ASSUME NEW w, Typed(w), NEW v, Back(w, v), w.c.pc # "wait" \/ ~Started(w, w.c.d)
  PROVE  Holds(w, v)
BY AboveHolds DEF Back

(* What a handler of one device leaves of another.                         *)
LEMMA LocalOther ==
  ASSUME NEW w, Base(w), NEW d \in Addrs, NEW e \in Addrs, e # d, NEW v, Local(w, v, d)
  PROVE  /\ v.itf[e] = w.itf[e] /\ (Free(w, e) => Free(v, e))
         /\ Started(w, e) => Started(v, e)
<1>1. /\ v.itf[e] = w.itf[e] /\ v.hw[e] = w.hw[e] /\ Thinner(w.events, v.events)
  BY DEF Local, Apart
<1>2. w.ctrl.d = e \/ v.ctrl.d = e => v.ctrl = w.ctrl
  BY QuietApart DEF Local, Mine
<1>3. w.events \in Seq(Completions) /\ v.events \in Seq(Completions)
  BY WorldParts DEF Base, Local
<1>4. \A ep : (Calm(w.events, e) => Calm(v.events, e)) /\ (Early(w.events, e) => Early(v.events, e))
        /\ (Lone(w.events, e, ep) => Lone(v.events, e, ep))
  BY <1>1, <1>3, ThinnerKeeps
<1>5. Shut(w, e) => Shut(v, e)
  BY <1>1, <1>2 DEF Shut
<1>6. Opening(w, e) => Opening(v, e)
  BY <1>1, <1>2, <1>4 DEF Opening, Fresh
<1>7. Settled(w, e) => Settled(v, e)
  BY <1>1, <1>2, <1>4 DEF Settled
<1>8. Moves(w, e) => Moves(v, e)
  BY <1>1, <1>4 DEF Moves
<1>9. Asked(w, e) /\ w.ctrl.d = e => Asked(v, e)
  BY <1>1, <1>2, <1>4 DEF Asked
<1>10. Started(w, e) => Started(v, e)
  BY <1>1, <1>2, <1>8, <1>9 DEF Started
<1> QED
  BY <1>1, <1>5, <1>6, <1>7, <1>10 DEF Free

LEMMA LocalHolds ==
  ASSUME NEW w, Typed(w), NEW d \in Addrs, NEW v, Local(w, v, d),
         Device(w, d) => Device(v, d)
  PROVE  Holds(w, v)
<1>1. Typed(v) /\ Base(w) /\ v.c = w.c
  BY DEF Typed, Local
<1>2. ASSUME Ready(w), NEW e \in Addrs PROVE Device(v, e)
  <2>1. CASE e = d
    BY <1>2, <2>1 DEF Ready
  <2>2. CASE e # d
    <3>1. Device(w, e)
      BY <1>2 DEF Ready
    <3>2. /\ v.itf[e] = w.itf[e] /\ (Free(w, e) => Free(v, e))
          /\ Started(w, e) => Started(v, e)
      BY <1>1, <2>2, LocalOther
    <3> QED BY <3>1, <3>2, <1>1 DEF Device, Awaited
  <2> QED BY <2>1, <2>2
<1> QED
  BY <1>1, <1>2 DEF Holds, Ready

(* What only the drives and the buffers of the call see.                   *)
Aside(w, v) ==
    /\ v \in Worlds /\ v.itf = w.itf /\ v.hw = w.hw /\ v.ctrl = w.ctrl
    /\ v.events = w.events /\ v.c.pc = w.c.pc /\ v.c.d = w.c.d /\ v.c.sense = w.c.sense

LEMMA AsideHolds ==
  ASSUME NEW w, Typed(w), NEW v, Aside(w, v)
  PROVE  Holds(w, v)
<1>1. Typed(v)
  BY PipeSame DEF Typed, Base, Aside, Asks
<1>2. \A d : /\ Shut(w, d) => Shut(v, d)
             /\ Opening(w, d) => Opening(v, d)
             /\ Settled(w, d) => Settled(v, d)
  BY DEF Aside, Shut, Opening, Fresh, Settled
<1>3. \A d : Started(w, d) /\ Awaited(w, d) => Started(v, d) /\ Awaited(v, d)
  BY DEF Aside, Started, Moves, Asked, Awaited
<1> QED
  BY <1>1, <1>2, <1>3 DEF Holds, Ready, Device, Free

LEMMA BecomeIs ==
  ASSUME NEW v \in Worlds, Become(v)
  PROVE  W' = v
BY DEF Become, W, Worlds

LEMMA BecomeHolds ==
  ASSUME NEW v, Holds(W, v), Become(v)
  PROVE  Holds(W, W')
<1>1. v \in Worlds
  BY DEF Holds, Typed, Base
<1> QED
  BY <1>1, BecomeIs

(* The parts of the world.                                                 *)
LEMMA WorldIs ==
  /\ W.itf = itf /\ W.hw = hw /\ W.ctrl = ctrl /\ W.events = events /\ W.pdrv = pdrv
  /\ W.gen = gen /\ W.dev = dev /\ W.c = c /\ W.file = file /\ W.disk = disk
  /\ W.last = last
BY DEF W

LEMMA TypedWorld ==
  ASSUME Typed(W)
  PROVE  /\ W \in Worlds /\ Base(W)
         /\ \A d \in Addrs : itf[d] \in Itfs /\ hw[d] \in Hws /\ dev[d] \in Devices
         /\ ctrl \in Ctrls /\ events \in Seq(Completions) /\ c \in Callers
         /\ disk \in Disks
<1>1. W \in Worlds /\ Base(W)
  BY DEF Typed, Base
<1> QED
  BY <1>1, WorldIs, WorldParts

----------------------------------------------------------------------------
(* The steps of a call.                                                    *)
LEMMA LookHolds ==
  ASSUME NEW w, Typed(w), NEW late, w.c.pc \in {"enter", "submit", "wait"},
         w.c.pc = "enter" \/ msc_ready(w, w.c.d) \/ ~w.itf[w.c.d].mounted
  PROVE  Holds(w, Looked(w, late))
<1> DEFINE d == w.c.d
<1>1. d \in Addrs /\ w \in Worlds /\ Base(w)
  BY AskedAddr DEF Typed
<1>2. CASE ~w.itf[d].mounted
  <2>1. Looked(w, late) = SyncDone(w, "failed", late)
    BY <1>2 DEF Looked
  <2>2. Back(w, SyncDone(w, "failed", late))
    BY <1>1, ValsIs, SyncDoneBack
  <2>3. ~Started(w, w.c.d)
    BY <1>2 DEF Started, Mounted
  <2> QED BY <2>1, <2>2, <2>3, BackHolds
<1>3. CASE w.itf[d].mounted /\ w.c.pc = "wait"
  <2> DEFINE st == Status(w, d)
  <2>1. Looked(w, late) = SyncDone(w, st, late)
    BY <1>3 DEF Looked
  <2>2. st \in Vals \cup {"timeout"}
    BY <1>1, ValsIs, DeviceParts DEF Status, Itfs
  <2> HIDE DEF st
  <2>3. Back(w, SyncDone(w, st, late))
    BY <1>1, <2>2, SyncDoneBack
  <2>4. ~Started(w, w.c.d)
    BY <1>3 DEF Started, msc_ready
  <2> QED BY <2>1, <2>3, <2>4, BackHolds
<1>4. CASE w.itf[d].mounted /\ w.c.pc # "wait" /\ ~msc_ready(w, d)
  <2> DEFINE k == [w.c EXCEPT !.pc = "submit"]
             v == PutC(w, k)
  <2>1. Looked(w, late) = v
    BY <1>1, <1>4 DEF Looked, PutC, Worlds, Callers
  <2>2. w.c \in Callers
    BY <1>1, CallParts
  <2>3. k \in Callers /\ k.d # 0
    BY <1>1, <2>2 DEF Callers
  <2> HIDE DEF k
  <2>4. Above(w, v) /\ v.c = k
    BY <1>1, <2>3, PutCAbove
  <2> HIDE DEF v
  <2>5. Asks(v.c)
    BY <2>3, <2>4 DEF Asks
  <2> QED BY <1>4, <2>1, <2>4, <2>5, AboveHolds
<1>5. CASE w.itf[d].mounted /\ w.c.pc # "wait" /\ msc_ready(w, d)
  <2> DEFINE sense == w.c.sense
             tag == IF sense THEN "sense" ELSE "main"
             op == IF sense THEN "sense" ELSE w.c.op
             u == msc_scsi_submit(w, d, op, tag)
             pc == IF u.itf[d].stage = "idle" THEN "submit" ELSE "wait"
             got == IF sense THEN u.c.got ELSE Retagged(u.c.got, {"main"})
             k == [u.c EXCEPT !.pc = pc, !.got = got]
             v == PutC(u, k)
  <2>1. w.c \in Callers /\ sense \in BOOLEAN /\ op \in Ops /\ tag \in {"main", "sense"}
    <3>1. w.c \in Callers /\ w.c.op \in Ops
      BY <1>1, CallParts
    <3>2. "sense" \in Ops
      BY DEF Ops, DataIn
    <3> QED BY <3>1, <3>2 DEF Callers
  <2>2. Looked(w, late) = v
    <3> DEFINE z == [u EXCEPT !.c.pc = pc, !.c.got = IF sense THEN @ ELSE Retagged(@, {"main"})]
    <3>1. Looked(w, late) = z
      BY <1>5 DEF Looked, Entering
    <3>2. u \in Worlds
      BY <1>1, <2>1, SubmitIs DEF Local, Base
    <3>3. u.c \in Callers
      BY <3>2, WorldParts
    <3>4. z = [u EXCEPT !.c.pc = pc, !.c.got = got]
      <4> HIDE DEF u, pc, sense
      <4> QED BY <3>2, <3>3 DEF Worlds, Callers
    <3> HIDE DEF u, z, pc, got
    <3>5. [u EXCEPT !.c.pc = pc, !.c.got = got] = v
      BY <3>2, <3>3 DEF PutC, Worlds, Callers
    <3> QED BY <3>1, <3>4, <3>5
  <2>3. /\ Local(w, u, d)
        /\ Settled(w, d) /\ w.itf[d].recovery = "idle" =>
               Settled(u, d) \/ (Started(u, d) /\ u.itf[d].tag = tag)
    <3>1. Base(w) /\ d \in Addrs /\ op \in Ops /\ tag \in {"main", "sense"}
      BY <1>1, <2>1
    <3> HIDE DEF d, sense, tag, op
    <3> QED BY <3>1, SubmitIs
  <2> HIDE DEF u
  <2>4. u \in Worlds /\ u.c = w.c /\ Base(u)
    BY <2>3 DEF Local, Base
  <2>5. got \in Items /\ pc \in {"submit", "wait"}
    BY <2>4, CallParts, RetaggedIs
  <2>6. tag = IF w.c.sense THEN "sense" ELSE "main"
    OBVIOUS
  <2> HIDE DEF got, sense, tag, op
  <2>7. k \in Callers /\ k.d = d /\ k.sense = w.c.sense /\ k.pc = pc
    BY <2>1, <2>4, <2>5 DEF Callers
  <2> HIDE DEF k
  <2>8. /\ v \in Worlds /\ v.c = k /\ v.itf = u.itf /\ v.hw = u.hw /\ v.ctrl = u.ctrl
        /\ v.events = u.events
    BY <2>4, <2>7, PutCIs
  <2> HIDE DEF v
  <2>9. Typed(v)
    BY <1>1, <2>4, <2>7, <2>8, PipeSame DEF Typed, Base, Asks
  <2>10. \A e : /\ Shut(u, e) => Shut(v, e)
                /\ Opening(u, e) => Opening(v, e)
                /\ Settled(u, e) => Settled(v, e)
                /\ Started(u, e) => Started(v, e)
    BY <2>8 DEF Shut, Opening, Fresh, Settled, Started, Moves, Asked
  <2>11. ASSUME Ready(w), NEW e \in Addrs PROVE Device(v, e)
    <3>1. \A f \in Addrs : Free(w, f)
      BY <1>5, <2>11, AllFree
    <3>2. CASE e # d
      <4>0. Base(w) /\ d \in Addrs /\ Local(w, u, d) /\ Free(w, e) /\ e # d
        BY <1>1, <2>3, <3>1, <3>2
      <4> HIDE DEF d
      <4>1. Free(u, e)
        BY <4>0, LocalOther
      <4> QED BY <4>1, <2>10 DEF Device, Free
    <3>3. CASE e = d
      <4>1. Settled(w, d) /\ w.itf[d].recovery = "idle"
        BY <1>1, <1>5, <3>1 DEF Free, Shut, Opening, msc_ready
      <4>2. CASE Settled(u, d)
        BY <3>3, <4>2, <2>10 DEF Device, Free
      <4>3. CASE Started(u, d) /\ u.itf[d].tag = tag
        <5>1. pc = "wait"
          BY <4>3 DEF Started
        <5>2. Awaited(v, d)
          BY <4>3, <5>1, <2>6, <2>7, <2>8 DEF Awaited
        <5> QED BY <3>3, <4>3, <5>2, <2>10 DEF Device
      <4> QED BY <4>1, <4>2, <4>3, <2>3
    <3> QED BY <3>2, <3>3
  <2> QED BY <2>2, <2>9, <2>11 DEF Holds, Ready
<1> QED
  BY <1>2, <1>3, <1>4, <1>5

(* A wait that is given up; what was started for it is taken back, unless  *)
(* an end of it waits while the control pipe is some other device's.       *)
LEMMA TimedOutHolds ==
  ASSUME NEW w, Typed(w), NEW late, w.c.pc \in {"submit", "wait"}, w.itf[w.c.d].mounted,
         w.c.pc = "wait" => ~msc_ready(w, w.c.d)
  PROVE  LET v == TimedOut(w, late) IN
         /\ Typed(v) /\ v.c.pc # "wait"
         /\ (w.c.pc = "wait" => Leaves(w, w.c.d)) => Holds(w, v)
<1> DEFINE d == w.c.d
           u == IF w.c.pc = "wait" THEN msc_abort(w, d) ELSE w
           v == TimedOut(w, late)
<1>1. d \in Addrs /\ w \in Worlds /\ Base(w)
  BY AskedAddr DEF Typed
<1>2. v = SyncDone(u, "timeout", late)
  BY DEF TimedOut
<1>3. /\ Local(w, u, d)
      /\ w.c.pc = "wait" /\ Pending(w, d) /\ Leaves(w, d) => Settled(u, d)
      /\ w.c.pc # "wait" => u = w
  BY <1>1, AbortIs, LocalSame
<1> HIDE DEF u, v
<1>4. u \in Worlds /\ u.c = w.c /\ Typed(u)
  BY <1>3 DEF Local, Typed, Base
<1>5. Back(u, v)
  BY <1>1, <1>2, <1>4, SyncDoneBack
<1>6. Typed(v) /\ v.c.pc # "wait"
  BY <1>4, <1>5, PipeSame DEF Back, Above, Typed, Base
<1>7. ASSUME w.c.pc = "wait" => Leaves(w, d), Ready(w) PROVE Ready(v)
  <2>1. Device(w, d)
    BY <1>1, <1>7 DEF Ready
  <2>2. CASE w.c.pc = "wait"
    <3>1. Pending(w, d)
      <4>1. CASE Settled(w, d)
        <5>1. \A ep \in {"in", "out"} : ~w.hw[d][ep].busy
          BY <4>1 DEF Settled, Rest, Idle, Eps
        <5>2. w.itf[d].recovery # "idle"
          BY <4>1, <5>1, <2>2 DEF Settled, msc_ready
        <5> QED BY <4>1, <5>2 DEF Pending
      <4>2. CASE Started(w, d)
        BY <4>2 DEF Pending
      <4> QED BY <2>1, <4>1, <4>2 DEF Device, Free, Shut, Opening
    <3>2. Settled(u, d)
      BY <1>3, <1>7, <2>2, <3>1
    <3>3. Device(u, d) /\ ~Started(u, u.c.d)
      BY <1>4, <3>2, FreeOrStarted DEF Device, Free
    <3>4. Holds(w, u)
      BY <1>1, <1>3, <3>3, LocalHolds
    <3>5. Holds(u, v)
      BY <1>4, <1>5, <3>3, BackHolds
    <3> QED BY <1>7, <3>4, <3>5 DEF Holds
  <2>3. CASE w.c.pc # "wait"
    <3>1. Holds(w, v)
      BY <1>3, <1>5, <2>3, BackHolds
    <3> QED BY <1>7, <3>1 DEF Holds
  <2> QED BY <2>2, <2>3
<1> QED
  BY <1>6, <1>7 DEF Holds, v

----------------------------------------------------------------------------
(* The drives, and the ends of transfers.                                  *)
LEMMA MoreVals ==
  /\ {"none", "other", "blank", "made"} \subseteq Media /\ Media \subseteq Vals
  /\ {"yes", "no", "lbpme", "plain", "meant", "another", "passed", "failed", "phase",
      "residue", "ua28", "ua29", "absent", "error", "none"} \subseteq Vals
BY DEF Vals, Media

LEMMA ItemIs ==
  ASSUME NEW k \in Loads, NEW tag \in Tags, NEW val \in Vals
  PROVE  Item(k, tag, val) \in Items /\ Item(k, tag, val).k = k
BY DEF Item, Items

LEMMA NoDriveIs ==
  NoDrive \in Devices
<1>1. "none" \in Media /\ "none" \in Vals /\ "old" \in Tags
  BY MoreVals DEF Tags
<1> QED
  BY <1>1 DEF NoDrive, Devices

LEMMA DriveParts ==
  ASSUME NEW x \in Devices
  PROVE  /\ x.unit \in Media /\ x.medium \in Media /\ x.ua \in Vals /\ x.sense \in Vals
         /\ x.tag \in Tags /\ x.inq \in Seq(Items) /\ x.halt \in SUBSET {"in", "out"}
         /\ x.bot \in BOOLEAN
BY DEF Devices

LEMMA AnswerIs ==
  ASSUME NEW x \in Devices, NEW op
  PROVE  Answer(x, op) \in Vals
<1>1. x.medium \in Vals /\ x.ua \in Vals /\ x.sense \in Vals
  BY DriveParts, MoreVals
<1> QED
  BY <1>1, MoreVals DEF Answer

LEMMA CswIs ==
  ASSUME NEW x, NEW tag \in Tags, NEW st \in Vals
  PROVE  Csw(x, tag, st) \in Seq(Items)
<1>1. Item("csw", tag, st) \in Items
  BY ItemIs DEF Loads
<1> QED
  BY <1>1 DEF Csw

LEMMA JoinIs ==
  ASSUME NEW q \in Seq(Items), NEW r \in Seq(Items)
  PROVE  q \o r \in Seq(Items)
OBVIOUS

LEMMA ServedIs ==
  ASSUME NEW x \in Devices, NEW op, NEW tag \in Tags
  PROVE  Served(x, op, tag) \in Devices
<1> DEFINE sense == IF op = "inquiry" THEN x.sense ELSE "none"
           ua == IF op = "sense" THEN "none" ELSE x.ua
           u == [x EXCEPT !.tag = tag, !.sense = sense, !.ua = ua]
           a == IF op \in DataIn THEN <<Item("data", tag, Answer(x, op))>> ELSE <<>>
           b == Csw(x, tag, "passed")
           q == x.inq \o a
           r == q \o b
<1>1. sense \in Vals /\ ua \in Vals
  BY DriveParts, MoreVals
<1>2. x.inq \in Seq(Items) /\ a \in Seq(Items) /\ b \in Seq(Items)
  <2>1. Item("data", tag, Answer(x, op)) \in Items
    BY AnswerIs, ItemIs DEF Loads
  <2>2. a \in Seq(Items)
    <3> DEFINE it == Item("data", tag, Answer(x, op))
    <3> HIDE DEF it
    <3> QED BY <2>1 DEF it
  <2> QED BY <2>2, CswIs, MoreVals, DriveParts
<1> HIDE DEF a, b
<1>3. q \in Seq(Items)
  BY <1>2, JoinIs
<1> HIDE DEF q
<1>4. r \in Seq(Items)
  BY <1>2, <1>3, JoinIs
<1>5. Served(x, op, tag) \in {[u EXCEPT !.want = TRUE], [u EXCEPT !.inq = r]}
  <2> DEFINE t == [x EXCEPT !.tag = tag, !.sense = IF op = "inquiry" THEN @ ELSE "none",
                            !.ua = IF op = "sense" THEN "none" ELSE @]
  <2>1. t = u
    BY DEF Devices
  <2>2. u.inq = x.inq
    BY DEF Devices
  <2>3. Served(x, op, tag) = IF op \in DataOut THEN [t EXCEPT !.want = TRUE]
           ELSE [t EXCEPT !.inq = @
             \o (IF op \in DataIn THEN <<Item("data", tag, Answer(x, op))>> ELSE <<>>)
             \o Csw(x, tag, "passed")]
    BY DEF Served
  <2>4. Served(x, op, tag) = IF op \in DataOut THEN [u EXCEPT !.want = TRUE]
           ELSE [u EXCEPT !.inq = (u.inq \o a) \o b]
    <3> HIDE DEF t, u
    <3> QED BY <2>1, <2>3 DEF a, b
  <2> HIDE DEF u
  <2> QED BY <2>2, <2>4 DEF q
<1> HIDE DEF r, sense, ua
<1>6. u \in Devices
  BY <1>1 DEF Devices
<1> HIDE DEF u
<1>7. [u EXCEPT !.want = TRUE] \in Devices
  BY <1>6 DEF Devices
<1>8. [u EXCEPT !.inq = r] \in Devices
  BY <1>4, <1>6 DEF Devices
<1> QED
  BY <1>5, <1>7, <1>8

LEMMA RefusedIs ==
  ASSUME NEW x \in Devices, NEW op, NEW tag \in Tags, NEW sense \in Vals
  PROVE  Refused(x, op, tag, sense) \in Devices
<1> DEFINE ua == IF x.ua = sense THEN "none" ELSE x.ua
           h == x.halt \cup (IF op \in DataIn THEN {"in"}
                             ELSE IF op \in DataOut THEN {"out"} ELSE {})
           b == Csw(x, tag, "failed")
           q == x.inq \o b
<1>1. ua \in Vals /\ h \in SUBSET {"in", "out"}
  BY DriveParts, MoreVals
<1>2. x.inq \in Seq(Items) /\ b \in Seq(Items)
  BY CswIs, MoreVals, DriveParts
<1>3. Refused(x, op, tag, sense) = [x EXCEPT !.tag = tag, !.sense = sense, !.ua = ua,
                                             !.halt = h, !.inq = q]
  BY DEF Refused
<1> HIDE DEF b, ua, h
<1>4. q \in Seq(Items)
  BY <1>2, JoinIs
<1> HIDE DEF q
<1> QED
  BY <1>1, <1>3, <1>4 DEF Devices

LEMMA SoundIs ==
  ASSUME NEW x \in Devices, NEW op, NEW tag \in Tags
  PROVE  Sound(x, op, tag) \in Devices /\ \A u \in Flawed(x, op, tag) : u \in Devices
<1>1. Sound(x, op, tag) \in {Served(x, op, tag), Refused(x, op, tag, x.ua),
                             Refused(x, op, tag, "absent")}
  BY DEF Sound
<1>2. x.ua \in Vals /\ "absent" \in Vals /\ "error" \in Vals
  BY DriveParts, MoreVals
<1>3. Sound(x, op, tag) \in Devices
  BY <1>1, <1>2, ServedIs, RefusedIs
<1> DEFINE b == Csw(x, tag, "phase")
           q == x.inq \o b
           p == [x EXCEPT !.tag = tag, !.inq = q]
<1>4. x.inq \in Seq(Items) /\ b \in Seq(Items)
  BY CswIs, MoreVals, DriveParts
<1>5. \A u \in Flawed(x, op, tag) : u = Refused(x, op, tag, "error") \/ u = p
  BY DEF Flawed
<1> HIDE DEF b
<1>6. q \in Seq(Items)
  BY <1>4, JoinIs
<1> HIDE DEF q
<1>7. p \in Devices
  BY <1>6 DEF Devices
<1> HIDE DEF p
<1> QED
  BY <1>2, <1>3, <1>5, <1>7, RefusedIs

LEMMA DevAside ==
  ASSUME NEW w \in Worlds, NEW d \in Addrs, NEW x \in Devices
  PROVE  Aside(w, [w EXCEPT !.dev[d] = x])
<1>1. [w EXCEPT !.dev[d] = x] = PutDev(w, d, x)
  BY DEF PutDev, Worlds
<1> QED
  BY <1>1, PutDevIs DEF Aside

LEMMA GotAside ==
  ASSUME NEW w \in Worlds, NEW it \in Items
  PROVE  Aside(w, [w EXCEPT !.c.got = it]) /\ Aside(w, [w EXCEPT !.c.resp = it])
<1> DEFINE k == [w.c EXCEPT !.got = it]
           m == [w.c EXCEPT !.resp = it]
<1>1. w.c \in Callers
  BY CallParts
<1>2. [w EXCEPT !.c.got = it] = PutC(w, k) /\ [w EXCEPT !.c.resp = it] = PutC(w, m)
  BY <1>1 DEF PutC, Worlds, Callers
<1>3. /\ k \in Callers /\ k.pc = w.c.pc /\ k.d = w.c.d /\ k.sense = w.c.sense
      /\ m \in Callers /\ m.pc = w.c.pc /\ m.d = w.c.d /\ m.sense = w.c.sense
  BY <1>1 DEF Callers
<1> HIDE DEF k, m
<1>4. Aside(w, PutC(w, k)) /\ Aside(w, PutC(w, m))
  BY <1>3, PutCIs DEF Aside
<1> QED
  BY <1>2, <1>4

LEMMA AsideSame ==
  ASSUME NEW w \in Worlds
  PROVE  Aside(w, w)
BY DEF Aside

LEMMA AsideThrough ==
  ASSUME NEW w, NEW u, NEW v, Aside(w, u), Aside(u, v)
  PROVE  Aside(w, v)
BY DEF Aside

(* A completion is queued.                                                 *)
Joined(q, e, r) ==
    /\ r \in Seq(Completions)
    /\ \A d : /\ Calm(q, d) /\ ~BulkOf(e, d) => Calm(r, d)
              /\ Early(q, d) /\ ~BulkOf(e, d) => Early(r, d)
              /\ NoCtl(q) /\ e.d = d => OneCtl(r, d)
              /\ OneCtl(q, d) /\ e.ep # "ctl" => OneCtl(r, d)
    /\ \A d, ep : /\ Calm(q, d) /\ e.ep = ep => Lone(r, d, ep)
                  /\ Lone(q, d, ep) /\ ~BulkOf(e, d) => Lone(r, d, ep)
    /\ NoCtl(q) /\ e.ep # "ctl" => NoCtl(r)

LEMMA JoinedIs ==
  ASSUME NEW q \in Seq(Completions), NEW e \in Completions
  PROVE  Joined(q, e, Append(q, e))
<1> DEFINE r == Append(q, e)
<1>1. \A d, ep :
         /\ r \in Seq(Completions)
         /\ Calm(q, d) /\ ~BulkOf(e, d) => Calm(r, d)
         /\ Calm(q, d) /\ e.ep = ep => Lone(r, d, ep)
         /\ Lone(q, d, ep) /\ ~BulkOf(e, d) => Lone(r, d, ep)
         /\ Early(q, d) /\ ~BulkOf(e, d) => Early(r, d)
         /\ NoCtl(q) /\ e.ep # "ctl" => NoCtl(r)
         /\ NoCtl(q) /\ e.d = d => OneCtl(r, d)
         /\ OneCtl(q, d) /\ e.ep # "ctl" => OneCtl(r, d)
  BY AppendOf
<1> HIDE DEF r
<1>2. Joined(q, e, r)
  BY <1>1 DEF Joined
<1> QED BY <1>2 DEF r

Pushed(w, v, e) ==
    /\ v \in Worlds /\ v.itf = w.itf /\ v.hw = w.hw /\ v.ctrl = w.ctrl /\ v.c = w.c
    /\ e \in Completions /\ Joined(w.events, e, v.events)

LEMMA PushIs ==
  ASSUME NEW w \in Worlds, NEW d \in Addrs, NEW ep \in {"in", "out", "ctl", "gone"},
         NEW res \in {"ok", "stall", "fail"}, NEW it \in Items, NEW whole \in BOOLEAN
  PROVE  LET v == Push(w, d, ep, res, it, whole) IN
         \E e : Pushed(w, v, e) /\ e.d = d /\ e.ep = ep
<1> DEFINE e == [d |-> d, ep |-> ep, res |-> res, item |-> it, k |-> it.k,
                 whole |-> whole]
           q == Append(w.events, e)
<1>1. e \in Completions /\ e.d = d /\ e.ep = ep
  BY DEF Completions, Items
<1>2. Push(w, d, ep, res, it, whole) = PutEvents(w, q)
  BY DEF Push, PutEvents
<1> HIDE DEF e
<1>3. q \in Seq(Completions) /\ Joined(w.events, e, q)
  BY <1>1, WorldParts, JoinedIs DEF Joined
<1> HIDE DEF q
<1>4. LET v == PutEvents(w, q) IN
      /\ v \in Worlds /\ v.events = q /\ v.itf = w.itf /\ v.hw = w.hw
      /\ v.ctrl = w.ctrl /\ v.c = w.c
  BY <1>3, PutEventsIs
<1>5. Pushed(w, PutEvents(w, q), e)
  BY <1>1, <1>3, <1>4 DEF Pushed
<1> QED
  BY <1>1, <1>2, <1>5

LEMMA PushHolds ==
  ASSUME NEW w, Typed(w), NEW d \in Addrs, NEW it \in Items
  PROVE  Holds(w, Push(w, d, "gone", "ok", it, TRUE))
<1> DEFINE v == Push(w, d, "gone", "ok", it, TRUE)
<1>0. w \in Worlds /\ Base(w) /\ w.events \in Seq(Completions)
  BY WorldParts DEF Typed, Base
<1>1. PICK e : Pushed(w, v, e) /\ e.d = d /\ e.ep = "gone"
  <2>1. "gone" \in {"in", "out", "ctl", "gone"} /\ "ok" \in {"ok", "stall", "fail"}
    OBVIOUS
  <2> DEFINE yes == TRUE
  <2>2. v = Push(w, d, "gone", "ok", it, yes) /\ yes \in BOOLEAN
    OBVIOUS
  <2> HIDE DEF v, yes
  <2> QED BY <2>1, <2>2, <1>0, PushIs
<1> HIDE DEF v
<1>6. v \in Worlds /\ v.itf = w.itf /\ v.hw = w.hw /\ v.ctrl = w.ctrl /\ v.c = w.c
  BY <1>1 DEF Pushed
<1>2. \A f, ep : /\ Calm(w.events, f) => Calm(v.events, f)
                 /\ Lone(w.events, f, ep) => Lone(v.events, f, ep)
                 /\ Early(w.events, f) => Early(v.events, f)
                 /\ NoCtl(w.events) => NoCtl(v.events)
                 /\ OneCtl(w.events, f) => OneCtl(v.events, f)
  <2>1. \A f : ~BulkOf(e, f)
    BY <1>1 DEF BulkOf, Eps
  <2> QED BY <2>1, <1>1 DEF Pushed, Joined
<1>3. Typed(v)
  BY <1>0, <1>6, <1>2 DEF Typed, Base, Pipe
<1>4. \A f : /\ Shut(w, f) => Shut(v, f)
             /\ Opening(w, f) => Opening(v, f)
             /\ Settled(w, f) => Settled(v, f)
             /\ Moves(w, f) => Moves(v, f)
             /\ Asked(w, f) => Asked(v, f)
  BY <1>6, <1>2 DEF Shut, Opening, Fresh, Settled, Moves, Asked
<1>5. \A f : Started(w, f) /\ Awaited(w, f) => Started(v, f) /\ Awaited(v, f)
  BY <1>6, <1>4 DEF Started, Awaited
<1> QED
  BY <1>3, <1>4, <1>5 DEF Holds, Ready, Device, Free, v

(* A bulk transfer that is under way ends.                                 *)
LEMMA EndedHolds ==
  ASSUME NEW w, Typed(w), NEW d \in Addrs, NEW ep \in Eps, w.hw[d][ep].k # "none",
         NEW res \in {"ok", "stall", "fail"}, NEW it \in Items, NEW whole \in BOOLEAN
  PROVE  Holds(w, Ended(w, d, ep, res, it, whole))
<1> DEFINE x == [w.hw[d][ep] EXCEPT !.k = "none"]
           h == [w.hw[d] EXCEPT ![ep] = x]
           u == PutHw(w, d, h)
           v == Ended(w, d, ep, res, it, whole)
<1>1. w \in Worlds /\ Base(w) /\ w.events \in Seq(Completions) /\ w.hw[d] \in Hws
        /\ w.hw \in [Addrs -> Hws]
  BY WorldParts DEF Typed, Base
<1>2. [w EXCEPT !.hw[d][ep].k = "none"] = u
  <2>1. [w.hw EXCEPT ![d][ep].k = "none"] = [w.hw EXCEPT ![d] = h]
    BY <1>1 DEF Hws, Eps
  <2>2. [w EXCEPT !.hw[d][ep].k = "none"] = [w EXCEPT !.hw = [@ EXCEPT ![d][ep].k = "none"]]
    BY <1>1 DEF Worlds
  <2> HIDE DEF h
  <2> QED BY <2>1, <2>2 DEF PutHw
<1>3. w.hw[d][ep] \in Xfers
  BY <1>1, NoXferIs, HwsParts
<1>4. x \in Xfers /\ x.k = "none" /\ x.busy = w.hw[d][ep].busy /\ x.for = w.hw[d][ep].for
  BY <1>3 DEF Xfers, Loads
<1> HIDE DEF x
<1>5. h \in Hws /\ h[ep] = x /\ \A e \in Eps : e # ep => h[e] = w.hw[d][e]
  BY <1>1, <1>4, HwsParts
<1> HIDE DEF h
<1>6. /\ u \in Worlds /\ u.hw[d] = h /\ \A f \in Addrs : f # d => u.hw[f] = w.hw[f]
      /\ u.itf = w.itf /\ u.ctrl = w.ctrl /\ u.events = w.events /\ u.c = w.c
  BY <1>1, <1>5, PutHwIs
<1>7. v = Push(u, d, ep, res, it, whole)
  <2> HIDE DEF u
  <2> QED BY <1>2 DEF Ended
<1> HIDE DEF u, v
<1>12. PICK e : Pushed(u, v, e) /\ e.d = d /\ e.ep = ep
  <2>1. ep \in {"in", "out", "ctl", "gone"} /\ u \in Worlds
    BY <1>6 DEF Eps
  <2> QED BY <2>1, <1>7, PushIs
<1>8. /\ e \in Completions /\ e.d = d /\ e.ep = ep /\ Joined(w.events, e, v.events)
      /\ v \in Worlds /\ v.itf = w.itf /\ v.hw = u.hw /\ v.ctrl = w.ctrl /\ v.c = w.c
  BY <1>6, <1>12 DEF Pushed
<1>9. e.ep # "ctl" /\ \A f : BulkOf(e, f) => f = d
  BY <1>8 DEF Eps, BulkOf
<1>10. Typed(v)
  <2>1. \A f : /\ NoCtl(w.events) => NoCtl(v.events)
               /\ OneCtl(w.events, f) => OneCtl(v.events, f)
    BY <1>8, <1>9 DEF Joined
  <2> QED BY <2>1, <1>1, <1>8 DEF Typed, Base, Pipe
<1>11. ASSUME Ready(w), NEW f \in Addrs PROVE Device(v, f)
  <2>1. Device(w, f)
    BY <1>11 DEF Ready
  <2>2. CASE f # d
    <3>1. \A ee : /\ Calm(w.events, f) => Calm(v.events, f)
                  /\ Lone(w.events, f, ee) => Lone(v.events, f, ee)
                  /\ Early(w.events, f) => Early(v.events, f)
      <4>1. ~BulkOf(e, f)
        BY <1>9, <2>2
      <4> QED BY <4>1, <1>8 DEF Joined
    <3>2. v.hw[f] = w.hw[f]
      BY <1>6, <1>8, <2>2
    <3>3. /\ Shut(w, f) => Shut(v, f)
          /\ Opening(w, f) => Opening(v, f)
          /\ Settled(w, f) => Settled(v, f)
          /\ Moves(w, f) => Moves(v, f)
          /\ Asked(w, f) => Asked(v, f)
      BY <1>8, <3>1, <3>2 DEF Shut, Opening, Fresh, Settled, Moves, Asked
    <3>4. Started(w, f) /\ Awaited(w, f) => Started(v, f) /\ Awaited(v, f)
      BY <1>8, <3>3 DEF Started, Awaited
    <3> QED BY <2>1, <3>3, <3>4 DEF Device, Free
  <2>3. CASE f = d
    <3>1. ~Rest(w.hw[d])
      BY DEF Rest, Idle
    <3>2. Started(w, d) /\ Awaited(w, d) /\ Moves(w, d) /\ w.ctrl.d # d
      BY <2>1, <2>3, <3>1 DEF Device, Free, Shut, Opening, Fresh, Settled, Started, Asked
    <3> DEFINE se == StageEp(w.itf[d])
    <3>3. ep = se /\ w.hw[d][se].busy /\ Calm(w.events, d)
          /\ \A g \in Eps : g # se => Idle(w.hw[d][g])
      BY <3>2 DEF Moves, Idle
    <3>4. Lone(v.events, d, ep)
      BY <1>8, <3>3 DEF Joined
    <3>5. \A g \in Eps : g # ep => v.hw[d][g] = w.hw[d][g]
      BY <1>5, <1>6, <1>8
    <3>6. v.hw[d][ep].busy /\ v.hw[d][ep].k = "none"
      BY <1>4, <1>5, <1>6, <1>8, <3>3
    <3>7. Moves(v, d)
      BY <1>8, <3>2, <3>3, <3>4, <3>5, <3>6 DEF Moves
    <3>8. Started(v, d) /\ Awaited(v, d)
      BY <1>8, <3>2, <3>7 DEF Started, Awaited
    <3> QED BY <2>3, <3>8 DEF Device
  <2> QED BY <2>2, <2>3
<1> QED
  BY <1>10, <1>11 DEF Holds, Ready, v

(* So does the control transfer.                                           *)
LEMMA ControlEndedHolds ==
  ASSUME NEW w, Typed(w), w.ctrl.d # 0, ~w.ctrl.done,
         NEW res \in {"ok", "stall", "fail"}, NEW it \in Items
  PROVE  Holds(w, Push([w EXCEPT !.ctrl.done = TRUE], w.ctrl.d, "ctl", res, it, TRUE))
<1> DEFINE d == w.ctrl.d
           k == [w.ctrl EXCEPT !.done = TRUE]
           u == PutCtrl(w, k)
           v == Push(u, d, "ctl", res, it, TRUE)
<1>1. w \in Worlds /\ Base(w) /\ w.events \in Seq(Completions) /\ w.ctrl \in Ctrls
  BY WorldParts DEF Typed, Base
<1>2. d \in Addrs
  BY <1>1 DEF Ctrls
<1>3. [w EXCEPT !.ctrl.done = TRUE] = u
  BY <1>1 DEF PutCtrl, Worlds, Ctrls
<1>4. /\ k \in Ctrls /\ k.d = d /\ k.req = w.ctrl.req /\ k.cb = w.ctrl.cb /\ k.done
  BY <1>1 DEF Ctrls
<1> HIDE DEF k
<1>5. /\ u \in Worlds /\ u.ctrl = k /\ u.itf = w.itf /\ u.hw = w.hw
      /\ u.events = w.events /\ u.c = w.c
  BY <1>1, <1>4, PutCtrlIs
<1> HIDE DEF u
<1>14. PICK e : Pushed(u, v, e) /\ e.d = d /\ e.ep = "ctl"
  <2>1. "ctl" \in {"in", "out", "ctl", "gone"} /\ u \in Worlds
    BY <1>5
  <2> DEFINE yes == TRUE
  <2>2. v = Push(u, d, "ctl", res, it, yes) /\ yes \in BOOLEAN
    OBVIOUS
  <2> HIDE DEF d, v, yes
  <2> QED BY <2>1, <2>2, <1>2, PushIs
<1> HIDE DEF v
<1>6. /\ e \in Completions /\ e.d = d /\ e.ep = "ctl" /\ Joined(w.events, e, v.events)
      /\ v \in Worlds /\ v.itf = u.itf /\ v.hw = u.hw /\ v.ctrl = u.ctrl /\ v.c = u.c
  BY <1>5, <1>14 DEF Pushed
<1>7. NoCtl(w.events) /\ w.ctrl.req \in Reqs /\ w.ctrl.cb \in Cbs
  BY <1>1 DEF Base, Pipe
<1>8. OneCtl(v.events, d)
  BY <1>6, <1>7 DEF Joined
<1>9. \A f, ep : /\ Calm(w.events, f) => Calm(v.events, f)
                 /\ Lone(w.events, f, ep) => Lone(v.events, f, ep)
                 /\ Early(w.events, f) => Early(v.events, f)
  <2>1. \A f : ~BulkOf(e, f)
    BY <1>6 DEF BulkOf, Eps
  <2> QED BY <2>1, <1>6 DEF Joined
<1>10. Typed(v)
  BY <1>4, <1>5, <1>6, <1>7, <1>8 DEF Typed, Base, Pipe
<1>11. \A f : /\ Shut(w, f) => Shut(v, f)
              /\ Opening(w, f) => Opening(v, f)
              /\ Settled(w, f) => Settled(v, f)
              /\ Moves(w, f) => Moves(v, f)
              /\ Asked(w, f) => Asked(v, f)
  BY <1>4, <1>5, <1>6, <1>9 DEF Shut, Opening, Fresh, Settled, Moves, Asked
<1>12. \A f : Started(w, f) /\ Awaited(w, f) => Started(v, f) /\ Awaited(v, f)
  BY <1>4, <1>5, <1>6, <1>11 DEF Started, Awaited
<1>13. Holds(w, v)
  BY <1>10, <1>11, <1>12 DEF Holds, Ready, Device, Free
<1> QED
  BY <1>3, <1>13 DEF v

----------------------------------------------------------------------------
(* The steps of the drives and of the bus.                                 *)
LEMMA AsideEnded ==
  ASSUME NEW w, Typed(w), NEW u, Aside(w, u), NEW d \in Addrs, NEW ep \in Eps,
         w.hw[d][ep].k # "none", NEW res \in {"ok", "stall", "fail"}, NEW it \in Items
  PROVE  /\ Holds(w, Ended(u, d, ep, res, it, TRUE))
         /\ Holds(w, Ended(u, d, ep, res, it, FALSE))
<1>1. Holds(w, u) /\ Typed(u) /\ u.hw[d][ep].k # "none"
  BY AsideHolds DEF Holds, Aside
<1>2. ASSUME NEW whole \in BOOLEAN PROVE Holds(w, Ended(u, d, ep, res, it, whole))
  <2>1. Holds(u, Ended(u, d, ep, res, it, whole))
    BY <1>1, EndedHolds
  <2> QED BY <1>1, <2>1, HoldsThrough
<1> DEFINE yes == TRUE
           no == FALSE
<1>3. yes \in BOOLEAN /\ no \in BOOLEAN
  OBVIOUS
<1> HIDE DEF yes, no
<1>4. Holds(w, Ended(u, d, ep, res, it, yes)) /\ Holds(w, Ended(u, d, ep, res, it, no))
  BY <1>2, <1>3
<1> QED BY <1>4 DEF yes, no

LEMMA TakesCbwHolds ==
  ASSUME Typed(W), NEW d \in Addrs, TakesCbw(d)
  PROVE  Holds(W, W')
<1> DEFINE cbw == Item("cbw", itf[d].tag, "none")
           op == itf[d].op
           tag == itf[d].tag
<1>1. W \in Worlds /\ dev[d] \in Devices /\ tag \in Tags /\ W.hw = hw
  BY TypedWorld, WorldIs DEF Itfs
<1>2. cbw \in Items
  BY <1>1, ItemIs, MoreVals DEF Loads
<1>3. Sound(dev[d], op, tag) \in Devices /\ \A u \in Flawed(dev[d], op, tag) : u \in Devices
  BY <1>1, SoundIs
<1>4. PICK u \in Devices : Become(Ended([W EXCEPT !.dev[d] = u], d, "out", "ok", cbw, TRUE))
  <2> HIDE DEF cbw
  <2>1. \/ Become(Ended([W EXCEPT !.dev[d] = Sound(dev[d], op, tag)], d, "out", "ok", cbw, TRUE))
        \/ \E u \in Flawed(dev[d], op, tag) :
              Become(Ended([W EXCEPT !.dev[d] = u], d, "out", "ok", cbw, TRUE))
    BY DEF TakesCbw, cbw
  <2> HIDE DEF op, tag
  <2> QED BY <2>1, <1>3
<1> HIDE DEF cbw
<1>5. Aside(W, [W EXCEPT !.dev[d] = u])
  BY <1>1, DevAside
<1>6. W.hw[d]["out"].k # "none" /\ "out" \in Eps /\ "ok" \in {"ok", "stall", "fail"}
  BY <1>1 DEF TakesCbw, Eps
<1> DEFINE t == [W EXCEPT !.dev[d] = u]
<1>7. Aside(W, t) /\ Become(Ended(t, d, "out", "ok", cbw, TRUE))
  BY <1>4, <1>5
<1> HIDE DEF t
<1>8. Holds(W, Ended(t, d, "out", "ok", cbw, TRUE))
  BY <1>2, <1>6, <1>7, AsideEnded
<1> QED
  BY <1>7, <1>8, BecomeHolds

LEMMA EndsIs ==
  ASSUME NEW x \in Devices, NEW op, NEW st \in Vals, NEW sense \in Vals
  PROVE  [x EXCEPT !.want = FALSE, !.medium = Rewritten(@, op), !.sense = sense,
                   !.inq = @ \o Csw(x, x.tag, st)] \in Devices
<1> DEFINE m == Rewritten(x.medium, op)
           b == Csw(x, x.tag, st)
           q == x.inq \o b
<1>1. x.medium \in Media /\ x.tag \in Tags /\ x.inq \in Seq(Items)
  BY DriveParts
<1>2. m \in Media
  BY <1>1, MoreVals DEF Rewritten
<1>3. b \in Seq(Items)
  BY <1>1, CswIs
<1> HIDE DEF b, m
<1>4. q \in Seq(Items)
  BY <1>1, <1>3, JoinIs
<1>5. [x EXCEPT !.want = FALSE, !.medium = Rewritten(@, op), !.sense = sense,
                !.inq = @ \o Csw(x, x.tag, st)]
        = [x EXCEPT !.want = FALSE, !.medium = m, !.sense = sense, !.inq = q]
  BY DEF m, b
<1> HIDE DEF q
<1>6. [x EXCEPT !.want = FALSE, !.medium = m, !.sense = sense, !.inq = q] \in Devices
  BY <1>2, <1>4 DEF Devices
<1> QED BY <1>5, <1>6

LEMMA TakesDataHolds ==
  ASSUME Typed(W), NEW d \in Addrs, TakesData(d)
  PROVE  Holds(W, W')
<1> DEFINE x == dev[d]
           op == itf[d].op
           for == hw[d].out.for
           kept == x.medium # "none"
           took == Item("data", for, Written(x, op))
           sense == IF kept THEN "none" ELSE "absent"
           Ends(st) == [x EXCEPT !.want = FALSE, !.medium = Rewritten(@, op),
                                 !.sense = sense, !.inq = @ \o Csw(x, x.tag, st)]
           st1 == IF kept THEN "passed" ELSE "failed"
<1>1. /\ W \in Worlds /\ x \in Devices /\ hw[d] \in Hws /\ W.hw = hw
      /\ sense \in Vals /\ st1 \in Vals /\ "residue" \in Vals
  BY TypedWorld, WorldIs, MoreVals
<1>2. Ends(st1) \in Devices /\ Ends("residue") \in Devices
  <2>1. \A st \in Vals : Ends(st) \in Devices
    <3> TAKE st \in Vals
    <3> HIDE DEF sense, op, x
    <3> QED BY <1>1, EndsIs
  <2> HIDE DEF Ends, st1
  <2> QED BY <1>1, <2>1
<1>3. took \in Items
  <2>1. for \in Tags
    BY <1>1 DEF Hws, Xfers
  <2>2. Written(x, op) \in Vals
    BY <1>1, DriveParts, MoreVals DEF Written
  <2> HIDE DEF for, x, op
  <2> QED BY <2>1, <2>2, ItemIs DEF Loads
<1>4. \E u \in Devices :
         LET t == [W EXCEPT !.dev[d] = u] IN
         \/ Become(Ended(t, d, "out", "ok", took, TRUE))
         \/ Become(Ended([t EXCEPT !.c.got = took], d, "out", "ok", took, TRUE))
  <2>1. \/ Become(Ended(IF kept THEN [[W EXCEPT !.dev[d] = Ends(st1)] EXCEPT !.c.got = took]
                        ELSE [W EXCEPT !.dev[d] = Ends(st1)], d, "out", "ok", took, TRUE))
        \/ Become(Ended([W EXCEPT !.dev[d] = Ends("residue")], d, "out", "ok", took, TRUE))
    BY DEF TakesData
  <2> DEFINE a == Ends(st1)
             b == Ends("residue")
  <2>2. /\ a \in Devices /\ b \in Devices
        /\ \/ Become(Ended(IF kept THEN [[W EXCEPT !.dev[d] = a] EXCEPT !.c.got = took]
                           ELSE [W EXCEPT !.dev[d] = a], d, "out", "ok", took, TRUE))
           \/ Become(Ended([W EXCEPT !.dev[d] = b], d, "out", "ok", took, TRUE))
    BY <1>2, <2>1
  <2> HIDE DEF a, b, took, kept
  <2> QED BY <2>2
<1> HIDE DEF took
<1>5. PICK u \in Devices :
         LET t == [W EXCEPT !.dev[d] = u] IN
         \/ Become(Ended(t, d, "out", "ok", took, TRUE))
         \/ Become(Ended([t EXCEPT !.c.got = took], d, "out", "ok", took, TRUE))
  BY <1>4
<1> DEFINE t == [W EXCEPT !.dev[d] = u]
           g == [t EXCEPT !.c.got = took]
<1>6. Aside(W, t)
  BY <1>1, DevAside
<1>7. \/ Become(Ended(t, d, "out", "ok", took, TRUE))
      \/ Become(Ended(g, d, "out", "ok", took, TRUE))
  BY <1>5
<1> HIDE DEF t
<1>8. Aside(t, g)
  BY <1>3, <1>6, GotAside DEF Aside
<1> HIDE DEF g
<1>9. Aside(W, g)
  BY <1>6, <1>8, AsideThrough
<1>10. W.hw[d]["out"].k # "none" /\ "out" \in Eps /\ "ok" \in {"ok", "stall", "fail"}
  BY <1>1 DEF TakesData, Eps
<1>11. /\ Holds(W, Ended(t, d, "out", "ok", took, TRUE))
       /\ Holds(W, Ended(g, d, "out", "ok", took, TRUE))
  BY <1>3, <1>6, <1>9, <1>10, AsideEnded
<1> QED
  BY <1>7, <1>11, BecomeHolds

LEMMA StallsHolds ==
  ASSUME Typed(W), NEW d \in Addrs, NEW ep \in Eps, Stalls(d, ep)
  PROVE  Holds(W, W')
<1> DEFINE h == dev[d].halt \cup {ep}
           x == [dev[d] EXCEPT !.halt = h]
           t == [W EXCEPT !.dev[d] = x]
<1>1. W \in Worlds /\ dev[d] \in Devices /\ W.hw = hw /\ W.dev = dev /\ Nothing \in Items
  BY TypedWorld, WorldIs, ValsIs
<1>2. h \in SUBSET {"in", "out"}
  BY <1>1, DriveParts DEF Eps
<1>3. [W EXCEPT !.dev[d].halt = @ \cup {ep}] = t
  BY <1>1 DEF Worlds
<1>4. Become(Ended(t, d, ep, "stall", Nothing, FALSE)) /\ hw[d][ep].k # "none"
  <2> HIDE DEF t
  <2> QED BY <1>3 DEF Stalls
<1> HIDE DEF h
<1>5. x \in Devices
  BY <1>1, <1>2 DEF Devices
<1> HIDE DEF x
<1>6. Aside(W, t)
  BY <1>1, <1>5, DevAside
<1> HIDE DEF t
<1>7. "stall" \in {"ok", "stall", "fail"}
  OBVIOUS
<1>8. Holds(W, Ended(t, d, ep, "stall", Nothing, FALSE))
  BY <1>1, <1>4, <1>6, <1>7, AsideEnded
<1> QED
  BY <1>4, <1>8, BecomeHolds

LEMMA BreaksHolds ==
  ASSUME Typed(W), NEW d \in Addrs, NEW ep \in Eps, Breaks(d, ep)
  PROVE  Holds(W, W')
<1>1. W \in Worlds /\ W.hw = hw /\ Nothing \in Items
  BY TypedWorld, WorldIs, ValsIs
<1>2. Become(Ended(W, d, ep, "fail", Nothing, FALSE)) /\ hw[d][ep].k # "none"
  BY DEF Breaks
<1>3. Aside(W, W) /\ "fail" \in {"ok", "stall", "fail"}
  BY <1>1, AsideSame
<1>4. Holds(W, Ended(W, d, ep, "fail", Nothing, FALSE))
  BY <1>1, <1>2, <1>3, AsideEnded
<1> QED
  BY <1>2, <1>4, BecomeHolds

LEMMA LandedAside ==
  ASSUME NEW w \in Worlds, NEW d, NEW it \in Items
  PROVE  Aside(w, Landed(w, d, it))
<1>1. Landed(w, d, it) \in {w, [w EXCEPT !.c.resp = it], [w EXCEPT !.c.got = it]}
  BY DEF Landed
<1> QED
  BY <1>1, GotAside, AsideSame

LEMMA SendsHolds ==
  ASSUME Typed(W), NEW d \in Addrs, Sends(d)
  PROVE  Holds(W, W')
<1> DEFINE item == Head(dev[d].inq)
           q == Tail(dev[d].inq)
           x == [dev[d] EXCEPT !.inq = q]
           t == [W EXCEPT !.dev[d] = x]
           l == Landed(t, d, item)
           whole == item.k = hw[d].in.k
           short == [item EXCEPT !.k = "short"]
<1>1. W \in Worlds /\ dev[d] \in Devices /\ W.hw = hw /\ W.dev = dev /\ Nothing \in Items
        /\ hw[d]["in"].k # "none" /\ "in" \in Eps /\ "ok" \in {"ok", "stall", "fail"}
  BY TypedWorld, WorldIs, ValsIs DEF Sends, Eps
<1>2. [W EXCEPT !.dev[d].inq = Tail(@)] = t
  BY <1>1 DEF Worlds
<1>3. \/ dev[d].inq # <<>> /\ Become(Ended(l, d, "in", "ok", item, whole))
      \/ dev[d].inq # <<>> /\ Become(Ended(t, d, "in", "ok", short, FALSE))
      \/ Become(Ended(W, d, "in", "ok", Nothing, FALSE))
  <2> DEFINE y == [W EXCEPT !.dev[d].inq = Tail(@)]
  <2>1. \/ dev[d].inq # <<>> /\ Become(Ended(Landed(y, d, item), d, "in", "ok", item, whole))
        \/ dev[d].inq # <<>> /\ Become(Ended(y, d, "in", "ok", short, FALSE))
        \/ Become(Ended(W, d, "in", "ok", Nothing, FALSE))
    BY DEF Sends
  <2>2. y = t
    BY <1>2
  <2> HIDE DEF y, t, item, whole, short
  <2> QED BY <2>1, <2>2
<1>4. CASE dev[d].inq # <<>>
  <2>1. dev[d].inq \in Seq(Items)
    BY <1>1, DriveParts
  <2>2. item \in Items /\ q \in Seq(Items)
    BY <1>4, <2>1
  <2> HIDE DEF item, q
  <2>3. x \in Devices /\ short \in Items
    BY <1>1, <2>2 DEF Devices, Items, Loads
  <2> HIDE DEF x, short
  <2>4. Aside(W, t)
    BY <1>1, <2>3, DevAside
  <2> HIDE DEF t
  <2>5. Aside(t, l)
    BY <2>2, <2>4, LandedAside DEF Aside
  <2> HIDE DEF l
  <2>6. Aside(W, l) /\ Aside(W, W)
    BY <1>1, <2>4, <2>5, AsideThrough, AsideSame
  <2>7. /\ Holds(W, Ended(l, d, "in", "ok", item, TRUE))
        /\ Holds(W, Ended(l, d, "in", "ok", item, FALSE))
        /\ Holds(W, Ended(t, d, "in", "ok", short, FALSE))
        /\ Holds(W, Ended(W, d, "in", "ok", Nothing, FALSE))
    BY <1>1, <2>2, <2>3, <2>4, <2>6, AsideEnded
  <2>8. Holds(W, Ended(l, d, "in", "ok", item, whole))
    <3>1. CASE whole = TRUE
      <4> HIDE DEF whole
      <4> QED BY <3>1, <2>7
    <3>2. CASE whole = FALSE
      <4> HIDE DEF whole
      <4> QED BY <3>2, <2>7
    <3> QED BY <3>1, <3>2
  <2> HIDE DEF whole
  <2> QED BY <1>3, <2>7, <2>8, BecomeHolds
<1>5. CASE ~(dev[d].inq # <<>>)
  <2>1. Become(Ended(W, d, "in", "ok", Nothing, FALSE))
    BY <1>3, <1>5
  <2>2. Holds(W, Ended(W, d, "in", "ok", Nothing, FALSE))
    BY <1>1, AsideSame, AsideEnded
  <2> QED BY <2>1, <2>2, BecomeHolds
<1> QED
  BY <1>4, <1>5

LEMMA ControlEndsHolds ==
  ASSUME Typed(W), ControlEnds
  PROVE  Holds(W, W')
<1> DEFINE d == ctrl.d
           x == dev[d]
           op == itf[d].op
           tag == itf[d].tag
           blank == [x EXCEPT !.inq = <<>>, !.want = FALSE]
           sound == Sound(blank, op, tag)
           mild == [sound EXCEPT !.halt = blank.halt]
           hin == [x EXCEPT !.halt = @ \ {"in"}]
           hout == [x EXCEPT !.halt = @ \ {"out"}]
           Done(u, res) == Become(Push([W EXCEPT !.dev[d] = u, !.ctrl.done = TRUE],
                                       d, "ctl", res, Nothing, TRUE))
<1>1. W \in Worlds /\ ctrl \in Ctrls /\ d # 0 /\ ~ctrl.done /\ W.ctrl = ctrl /\ Nothing \in Items
  BY TypedWorld, WorldIs, ValsIs DEF ControlEnds
<1>2. d \in Addrs
  BY <1>1 DEF Ctrls
<1>3. x \in Devices /\ tag \in Tags
  BY <1>2, TypedWorld DEF Itfs
<1> HIDE DEF d, x, op, tag
<1>4. blank \in Devices /\ hin \in Devices /\ hout \in Devices /\ Reset(x) \in Devices
  <2>1. "none" \in Vals
    BY MoreVals
  <2> DEFINE hi == x.halt \ {"in"}
             ho == x.halt \ {"out"}
  <2>2. hi \in SUBSET {"in", "out"} /\ ho \in SUBSET {"in", "out"}
    BY <1>3, DriveParts
  <2>3. hin = [x EXCEPT !.halt = hi] /\ hout = [x EXCEPT !.halt = ho]
    OBVIOUS
  <2>4. <<>> \in Seq(Items)
    OBVIOUS
  <2> DEFINE q == <<>>
             no == IF x.bot THEN x.halt ELSE {}
  <2>5. q \in Seq(Items) /\ no \in SUBSET {"in", "out"} /\ FALSE \in BOOLEAN
    BY <1>3, <2>4, DriveParts
  <2>6. blank = [x EXCEPT !.inq = q, !.want = FALSE]
    OBVIOUS
  <2>7. Reset(x) = [x EXCEPT !.halt = no, !.inq = q, !.want = FALSE, !.sense = "none"]
    BY DEF Reset
  <2> HIDE DEF hi, ho, hin, hout, q, no, blank
  <2>8. \A h \in SUBSET {"in", "out"} : [x EXCEPT !.halt = h] \in Devices
    BY <1>3 DEF Devices
  <2>9. [x EXCEPT !.inq = q, !.want = FALSE] \in Devices
    BY <1>3, <2>5 DEF Devices
  <2>10. [x EXCEPT !.halt = no, !.inq = q, !.want = FALSE, !.sense = "none"] \in Devices
    BY <1>3, <2>1, <2>5 DEF Devices
  <2> QED BY <2>2, <2>3, <2>6, <2>7, <2>8, <2>9, <2>10
<1> HIDE DEF blank
<1>5. sound \in Devices /\ \A u \in Flawed(blank, op, tag) : u \in Devices
  BY <1>3, <1>4, SoundIs
<1> HIDE DEF sound
<1>6. mild \in Devices
  BY <1>4, <1>5 DEF Devices
<1>7. \E u \in Devices, res \in {"ok", "stall", "fail"} : Done(u, res)
  <2>1. \/ Done(Reset(x), "ok") \/ Done(hin, "ok") \/ Done(hout, "ok")
        \/ \E res \in {"ok", "fail"} : Done(x, res)
        \/ Done(sound, "ok") \/ Done(mild, "fail")
        \/ \E u \in Flawed(blank, op, tag) : Done(u, "ok")
        \/ Done(x, "fail")
        \/ \E req \in Reqs : ctrl.req # req /\ ctrl.req \notin Reqs
    BY DEF ControlEnds, Reqs, d, x, op, tag, blank, sound
  <2>2. ctrl.req \in Reqs
    BY <1>1 DEF Typed, Base, Pipe, d
  <2> HIDE DEF Done, hin, hout, mild
  <2> QED BY <2>1, <2>2, <1>3, <1>4, <1>5, <1>6
<1>8. PICK u \in Devices, res \in {"ok", "stall", "fail"} : Done(u, res)
  BY <1>7
<1> DEFINE t == [W EXCEPT !.dev[d] = u]
           v == Push([t EXCEPT !.ctrl.done = TRUE], d, "ctl", res, Nothing, TRUE)
<1>9. Become(v)
  <2>1. [W EXCEPT !.dev[d] = u, !.ctrl.done = TRUE] = [t EXCEPT !.ctrl.done = TRUE]
    BY <1>1 DEF Worlds
  <2> DEFINE y == [W EXCEPT !.dev[d] = u, !.ctrl.done = TRUE]
  <2>2. Become(Push(y, d, "ctl", res, Nothing, TRUE))
    BY <1>8
  <2> HIDE DEF y, t
  <2> QED BY <2>1, <2>2 DEF y
<1>10. Aside(W, t)
  BY <1>1, <1>2, DevAside
<1> HIDE DEF t
<1>11. Holds(W, t) /\ Typed(t) /\ t.ctrl = ctrl
  BY <1>1, <1>10, AsideHolds DEF Holds, Aside
<1>12. Holds(t, v)
  <2>1. t.ctrl.d = d /\ t.ctrl.d # 0 /\ ~t.ctrl.done
    BY <1>1, <1>11 DEF d
  <2>2. Holds(t, Push([t EXCEPT !.ctrl.done = TRUE], t.ctrl.d, "ctl", res, Nothing, TRUE))
    BY <1>1, <1>11, <2>1, ControlEndedHolds
  <2> QED BY <2>1, <2>2
<1> HIDE DEF v
<1> QED
  BY <1>9, <1>11, <1>12, HoldsThrough, BecomeHolds

(* The pipe that some other device takes and gives back.                   *)
LEMMA PipeHolds ==
  ASSUME NEW w, Typed(w), w.ctrl.d = 0, NEW k \in Ctrls, k.d = 0
  PROVE  Holds(w, PutCtrl(w, k))
<1> DEFINE v == PutCtrl(w, k)
<1>1. w \in Worlds /\ Base(w) /\ 0 \notin Addrs
  BY DEF Typed, Base
<1>2. /\ v \in Worlds /\ v.ctrl = k /\ v.itf = w.itf /\ v.hw = w.hw
      /\ v.events = w.events /\ v.c = w.c
  BY <1>1, PutCtrlIs
<1> HIDE DEF v
<1>3. Typed(v)
  BY <1>1, <1>2 DEF Typed, Base, Pipe
<1>4. \A f \in Addrs : /\ Shut(w, f) => Shut(v, f)
                       /\ Opening(w, f) => Opening(v, f)
                       /\ Settled(w, f) => Settled(v, f)
                       /\ Started(w, f) => Started(v, f)
  BY <1>1, <1>2 DEF Shut, Opening, Fresh, Settled, Started, Moves
<1>5. \A f : Awaited(w, f) => Awaited(v, f)
  BY <1>2 DEF Awaited
<1> QED
  BY <1>3, <1>4, <1>5 DEF Holds, Ready, Device, Free, v

LEMMA OthersHolds ==
  ASSUME Typed(W), OthersControl
  PROVE  Holds(W, W')
<1> DEFINE k == [d |-> 0, req |-> "other", cb |-> "other", done |-> FALSE]
<1>1. W \in Worlds /\ W.ctrl = ctrl
  BY TypedWorld, WorldIs
<1>2. k \in Ctrls /\ k.d = 0
  BY DEF Ctrls
<1>3. \/ ctrl = Quiet /\ Become(PutCtrl(W, k))
      \/ ctrl.req = "other" /\ Become(PutCtrl(W, Quiet))
  BY DEF OthersControl, control_xfer, PutCtrl
<1> HIDE DEF k
<1>4. ctrl.d = 0
  BY <1>1, <1>3, QuietIs DEF Typed, Base, Pipe, Reqs
<1>5. Holds(W, PutCtrl(W, k)) /\ Holds(W, PutCtrl(W, Quiet))
  BY <1>1, <1>2, <1>4, QuietIs, PipeHolds
<1> QED
  BY <1>3, <1>5, BecomeHolds

LEMMA HardwareHolds ==
  ASSUME Typed(W), Hardware
  PROVE  Holds(W, W')
<1>1. \A ep \in {"in", "out"} : ep \in Eps
  BY DEF Eps
<1> QED
  BY <1>1, TakesCbwHolds, TakesDataHolds, SendsHolds, StallsHolds, BreaksHolds,
     ControlEndsHolds, OthersHolds DEF Hardware

----------------------------------------------------------------------------
(* The tasks, and the drives that come and go.                             *)
LEMMA PumpHolds ==
  ASSUME Typed(W), Pump
  PROVE  Holds(W, W')
<1> DEFINE d == Head(W.events).d
           v == Delivered(W)
<1>1. Base(W) /\ W.events # <<>> /\ Become(v)
  BY TypedWorld, WorldIs DEF Pump
<1>2. d \in Addrs /\ Local(W, v, d) /\ (Works(W, d) => Goes(W, v, d))
  BY <1>1, DeliveredIs
<1> HIDE DEF d, v
<1>3. Device(W, d) => Device(v, d)
  <2>1. Device(W, d) => Works(W, d)
    BY DEF Device, Free, Works
  <2>2. Goes(W, v, d) => Free(v, d) \/ (Started(v, d) /\ Started(W, d)
                                          /\ v.itf[d].tag = W.itf[d].tag)
    BY DEF Goes, Free
  <2>3. Device(W, d) /\ Started(W, d) => Awaited(W, d)
    BY FreeOrStarted DEF Device
  <2>4. Awaited(W, d) /\ v.itf[d].tag = W.itf[d].tag => Awaited(v, d)
    BY <1>2 DEF Local, Awaited
  <2> QED BY <1>2, <2>1, <2>2, <2>3, <2>4 DEF Device
<1>4. Holds(W, v)
  BY <1>2, <1>3, LocalHolds
<1> QED
  BY <1>1, <1>4, BecomeHolds

LEMMA PluggedIs ==
  ASSUME NEW kind \in Kinds, NEW ua \in {"none", "ua29"}
  PROVE  Plugged(kind, ua) \in Devices
<1>1. kind.medium \in Media /\ ua \in Vals
  BY MoreVals DEF Media
<1>2. /\ kind.bot \in BOOLEAN /\ kind.removable \in BOOLEAN /\ kind.wp \in BOOLEAN
      /\ kind.lbpme \in BOOLEAN
  BY DrivesAssumption
<1> QED
  BY <1>1, <1>2, NoDriveIs DEF Plugged, Devices

LEMMA PlugHolds ==
  ASSUME Typed(W), NEW d \in Addrs, NEW kind \in Kinds, Plug(d, kind)
  PROVE  Holds(W, W')
<1>1. W \in Worlds /\ Base(W)
  BY TypedWorld
<1>2. PICK ua \in {"none", "ua29"} : Become(msc_class_driver_set_config(
                                         [W EXCEPT !.dev[d] = Plugged(kind, ua)], d))
  BY DEF Plug
<1> DEFINE x == Plugged(kind, ua)
           t == [W EXCEPT !.dev[d] = x]
           v == msc_class_driver_set_config(t, d)
<1>3. x \in Devices
  BY PluggedIs
<1>4. Become(v)
  BY <1>2
<1> HIDE DEF x
<1>5. Aside(W, t)
  BY <1>1, <1>3, DevAside
<1> HIDE DEF t
<1>6. Holds(W, t) /\ Typed(t) /\ Base(t)
  BY <1>5, AsideHolds DEF Holds, Typed
<1>7. ~t.itf[d].open /\ Calm(t.events, d) /\ t.ctrl = Quiet
  BY <1>5, WorldIs DEF Aside, Plug, Calm, BulkOf
<1>8. /\ Local(t, v, d)
      /\ Rest(t.hw[d]) /\ Calm(t.events, d) /\ t.ctrl = Quiet => Opening(v, d) \/ Settled(v, d)
  BY <1>6, SetConfigIs
<1> HIDE DEF v
<1>9. Device(t, d) => Device(v, d)
  BY <1>7, <1>8 DEF Device, Free, Shut, Opening, Fresh, Settled, Started, Mounted
<1>10. Holds(t, v)
  BY <1>6, <1>8, <1>9, LocalHolds
<1> QED
  BY <1>4, <1>6, <1>10, HoldsThrough, BecomeHolds

LEMMA YankHolds ==
  ASSUME Typed(W), NEW d \in Addrs, Yank(d)
  PROVE  Holds(W, W')
<1> DEFINE t == [W EXCEPT !.dev[d] = NoDrive]
           v == Push(t, d, "gone", "ok", Nothing, TRUE)
<1>1. W \in Worlds /\ Become(v)
  BY TypedWorld DEF Yank
<1>2. Aside(W, t)
  BY <1>1, NoDriveIs, DevAside
<1> HIDE DEF t
<1>3. Holds(W, t) /\ Typed(t)
  BY <1>2, AsideHolds DEF Holds
<1>4. Holds(t, v)
  BY <1>3, ValsIs, PushHolds
<1> HIDE DEF v
<1> QED
  BY <1>1, <1>3, <1>4, HoldsThrough, BecomeHolds

LEMMA MediumHolds ==
  ASSUME Typed(W), NEW d \in Addrs, TakeMedium(d) \/ PutMedium(d)
  PROVE  Holds(W, W')
<1> DEFINE a == [dev EXCEPT ![d].medium = "none"]
           b == [dev EXCEPT ![d].medium = "other", ![d].ua = "ua28"]
<1>1. W \in Worlds /\ dev \in [Addrs -> Devices]
  <2>1. W \in Worlds
    BY TypedWorld
  <2> QED BY <2>1, WorldParts, WorldIs
<1>2. a \in [Addrs -> Devices] /\ b \in [Addrs -> Devices]
  <2>1. "none" \in Media /\ "other" \in Media /\ "ua28" \in Vals
    BY MoreVals
  <2>2. dev[d] \in Devices
    BY <1>1
  <2> DEFINE x == [dev[d] EXCEPT !.medium = "none"]
             y == [dev[d] EXCEPT !.medium = "other", !.ua = "ua28"]
  <2>3. x \in Devices /\ y \in Devices
    BY <2>1, <2>2 DEF Devices
  <2>4. a = [dev EXCEPT ![d] = x] /\ b = [dev EXCEPT ![d] = y]
    BY <1>1, <2>2
  <2> HIDE DEF x, y
  <2> QED BY <1>1, <2>3, <2>4
<1>3. W' = [W EXCEPT !.dev = a] \/ W' = [W EXCEPT !.dev = b]
  BY DEF TakeMedium, PutMedium, W
<1> HIDE DEF a, b
<1>4. Aside(W, [W EXCEPT !.dev = a]) /\ Aside(W, [W EXCEPT !.dev = b])
  BY <1>1, <1>2 DEF Aside, Worlds
<1> QED
  BY <1>3, <1>4, AsideHolds

LEMMA TimePassesHolds ==
  ASSUME Typed(W), TimePasses
  PROVE  Holds(W, W')
<1> DEFINE p == [v \in Vols |-> [pdrv[v] EXCEPT !.recent = FALSE]]
<1>1. W \in Worlds /\ pdrv \in [Vols -> Slots]
  <2>1. W \in Worlds
    BY TypedWorld
  <2> QED BY <2>1, WorldParts, WorldIs
<1>2. p \in [Vols -> Slots]
  <2>1. \A v \in Vols : [pdrv[v] EXCEPT !.recent = FALSE] \in Slots
    <3> TAKE v \in Vols
    <3>1. pdrv[v] \in Slots
      BY <1>1
    <3> QED BY <3>1 DEF Slots
  <2> QED BY <2>1
<1>3. W' = [W EXCEPT !.pdrv = p]
  <2>1. /\ pdrv' = p /\ itf' = itf /\ hw' = hw /\ ctrl' = ctrl /\ events' = events
        /\ gen' = gen /\ dev' = dev /\ c' = c /\ file' = file /\ disk' = disk
        /\ last' = last
    BY DEF TimePasses
  <2> HIDE DEF p
  <2> QED BY <2>1 DEF W
<1> HIDE DEF p
<1>4. Aside(W, [W EXCEPT !.pdrv = p])
  BY <1>1, <1>2 DEF Aside, Worlds
<1> QED
  BY <1>3, <1>4, AsideHolds

----------------------------------------------------------------------------
(* What FatFs and the monitor are asked for.                               *)
LEMMA BackStep ==
  ASSUME Typed(W), c.pc \in {"idle", "ret"}, NEW v, Back(W, v), Become(v)
  PROVE  Holds(W, W')
BY WorldIs, BackHolds, BecomeHolds

LEMMA SetsIdle ==
  ASSUME NEW w, NEW v, Sets(w, v), w.c.pc = "idle"
  PROVE  Back(w, v)
BY DEF Sets, Back, Asks

LEMMA PutCBack ==
  ASSUME NEW w \in Worlds, NEW k \in Callers, NEW v, Back(PutC(w, k), v)
  PROVE  Back(w, v)
BY PutCAbove, BackThrough

LEMMA NoCallIs ==
  NoCall \in Callers /\ NoCall.pc = "idle"
<1>1. Nothing \in Items /\ "none" \in Vals
  BY ValsIs
<1> QED
  BY <1>1, DrivesAssumption DEF NoCall, Callers, Requests, Jobs, Ops

LEMMA CallingIs ==
  ASSUME NEW w \in Worlds, NEW call \in Requests
  PROVE  LET v == Calling(w, call) IN
         /\ v \in Worlds /\ Above(w, v) /\ v.disk = w.disk /\ v.pdrv = w.pdrv
<1> DEFINE s == w.disk.v
           k == [NoCall EXCEPT !.call = call, !.v = s, !.vol = s, !.pc = "ret"]
<1>1. Calling(w, call) = PutC(w, k)
  BY DEF Calling, PutC
<1>2. s \in Vols
  BY DiskParts
<1> HIDE DEF s
<1>3. k \in Callers
  BY <1>2, NoCallIs DEF Callers
<1> HIDE DEF k
<1> QED
  BY <1>1, <1>3, PutCIs, PutCAbove

LEMMA FullAbove ==
  ASSUME NEW w \in Worlds, NEW full \in BOOLEAN
  PROVE  Above(w, [w EXCEPT !.c.full = full]) /\ [w EXCEPT !.c.full = full] \in Worlds
<1> DEFINE k == [w.c EXCEPT !.full = full]
<1>1. w.c \in Callers
  BY CallParts
<1>2. [w EXCEPT !.c.full = full] = PutC(w, k)
  BY <1>1 DEF PutC, Worlds, Callers
<1>3. k \in Callers
  BY <1>1 DEF Callers
<1> HIDE DEF k
<1> QED
  BY <1>2, <1>3, PutCIs, PutCAbove

LEMMA VolAbove ==
  ASSUME NEW w \in Worlds, NEW s \in Vols
  PROVE  Above(w, [w EXCEPT !.c.vol = s]) /\ [w EXCEPT !.c.vol = s] \in Worlds
<1> DEFINE k == [w.c EXCEPT !.vol = s]
<1>1. w.c \in Callers
  BY CallParts
<1>2. [w EXCEPT !.c.vol = s] = PutC(w, k)
  BY <1>1 DEF PutC, Worlds, Callers
<1>3. k \in Callers
  BY <1>1 DEF Callers
<1> HIDE DEF k
<1> QED
  BY <1>2, <1>3, PutCIs, PutCAbove

LEMMA ClearedSets ==
  ASSUME NEW w \in Worlds
  PROVE  Sets(w, Cleared(w))
<1>1. w.disk.v \in Vols /\ "none" \in Vals
  BY DiskParts, ValsIs
<1> QED
  BY <1>1, SlotMediumSets DEF Cleared

LEMMA LabelBack ==
  ASSUME NEW w \in Worlds, w.c.pc = "idle"
  PROVE  Back(w, Label(w))
<1> DEFINE u == Calling(w, "label")
           s == w.pdrv[w.disk.v].fs.pdrv
           v == [u EXCEPT !.c.vol = s]
<1>1. Label(w) \in {w, mount_volume(v), disk_status(v)}
  BY DEF Label
<1>2. s \in Vols
  BY DiskParts DEF Slots
<1> HIDE DEF s
<1>3. "label" \in Requests
  BY DEF Requests
<1>4. u \in Worlds /\ Above(w, u)
  BY <1>3, CallingIs
<1> HIDE DEF u
<1>5. v \in Worlds /\ Above(u, v)
  BY <1>2, <1>4, VolAbove
<1> HIDE DEF v
<1>6. Above(w, v)
  BY <1>4, <1>5, AboveThrough
<1>7. Back(w, mount_volume(v)) /\ Back(w, disk_status(v))
  BY <1>5, <1>6, MountBack, DiskStatusBack, BackThrough
<1>8. Back(w, w)
  BY SetsSame, SetsIdle
<1> QED
  BY <1>1, <1>7, <1>8

LEMMA LabelSets ==
  ASSUME NEW w, NEW v, Sets(w, v), w.c.pc = "idle"
  PROVE  Back(w, Label(v))
<1>1. v \in Worlds /\ v.c.pc = "idle"
  BY SetsWorlds DEF Sets
<1> QED
  BY <1>1, LabelBack, SetsBack

LEMMA BeginHolds ==
  ASSUME Typed(W), NEW call \in Calls, NEW v \in Vols, Begin(call, v)
  PROVE  Holds(W, W')
<1> DEFINE s == IF call = "show" THEN v ELSE pdrv[v].fs.pdrv
           k == [NoCall EXCEPT !.call = call, !.v = v, !.pc = "ret", !.vol = s]
           u == PutC(W, k)
<1>1. W \in Worlds /\ c.pc = "idle"
  BY TypedWorld DEF Begin
<1>2. Become(mount_volume(u)) \/ Become(disk_status(u))
  BY DEF Begin, PutC
<1>3. s \in Vols
  <2>1. pdrv[v] \in Slots
    BY <1>1, WorldIs, WorldParts
  <2> QED BY <2>1 DEF Slots
<1> HIDE DEF s
<1>4. k \in Callers
  BY <1>3, NoCallIs DEF Callers, Requests
<1> HIDE DEF k
<1>5. u \in Worlds
  BY <1>1, <1>4, PutCIs
<1>6. Back(W, mount_volume(u)) /\ Back(W, disk_status(u))
  BY <1>1, <1>4, <1>5, MountBack, DiskStatusBack, PutCBack
<1> HIDE DEF u
<1> QED
  BY <1>1, <1>2, <1>6, BackStep

LEMMA DiskBeginsHolds ==
  ASSUME Typed(W), NEW k \in {"erase", "format", "verify"}, NEW v \in Vols,
         DiskBegins(k, v)
  PROVE  Holds(W, W')
<1> DEFINE x == [disk EXCEPT !.k = k, !.at = "info", !.v = v]
           f == PutFile(W, -1)
           t == PutDisk(f, x)
           u == Calling(t, "info")
<1>1. W \in Worlds /\ c.pc = "idle" /\ disk \in Disks
  BY TypedWorld DEF DiskBegins
<1>2. Become(disk_status(u))
  <2>1. [W EXCEPT !.file = -1, !.disk = [@ EXCEPT !.k = k, !.at = "info", !.v = v]] = t
    BY <1>1, WorldIs DEF PutFile, PutDisk, Worlds
  <2>2. Become(disk_status(Calling(
           [W EXCEPT !.file = -1, !.disk = [@ EXCEPT !.k = k, !.at = "info", !.v = v]],
           "info")))
    BY DEF DiskBegins
  <2> HIDE DEF t
  <2> QED BY <2>1, <2>2
<1>3. x \in Disks
  BY <1>1 DEF Disks, Places
<1> HIDE DEF x
<1>4. Sets(W, f) /\ f \in Worlds
  BY <1>1, SetsFile, PutFileIs
<1> HIDE DEF f
<1>5. Sets(W, t) /\ t \in Worlds
  BY <1>3, <1>4, SetsDisk, PutDiskIs, SetsThrough
<1> HIDE DEF t
<1>6. "info" \in Requests
  BY DEF Requests
<1>7. u \in Worlds /\ Above(t, u)
  BY <1>5, <1>6, CallingIs
<1> HIDE DEF u
<1>8. Back(W, disk_status(u))
  BY <1>5, <1>7, DiskStatusBack, BackThrough, SetsBack
<1> QED
  BY <1>1, <1>2, <1>8, BackStep

(* The steps of a command on a whole drive.                                *)
LEMMA InitializesBack ==
  ASSUME NEW w \in Worlds
  PROVE  Back(w, disk_initialize(Calling(Cleared(w), "mkfs")))
<1> DEFINE t == Cleared(w)
           u == Calling(t, "mkfs")
<1>1. Sets(w, t) /\ t \in Worlds
  BY ClearedSets, SetsWorlds
<1> HIDE DEF t
<1>2. "mkfs" \in Requests
  BY DEF Requests
<1>3. u \in Worlds /\ Above(t, u)
  BY <1>1, <1>2, CallingIs
<1> HIDE DEF u
<1>4. Back(w, disk_initialize(u))
  BY <1>1, <1>3, DiskInitializeBack, BackThrough, SetsBack
<1> QED
  BY <1>4 DEF t, u

LEMMA DiskAtIs ==
  ASSUME Typed(W), NEW at, DiskAt(at)
  PROVE  W \in Worlds /\ c.pc = "idle" /\ W.c.pc = "idle"
BY TypedWorld, WorldIs DEF DiskAt

LEMMA DiskTriesHolds ==
  ASSUME Typed(W), DiskTries \/ DiskMakes
  PROVE  Holds(W, W')
<1> DEFINE v == disk_initialize(Calling(Cleared(W), "mkfs"))
<1>1. Become(v) /\ W \in Worlds /\ c.pc = "idle"
  BY DiskAtIs DEF DiskTries, DiskMakes
<1>2. Back(W, v)
  BY <1>1, InitializesBack
<1> HIDE DEF v
<1> QED
  BY <1>1, <1>2, BackStep

LEMMA DiskShowsHolds ==
  ASSUME Typed(W), DiskShows
  PROVE  Holds(W, W')
<1> DEFINE t == [W EXCEPT !.disk.at = "label"]
           u == Calling(t, "strings")
           v == Start(u, "name", "inquiry")
<1>1. W \in Worlds /\ c.pc = "idle" /\ W.c.pc = "idle"
  BY DiskAtIs DEF DiskShows
<1>2. Become(t) \/ Become(v)
  BY DEF DiskShows
<1>3. "label" \in Places /\ "strings" \in Requests
  BY DEF Places, Requests
<1>4. Sets(W, t) /\ t \in Worlds
  BY <1>1, <1>3, AtSets, SetsWorlds
<1> HIDE DEF t
<1>5. u \in Worlds /\ Above(t, u)
  BY <1>3, <1>4, CallingIs
<1> HIDE DEF u
<1>6. Back(u, v)
  BY <1>5, NamesIs, StartBack
<1> HIDE DEF v
<1>7. Back(W, v) /\ Back(W, t)
  BY <1>1, <1>4, <1>5, <1>6, BackThrough, SetsBack, SetsIdle
<1> QED
  BY <1>1, <1>2, <1>7, BackStep

LEMMA DiskLabelsHolds ==
  ASSUME Typed(W), DiskLabels
  PROVE  Holds(W, W')
<1> DEFINE v == Label(Shown(W))
<1>1. W \in Worlds /\ c.pc = "idle" /\ W.c.pc = "idle" /\ Become(v)
  BY DiskAtIs DEF DiskLabels
<1>2. Back(W, v)
  BY <1>1, ShownSets, LabelSets
<1> HIDE DEF v
<1> QED
  BY <1>1, <1>2, BackStep

LEMMA DiskAnsweredHolds ==
  ASSUME Typed(W), NEW yes \in BOOLEAN, NEW full \in BOOLEAN, DiskAnswered(yes, full)
  PROVE  Holds(W, W')
<1> DEFINE t == [W EXCEPT !.disk.at = "again"]
           u == Calling(t, "info")
           v == [u EXCEPT !.c.full = full]
<1>1. W \in Worlds /\ c.pc = "idle" /\ W.c.pc = "idle"
  BY DiskAtIs DEF DiskAnswered
<1>2. Become(Dropped(W)) \/ Become(disk_status(v))
  BY DEF DiskAnswered
<1>3. "again" \in Places /\ "info" \in Requests
  BY DEF Places, Requests
<1>4. Sets(W, t) /\ t \in Worlds
  BY <1>1, <1>3, AtSets, SetsWorlds
<1> HIDE DEF t
<1>5. u \in Worlds /\ Above(t, u)
  BY <1>3, <1>4, CallingIs
<1> HIDE DEF u
<1>6. v \in Worlds /\ Above(u, v)
  BY <1>5, FullAbove
<1> HIDE DEF v
<1>7. Above(t, v)
  BY <1>5, <1>6, AboveThrough
<1>8. Back(t, disk_status(v))
  BY <1>6, <1>7, DiskStatusBack, BackThrough
<1>9. Back(W, disk_status(v)) /\ Back(W, Dropped(W))
  BY <1>1, <1>4, <1>8, SetsBack, DroppedSets, SetsIdle
<1> QED
  BY <1>1, <1>2, <1>9, BackStep

LEMMA DiskRunsHolds ==
  ASSUME Typed(W), DiskRuns
  PROVE  Holds(W, W')
<1> DEFINE u == Calling(W, "raw")
           op == DiskOp(disk.k)
           v == msc_drive_io(u, op)
<1>1. W \in Worlds /\ c.pc = "idle" /\ Become(v)
  BY DiskAtIs DEF DiskRuns
<1>2. op \in Ops /\ "raw" \in Requests
  BY NamesIs DEF DiskOp, Requests
<1>3. u \in Worlds /\ Above(W, u)
  BY <1>1, <1>2, CallingIs
<1> HIDE DEF u, op
<1>4. Back(W, v)
  BY <1>2, <1>3, DriveIoBack, BackThrough
<1> HIDE DEF v
<1> QED
  BY <1>1, <1>4, BackStep

LEMMA DiskNamesHolds ==
  ASSUME Typed(W), NEW label \in BOOLEAN, DiskNames(label)
  PROVE  Holds(W, W')
<1> DEFINE t == [W EXCEPT !.disk.at = "end"]
<1>1. W \in Worlds /\ c.pc = "idle" /\ W.c.pc = "idle"
  BY DiskAtIs DEF DiskNames
<1>2. Become(Label(t)) \/ Become(t)
  BY DEF DiskNames
<1>3. "end" \in Places
  BY DEF Places
<1>4. Sets(W, t)
  BY <1>1, <1>3, AtSets
<1> HIDE DEF t
<1>5. Back(W, Label(t)) /\ Back(W, t)
  BY <1>1, <1>4, LabelSets, SetsIdle
<1> QED
  BY <1>1, <1>2, <1>5, BackStep

LEMMA DiskEndsHolds ==
  ASSUME Typed(W), DiskEnds \/ DiskStops \/ DiskBreaks
  PROVE  Holds(W, W')
<1>1. W \in Worlds /\ c.pc = "idle" /\ W.c.pc = "idle"
  BY TypedWorld, WorldIs DEF DiskEnds, DiskStops, DiskBreaks, DiskAt
<1>2. Become(DiskDone(W)) \/ Become(Dropped(W))
  BY DEF DiskEnds, DiskStops, DiskBreaks
<1>3. Back(W, DiskDone(W)) /\ Back(W, Dropped(W))
  BY <1>1, DiskDoneSets, DroppedSets, SetsIdle
<1> QED
  BY <1>1, <1>2, <1>3, BackStep

LEMMA ResumeHolds ==
  ASSUME Typed(W), NEW junk \in BOOLEAN, Resume(junk)
  PROVE  Holds(W, W')
<1> DEFINE v == Resumed(W, junk)
<1>1. W \in Worlds /\ c.pc = "ret" /\ Become(v)
  BY TypedWorld DEF Resume
<1>2. Back(W, v)
  BY <1>1, ResumedBack
<1> HIDE DEF v
<1> QED
  BY <1>1, <1>2, BackStep

LEMMA LookStep ==
  ASSUME Typed(W), NEW late, Look(late)
  PROVE  Holds(W, W')
<1> DEFINE v == Looked(W, late)
<1>1. /\ c.pc \in {"enter", "submit", "wait"} /\ Become(v)
      /\ c.pc = "enter" \/ msc_ready(W, c.d) \/ ~itf[c.d].mounted
  BY DEF Look
<1>2. Holds(W, v)
  BY <1>1, WorldIs, LookHolds
<1> HIDE DEF v
<1> QED
  BY <1>1, <1>2, BecomeHolds


(* A wait is not given up with an end of its bulk transfer queued while    *)
(* the control pipe is some other device's.  msc_abort begins a recovery,  *)
(* whose own end comes after what was queued, so that it is ignored; with  *)
(* the pipe taken it skips the recovery (msc_start_recovery), and the end  *)
(* is taken for the next command's.                                        *)
Undisturbed ==
    c.pc = "wait" /\ c'.pc # "wait" /\ itf[c.d].mounted /\ ~msc_ready(W, c.d) =>
        \/ ctrl = Quiet \/ ctrl.d = c.d
        \/ \A i \in DOMAIN events : events[i].d = c.d => events[i].ep \notin {"in", "out"}

LEMMA UndisturbedLeaves ==
  ASSUME Typed(W), Undisturbed, c.pc = "wait", c'.pc # "wait", itf[c.d].mounted,
         ~msc_ready(W, c.d)
  PROVE  Leaves(W, W.c.d)
BY WorldIs DEF Undisturbed, Leaves, Calm, BulkOf, Eps

LEMMA TimeOutStep ==
  ASSUME Typed(W), NEW late, TimeOut(late)
  PROVE  Typed(W') /\ (Undisturbed => Holds(W, W'))
<1> DEFINE v == TimedOut(W, late)
<1>1. /\ c.pc \in {"submit", "wait"} /\ itf[c.d].mounted /\ Become(v)
      /\ c.pc = "wait" => ~msc_ready(W, c.d)
  BY DEF TimeOut
<1>2. /\ Typed(v) /\ v.c.pc # "wait"
      /\ (c.pc = "wait" => Leaves(W, W.c.d)) => Holds(W, v)
  BY <1>1, WorldIs, TimedOutHolds
<1> HIDE DEF v
<1>3. W' = v /\ c' = v.c
  BY <1>1, <1>2, BecomeIs DEF Become, Typed, Base
<1>4. Undisturbed => (c.pc = "wait" => Leaves(W, W.c.d))
  BY <1>1, <1>2, <1>3, UndisturbedLeaves
<1> QED
  BY <1>2, <1>3, <1>4

LEMMA EmptyIs ==
  FreeSlot \in Slots /\ NoDisk \in Disks
<1>1. "none" \in Vals /\ "none" \in Media /\ 0 \in Vols
  BY MoreVals, DrivesAssumption
<1>2. NoDisk \in Disks
  BY <1>1 DEF NoDisk, Disks, Places
<1>3. FreeSlot \in Slots
  BY <1>1 DEF FreeSlot, NoFs, Slots
<1> QED
  BY <1>2, <1>3

LEMMA Starts ==
  ASSUME Init
  PROVE  Typed(W) /\ Ready(W)
<1>1. /\ itf = [d \in Addrs |-> NoItf] /\ hw = [d \in Addrs |-> [in |-> NoXfer, out |-> NoXfer]]
      /\ ctrl = Quiet /\ events = <<>> /\ pdrv = [v \in Vols |-> FreeSlot]
      /\ dev = [d \in Addrs |-> NoDrive] /\ gen = [v \in Vols |-> 0]
      /\ c = NoCall /\ file = -1 /\ disk = NoDisk /\ last = NoIo
  BY DEF Init
<1>2. <<>> \in Seq(Completions)
  OBVIOUS
<1>3. /\ itf \in [Addrs -> Itfs] /\ pdrv \in [Vols -> Slots] /\ dev \in [Addrs -> Devices]
      /\ gen \in [Vols -> Nat]
  BY <1>1, NoItfIs, EmptyIs, NoDriveIs
<1>4. hw \in [Addrs -> [in : Xfers, out : Xfers]]
  BY <1>1, NoXferIs
<1>5. /\ ctrl \in Ctrls /\ events \in Seq(Completions) /\ c \in Callers /\ disk \in Disks
      /\ file \in Vols \cup {-1} /\ last \in [ok : BOOLEAN, lucky : BOOLEAN, done : BOOLEAN,
                                              same : BOOLEAN, ghost : BOOLEAN]
  BY <1>1, <1>2, QuietIs, NoCallIs, EmptyIs DEF NoIo
<1>6. W \in Worlds
  BY <1>3, <1>4, <1>5 DEF W, Worlds
<1>7. Pipe(W)
  BY <1>1, WorldIs, QuietIs DEF Pipe, NoCtl
<1>8. Typed(W)
  BY <1>1, <1>6, <1>7, WorldIs, NoCallIs DEF Typed, Base, Asks
<1>9. ASSUME NEW d \in Addrs PROVE Shut(W, d)
  <2>1. W.itf[d] = NoItf /\ W.hw[d] = [in |-> NoXfer, out |-> NoXfer] /\ W.ctrl.d = 0
    BY <1>1, WorldIs, QuietIs
  <2>2. Rest(W.hw[d])
    BY <2>1, NoXferIs DEF Rest, Idle, Eps
  <2>3. d # 0
    BY DrivesAssumption
  <2> QED BY <2>1, <2>2, <2>3, NoItfIs DEF Shut
<1> QED
  BY <1>8, <1>9 DEF Ready, Device, Free

LEMMA Steps ==
  ASSUME Typed(W), [Next]_vars
  PROVE  Typed(W') /\ (Undisturbed => Holds(W, W'))
<1>1. CASE UNCHANGED vars
  <2>1. W' = W
    BY <1>1 DEF vars, W
  <2> QED BY <2>1 DEF Holds
<1>2. CASE \E call \in Calls, v \in Vols : Begin(call, v)
  BY <1>2, BeginHolds DEF Holds
<1>3. CASE \E k \in {"erase", "format", "verify"}, v \in Vols : DiskBegins(k, v)
  BY <1>3, DiskBeginsHolds DEF Holds
<1>4. CASE DiskTries \/ DiskMakes
  BY <1>4, DiskTriesHolds DEF Holds
<1>5. CASE DiskShows
  BY <1>5, DiskShowsHolds DEF Holds
<1>6. CASE DiskLabels
  BY <1>6, DiskLabelsHolds DEF Holds
<1>7. CASE DiskRuns
  BY <1>7, DiskRunsHolds DEF Holds
<1>8. CASE DiskEnds \/ DiskStops \/ DiskBreaks
  BY <1>8, DiskEndsHolds DEF Holds
<1>9. CASE \E yes, full \in BOOLEAN : DiskAnswered(yes, full)
  BY <1>9, DiskAnsweredHolds DEF Holds
<1>10. CASE \E label \in BOOLEAN : DiskNames(label)
  BY <1>10, DiskNamesHolds DEF Holds
<1>11. CASE \E junk \in BOOLEAN : Resume(junk)
  BY <1>11, ResumeHolds DEF Holds
<1>12. CASE \E late \in BOOLEAN : Look(late)
  BY <1>12, LookStep DEF Holds
<1>13. CASE \E late \in BOOLEAN : TimeOut(late)
  BY <1>13, TimeOutStep
<1>14. CASE Hardware
  BY <1>14, HardwareHolds DEF Holds
<1>15. CASE Pump
  BY <1>15, PumpHolds DEF Holds
<1>16. CASE TimePasses
  BY <1>16, TimePassesHolds DEF Holds
<1>17. CASE \E d \in Addrs : Yank(d)
  BY <1>17, YankHolds DEF Holds
<1>18. CASE \E d \in Addrs : TakeMedium(d) \/ PutMedium(d)
  BY <1>18, MediumHolds DEF Holds
<1>19. CASE \E d \in Addrs : \E kind \in Kinds : Plug(d, kind)
  BY <1>19, PlugHolds DEF Holds
<1> QED
  BY <1>1, <1>2, <1>3, <1>4, <1>5, <1>6, <1>7, <1>8, <1>9, <1>10, <1>11, <1>12, <1>13,
     <1>14, <1>15, <1>16, <1>17, <1>18, <1>19 DEF Next

(* Every record of the driver, of FatFs and of the drives keeps its type,  *)
(* whatever the drives do and however late a wait is given up.             *)
THEOREM TypeCorrect == Spec => []TypeOK
<1> DEFINE T == Typed(W)
<1>1. Init => T
  BY Starts
<1>2. T /\ [Next]_vars => T'
  BY Steps
<1>3. T => TypeOK
  BY DEF Typed, Base, TypeOK
<1> HIDE DEF T
<1> QED
  BY <1>1, <1>2, <1>3, PTL DEF Spec

(* What every device is in, between two steps: shut, being opened, at rest *)
(* or recovering; or it carries out the command that is waited for.        *)
DriveInv == Typed(W) /\ Ready(W)

LEMMA DriveInvariant == Spec /\ [][Undisturbed]_vars => []DriveInv
<1>1. Init => DriveInv
  BY Starts DEF DriveInv
<1>2. DriveInv /\ [Next]_vars /\ [Undisturbed]_vars => DriveInv'
  <2>1. ASSUME DriveInv, [Next]_vars, Undisturbed PROVE DriveInv'
    <3>1. Typed(W) /\ Ready(W)
      BY <2>1 DEF DriveInv
    <3>2. Holds(W, W')
      BY <2>1, <3>1, Steps
    <3> QED BY <3>1, <3>2 DEF DriveInv, Holds
  <2>2. ASSUME DriveInv, UNCHANGED vars PROVE DriveInv'
    <3>1. W' = W
      BY <2>2 DEF vars, W
    <3> QED BY <2>2, <3>1 DEF DriveInv
  <2> QED BY <2>1, <2>2
<1> QED
  BY <1>1, <1>2, PTL DEF Spec

(* A bulk transfer into or out of a caller's buffer is under way only      *)
(* while the command of that buffer is waited for (msc_scsi_sync,          *)
(* msc_abort): whatever the drives, the faults and the changes of medium,  *)
(* of any number of them, as long as waits are given up Undisturbed.       *)
THEOREM WritesInTime == Spec /\ [][Undisturbed]_vars => []NoLateWrite
<1>1. DriveInv => NoLateWrite
  <2> SUFFICES ASSUME DriveInv, NEW d \in Addrs, NEW ep \in {"in", "out"},
                      hw[d][ep].k = "data"
               PROVE  /\ c.pc = "wait" /\ c.d = d
                      /\ hw[d][ep].for = IF c.sense THEN "sense" ELSE "main"
    BY DEF NoLateWrite
  <2>1. Device(W, d) /\ W.hw = hw /\ W.c = c /\ ep \in Eps
    BY WorldIs DEF DriveInv, Ready, Eps
  <2>2. ~Rest(hw[d])
    BY <2>1 DEF Rest, Idle
  <2>3. Started(W, d) /\ Awaited(W, d) /\ Moves(W, d)
    BY <2>1, <2>2 DEF Device, Free, Shut, Opening, Fresh, Settled, Started, Asked
  <2>4. hw[d][ep].for = W.itf[d].tag
    BY <2>1, <2>3 DEF Moves, Idle
  <2> QED BY <2>1, <2>3, <2>4 DEF Awaited
<1> QED
  BY <1>1, DriveInvariant, PTL

(* When the control pipe is free and nothing waits for tuh_task, every     *)
(* drive can be sent another command (msc_ready): no recovery, no stage    *)
(* and no transfer is left that nobody will end, waits being Undisturbed.  *)
THEOREM ReadyAgain == Spec /\ [][Undisturbed]_vars => []ReadyWhenStill
<1>1. DriveInv => ReadyWhenStill
  <2> SUFFICES ASSUME DriveInv, c.pc = "idle", ctrl = Quiet, NEW d \in Addrs,
                      itf[d].mounted
               PROVE  msc_ready(W, d)
    BY DEF ReadyWhenStill
  <2>1. Device(W, d) /\ W.itf = itf /\ W.c = c /\ W.ctrl.d = 0 /\ d # 0
    BY WorldIs, QuietIs, DrivesAssumption DEF DriveInv, Ready
  <2>2. Settled(W, d) /\ W.itf[d].recovery = "idle"
    BY <2>1 DEF Device, Free, Shut, Opening, Awaited, Settled
  <2> QED BY <2>1, <2>2 DEF Settled, Mounted, Rest, Idle, Eps, msc_ready
<1> QED
  BY <1>1, DriveInvariant, PTL

=============================================================================
