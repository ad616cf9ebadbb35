# Verification of the RP6502

The RP6502 is a 6502 computer whose "RIA" chip is a Raspberry Pi Pico: it holds
the 6502 in reset, feeds it its first program, answers its memory-mapped
registers, serves its operating-system calls and talks to a second Pico that
makes the picture. This directory holds TLA+ models of that firmware, the TLC
configurations that check them and the proofs that TLAPS checks. The Pico build
(`src/src/host/pico`) over the shared core (`src/src/core`) is the reference;
paths below are relative to `src/src`.

Contents: [the system](#the-system) · [modules](#modules-and-the-code) ·
[runs and bounds](#runs-bounds-and-what-they-show) ·
[fairness](#fairness-and-why-the-code-justifies-it) · [proofs](#what-is-proved) ·
[assumptions](#assumptions) · [findings](#findings) ·
[not modelled](#what-is-not-modelled) · [plan](#plan).

To repeat: `tlc -config MCSysRun.cfg MCSysRun` (and so for every `MC*.cfg`, with
the module PROJECT.json names for it), and `tlapm SysRunProofs.tla`
(and so for every `*Proofs.tla`).

## The system

### How it is put together

A machine is a list of *drivers* (`host/pico/ria/drivers.h`). Every driver has
the same hooks: init, task, io task, run, stop, break, config, savestate. Core 0
loops for ever over `sys_task` (every driver's task), the io column and
`sys_commit`, which turns requests collected during the walk into *fan-outs*: the
run hooks in list order, the stop hooks in reverse order, the break hooks. Core 1
does nothing but answer the 6502's bus (`act_loop` in `ria/sys/ria.c`). Nothing
is preemptive on core 0 except interrupts; anything slow is a state machine
advanced once per walk, except file IO, which blocks and re-enters `sys_task`
while it waits. So the hard behaviour is of four kinds: two cores that share
variables without a lock; state machines that live across walks and can be cut
off by an exit, a break key or an NFC tap in any state; re-entry into the task
column from the middle of an io task or of a stop hook; and a second board, or a
USB drive, that answers late, twice or not at all. The wireless build adds a fifth: lwIP calls
back into the drivers, out of a call they make or from the task column, and the
drivers call each other back.

### Components

| component | state it keeps | operations | what makes it correct |
|---|---|---|---|
| Run state and reset line (`core/sys/sys.c`, `ria/sys/resb.c`) | `sys_state`, `sys_breaking`, `release_pending`, the RESB pin | `sys_run`, `sys_stop` (either core), `sys_stop_now`, `sys_break_request`, `sys_commit`, `resb_task` | RESB is high only while every driver is up; hooks alternate per driver; a break beats a run asked for in the same walk; what is asked for is performed |
| Loader, launcher, monitor prompt (`ria/mon/rom.c`, `core/rom/pump.c`, `ria/sys/ria.c` transfers, `core/api/proc.c`, `ria/api/proc.c`, `ria/mon/mon.c`, `ria/mon/ram.c`, the upload of `ria/mon/fil.c`) | `rom_state`, pump position, `mbuf` and who reads into it, `action_state`, saved reset vector, `ram_state`, `proc_launcher`, `proc_running` | load/boot/exec/NFC launch, read, write and verify transfers through a 6502 loop, exit, break keys, help, install, memory dumps and writes, BINARY, UPLOAD | a program starts with its whole image; a transfer never meets a running program; a break leaves nothing behind; loads and stops end |
| Console input latch (`ria/sys/ria.c`, `ria/sys/com.c`, `core/com/pick.c`) | `ria_uart_rx_slot`, $FFE0 bit 6, $FFE2, `com_rx_char_src`, the held source and its dwell | offer, reclaim, the two register reads on core 1, OS read, clear | no byte lost, duplicated or reordered, whichever way the program reads |
| OS calls and descriptors (`core/api/api.c`, `core/api/std.c`) | `api_active_op`, the descriptor pool, the transfer in flight, the stdin line, xram not yet forwarded | dispatch once per walk, open/close/read/write/sync, forwarding, line editor callback, run and stop hooks | an op is answered by its own handler; nothing of a program that ended reaches the next |
| PIX bus and VGA backchannel (`ria/sys/pix.c`, `ria/sys/vga.c`, `pico/vga/sys/pix.c`, `pico/vga/sys/ria.c`) | the xreg call's state and timer, `vga_canvas_current`, `vga_state`, the VSYNC trap; `xregs`, canvas, `ria_held` on the VGA | xreg op with acknowledgement, reset of the VGA at stop, VSYNC from a byte or a trap, loss and reconnection | the RIA's idea of the canvas is the VGA's; no answer is lost or taken for a VSYNC; one VSYNC per VSYNC |
| Network sockets (`ria-w/net/net.c`) | a descriptor's state, PCB, lookup generation and received pbufs; listeners and the call each holds | open, close, listen, accept, reject, send, receive, the lwIP callbacks | a PCB has one owner and is closed once; a late lookup or callback touches no other call |
| Modem (`ria-w/net/modem.c`, `cmd.c`) | on-hook … connected, command mode, the escape sequence and its clocks, ringing, settings | the program's open, read, write, close; AT commands; `modem_task`; the callbacks of net | modem and network agree; carrier lost after the last byte; an escape needs silence |
| Telnet (`ria-w/net/telnet.c`) | per option two Q-method states and what is pending, half a pair left over, the reader's parser | negotiation, `telnet_tx`, `telnet_rx`, window size | both ends agree and fall silent; data arrive as written |
| Telnet console (`ria/sys/com_telnet.c`) | listening, passkey, session, a receive ring held while bytes wait | `com_telnet_task`, callbacks, configuration | a session belongs to a caller who gave the passkey |
| Terminal (`core/term/term.c`) | two screen buffers: a ring of rows, marks for rows due an erasure, cursor, margins, modes | every control, `term_clean_task`, changes of height | what is shown is what was drawn, whatever is still to be erased |
| Line editor (`core/str/rln.c`) | the line and cursor, where the prompt is, the terminal's width, history, per source a parser and the reports it is owed | keys, reports, deadlines, completion | the line read is the line typed; the row shows it and nothing else is drawn over |
| USB mass storage (`ria/usb/msc.c`, above it `vendor/fatfs/ff.c`) | per device the stage of a command, its recovery, the CBW; per slot the volume's status, sense, size, protection; FatFs's object and the open file; the bulk endpoints, one control pipe, queued completions | stages and recovery of both transports, submit, wait, retry and autosense, status, initialise, mount, read, write, sync, mount and unmount of a device, drive list | what FatFs is told was done was done, for that command, with that medium; nothing lands in a buffer that was given back; a device is usable again after any failure |
| Byte rings (`core/sys/ring.[ch]`) | head and tail | push, pop, two ends on two cores | nothing read before it is written |
| Console output (`core/com/com.c`, `tty.c`) | a ring per console | fan-out to UART, telnet, terminal | a dead console stops no other |
| Savestates (`core/sys/sst.c`) | the latch, a scratch copy | save, guarded load, roll back | a failed load changes nothing |
| Commands on a whole drive (`ria/mon/drive.c`) | the command's stage, the drive's generation and size at the first look | ERASE, FORMAT, VERIFY: look, ask, look again, a step per turn, break | only the drive that was shown is destroyed, and FatFs forgets it |
| Other monitor commands (`ria/mon/*.c`) | `mbuf`, one responder at a time | files, directories, settings, status | a command ends or is broken off, the prompt returns |
| Configuration (`ria/sys/cfg.c`) | one file | load, save | survives a reset |
| USB: NFC, serial, MIDI (`ria/usb/*.c`) | device slots, transfers in flight | mount, unmount, read, write, tap | an unplugged device fails its users once |
| HID (`core/hid/*.c`, `ria/usb/xin.c`, `ria-w/ble`) | keyboard, mouse and pad state | reports | keys released when a device goes |
| Wi-Fi and network time (`ria-w/net/wifi.c`, `cyw.c`, `ntp.c`) | whether the radio has joined, its retries; where a request for the time stands, lookups and answers still out | join, retry, the radio switched on and off, look up, ask, take an answer | a dial is not kept waiting by a radio that cannot join; a request for the time ends; what comes late meets a client that has its PCB |
| VGA scanout, audio | sprites, voices | draw, mix | data, bit exact |
| Emulated 6502/VIA/RIA/bus (`core/wdc`, `core/ria`), debugger (`core/dap`), desktop, web, libretro and Pocket hosts, OS layer (`osal`) | — | — | tested against vectors and in lockstep |

PROJECT.json lists each of them with its sources and, where it is left out, why.

### How the modelled components meet

* The 6502 exits by writing $FFFF or by BRK through the RIA: core 1 calls
  `sys_stop` at once (SysRun: `Exit`), core 0 runs the stop hooks at the end of
  the walk. Those hooks are `StdStop`, `RlnStop`, `ApiStop` in ApiStd, `Stop` in
  VgaLink, `Stop` in RxLatch and `StopEnds` in Launch.
* The loader uses the *same* reset line: a transfer starts the 6502 in a loop at
  $FFF0 by `resb_release`, without `sys_state` ever leaving "stopped" (Launch:
  `ActionStart`). `resb_task`, which raises the pin, is the one place both meet.
* The op latch dispatches xreg (VgaLink: `PixApiXreg`), console reads
  (RxLatch: `StdinRead`), file calls (ApiStd) and exec (Launch).
* An NFC tap and the break keys arrive from a task, so also from inside a
  blocked file operation or a stop hook.

* Modem and telnet console are two drivers of the network layer: it calls
  `on_connect`, `on_close` and `on_accept` of whoever owns the descriptor or the
  listener, and they call its `net_close`, `net_accept` and `net_reject` from
  inside those calls (NetCalls, instantiated by each of them).
* The telnet console's bytes and the keyboard's are sources of RxLatch and of
  the line editor; the editor prints on the terminal and reads back, as a
  source's bytes, the reports the terminal sends (Console).

* A disk function called by FatFs waits for its drive by running the whole task
  column (`msc_pump`), so completions, an unplug, another drive's mount and a tap
  arrive in the middle of a read (Drives: `Pump`, `Plug`, `Yank` inside a wait).

SysRun is the bottom of this: it interleaves both cores store by store and shows
that the requests and fan-outs behave like RunContract. The modules above it
take them as single steps and rely on that.

## Modules and the code

Every module names the C functions its actions stand for; PROJECT.json's "map"
has the lines. Action names are the functions' names, or say what a branch does.

**RunContract** — the abstract specification, what `sys.h` promises: the drivers
are brought up and put away together, the 6502 leaves reset only while all are
up, a break is performed with the machine down. Three variables.

**SysRun** — `sys.c` and `resb.c` with every access to a shared variable a step.
`stop[c]` is where core c is inside `sys_stop`, `rtask` where core 0 is inside
`resb_task`, `where` where it is in the loop, `k` the driver a fan-out calls
next, `up` (not in the code) the drivers whose run hook was called and stop hook
was not. The drivers are the most general client: any may ask for a run, a stop
or a break from its task or from any hook. `ImplementsContract` is the
refinement (`INSTANCE RunContract WITH phase <- Phase, ...`).

**SysRunProofs, LaunchProofs, RxLatchProofs, ApiStdProofs, VgaLinkProofs,
NetworkProofs** — the theorems about the module each is named for; see
[What is proved](#what-is-proved). **NetworkMoves** has what NetworkProofs builds on:
the parts of its invariant, and what the operators of net.c and the handlers of a
modem do to them.

**Launch** — core 0 walks the tasks, then the io column in the drivers' order
(`pc`: mon, mbuf, rln, rom, nfc, api), then commits. `pc = "open"` or `"read"` is
file IO that blocks, during which every task action is enabled. `mem` says, for
each place a program's bytes go to (RAM only the 6502 writes, the registers with
the reset vector, extended RAM), whose bytes a load last left there. A transfer is two
steps: the bus loop's (`BusWrite`, `BusVerify`, on core 1) and the closing task
(`RiaWritten`, `RiaDone`); the timeout races them. `opening` holds the
continuation of a blocked open. `client` is whose callback a transfer ends in
(the loader's or a memory command's), `line` and `chunk` whose callback the line
editor and `mbuf_read` hold, `resp` the responder that prints, `ram` is
`ram_state` and `fil` an upload; bytes that belong to no program are "scratch".
`scene` (not in the code) is what a behaviour's user does: which programs are
loaded and which commands are given besides. The rest has the code's names.

**RxLatch** — the two registers and the slot, each store a step, on both cores.
A byte is `<<source, n>>`. `overtook` is a history variable: core 0 has found
slot and bit 6 empty while core 1 was between its last two stores. `cleared`
records what a break or an exit was to discard.

**ApiStd** — the op latch and the transfers that live between dispatches. The
file drivers answer as `std.h` lets them (bytes, nothing yet, end, error).
`stale` (not in the code) is the set of xram addresses whose copy in the video
device is out of date.

**VgaLink** — both boards. `pix` is the one-way bus, `wire` the one-way
backchannel, `phase` whether the VGA holds its answers back around a VSYNC,
`trap` the RIA's alarm and edge trap. `mine` on a message or an answer ties it
to the wait in progress and `new` to the program in progress; neither is sent,
and `verdict`, `muddled`, `debt` and `mirrored` are history variables too. The
first message whose `new` is true is the first register of a program.

**Telnet** — both ends of one connection over two wires, with `room` bytes for
what lwIP has not sent. Per end and option `us`/`him` are the Q-method states,
`pending` what `tel_q_send` could not yet send; `escape` is the byte left over of a
pair, `over` (not in the code) that a reply waiting for the other direction was
overwritten. `Tx` is `telnet_tx` with lwIP taking any prefix of what was encoded.
**Steps** holds the fold over a sequence that Telnet, the console and the
terminal use.

**Wifi**, **Net**, **NetCalls**, **Modem**, **ComTelnet**, **Network** — the handlers are
operators that map `w`, the record of everything they touch, to the next: those
of net.c that call nobody back in Net, those that do in NetCalls, whose CONSTANT
operators `OnClose`, `OnConnect`, `OnAccept` are the callback pointers. Modem
and ComTelnet instantiate NetCalls with their own callbacks (they only close
descriptors of their own), Network with the dispatch over both. Network's
actions are the callers: a task, the program, lwIP with each of its callbacks,
the radio. A PCB records whose it is and for which dial (`call`), which the code
does not; `keyed` says that the peer behind it gave the passkey. Wifi is the
radio and the clock. Where the clock is in the cast, every step of `wifi_task`,
the radio's switch and each answer is an action; where the modem or the console
is, they see of the radio only what `wifi_ready` and `wifi_connecting` tell them
(`WifiSeen`), and that it does not join for ever, which they rely on, is what
`CallsEnd` shows of `wifi_task` in the other casts.

**Cells**, **Screen**, **Terminal**, **Rln**, **RlnInput**, **Console** — Cells
is a screen buffer as `screen_buf_t` stores it (ring of rows, marks, lazy
erasure), Screen what it stands for, one row per line and erased at once.
Terminal is what each control does, on both (`bufs` and `shown`); Rln the
editor's state, rendering and keys; RlnInput its parsers, the handshake, the
deferred end of a line and `rln_task`. Console has the actions: a program that
prints, the background erasure, a change of height, a user at a source, the
terminal that answers when it likes, deadlines.

**UsbDisk**, **Msc**, **DiskCmd**, **Drives** — UsbDisk is what lies outside: the USB host
stack as the driver uses it (one control transfer for all devices, a transfer
per bulk endpoint, completions that an abort does not take back) and drives that
answer soundly or not. Msc is the transport of msc.c: the stages of a command
over Bulk-Only Transport and CBI, the recovery after a failure, mount and
unmount of a device. DiskCmd is the monitor's command on a whole drive: `disk`
is where it stands and `gen` the generation a slot gets at each mount, which the
second look compares. Drives is the rest of it and what FatFs does above: `c` is
the one call being carried out and where it stands (`enter`, `submit` and `wait`
are the two loops of `msc_scsi_sync`, `ret` its return; `job` says which disk
function resumes), `pdrv` the slots with FatFs's object in `fs`. As in Network a
handler maps the world `w` to the next. Not in the code: the tags on commands,
data and statuses, which tell whose each is; `got`, what was last carried into or out
of the caller's buffer; `unit`; `lucky`, `done`, `same`, `ghost` of `last`; and `unit` and `medium` of `disk`, the
drive that was shown and the medium it had at the second look.

An operator whose comment begins with "Mutant" (or `\* mutant:`) is a plausible
bug: put in place of the operator named in PROJECT.json's "mutants", it makes
TLC find one named property violated. None is part of a specification. Each
module has a `TypeOK`; those of SysRun, Launch, RxLatch, ApiStd, VgaLink, Network and
Drives are proved, the others were checked while the modules were written and document the
state.

## Runs, bounds and what they show

| run | states | bounds, and why they are enough |
|---|---|---|
| `sysrun` | 2 thousand | 3 drivers: a first, a middle and a last one for each fan-out. No other bound: the model is finite. |
| `launch` | 3.3 million | either 2 programs, one packed (its records counted), one classic, or one program and the memory commands (dump, hex write, BINARY, UPLOAD); images of 2 records, one straddling the registers, one whose vector comes first; a boot ROM or none; faults on or off for the whole behaviour. |
| `launch_live` | 160 thousand | 2 programs of one record each, or the commands and no program: liveness needs a load that ends, not a long one. |
| `rxlatch` | 108 thousand | 2 sources, one with a dwell, of 1 and 2 bytes: two bytes are what slot and register hold, the third makes the latch full with another source waiting. Reads of up to 2 bytes. |
| `rxlatch_reader` | violation | the same. |
| `apistd` | 112 thousand | 2 descriptors over a driver with one file (a pool smaller than the other), 2 addresses of xram read one at a time, counts up to 2, lines up to 1. |
| `vgalink` | 953 thousand | 3 canvas words (console, another, an unknown one), calls of up to canvas, mode and argument, PIX of 2 messages, one answer or VSYNC ahead of another on the wire, one death of the VGA. Two messages are enough for the reset to queue behind what a program left, and in front of the next program. |
| `telnet` | 22 thousand | every pair of ends that meets (modem, console, a foreign terminal), all 5 options, room for 3 bytes (one command), 7 (two and a byte) or 24 (everything at once); 3 bytes written, at most 3 in a write, of the 5 kinds the coding tells apart. |
| `network` | 219 thousand | the modem, the console, or the radio and the clock (one fast retry each, two lookups that may be late); 2 PCBs (one in a call, one ringing, or none left to dial with), 2 descriptors' worth of lookups, 2 pbufs, 2 dials, so that one may be late for the other; a listening port or none; the console's ring of 2 fills; reads of 0, 1 or 2, of which the response waiting takes one, so that a read can end inside it, with it, or behind it. |
| `network_read` | violation | the same. |
| `console` | 903 thousand | 4 columns and 2 or 3 rows in a ring of 4; any 3 of 49 controls, or one line or two of together up to 3 keys out of 7, behind a prompt of one column and one of two, so that a reply left over from the first read tells another column than the second prompt's. A program has room for 6 characters, which behind the prompt of two fill the second row to its last column, or for 2, which fill the prompt's own row without wrapping; the history holds one line of five, so both are reached in two keys. With 4 keys in one line (`MCKeys == <<4, 3>>`, 1.7 million states) it holds too. |
| `drives` | 1.8 million | a stick, a card reader and a floppy drive (the second transport), 2 addresses, 2 slots, and one of eight budgets: 3 calls with two faults; 4 calls with two changes of medium; 2 calls with two plugs, an unplug and either a control pipe that is taken or a fault; then one command on a whole drive, of 2 steps, with a fault and a call after it; with a change of medium and a call after it; with another drive put in the first one's place; broken off. Two calls are what a late completion needs (one given up, one that could take it for its own); a second plug is what the address or the slot of an unplugged drive needs to be used again; two steps leave one for what happens between them. |

`CHECK_DEADLOCK FALSE` stands in the RxLatch configurations, Console's and
Drives': when the last of the bounded bytes was read, the last of the bounded
controls printed and lines typed, or the last of the bounded calls made, nothing
need happen. That no drive is left stuck is `ReadyWhenStill` instead.

What each property says is in the comment before it:

* sysrun: `CpuNeedsEveryDriver`, `HooksAlternate`, `BreakFindsMachineDown`,
  `RaisedOnlyWhileRunning` (an exit on core 1 between core 0's test of the pin
  and its raise), `StopAndBreakPerformed` (liveness), and the refinement
  `ImplementsContract`. `IInv`, the invariant of the proofs, was checked here
  before it was proved, as were those of Launch, RxLatch, ApiStd, VgaLink and
  Network (`Inv`) on their own runs.
* launch: `RunsItsImage` (a packed program starts with every byte in place
  whatever was loaded, broken off or timed out before, and a program that runs is
  the one that was asked for), `TransferWhileStopped` (with the reads of a ROM
  file and the bytes of a command), `BreakEndsChain` (a break leaves neither
  launcher nor load nor command); live: `PromptComesBack`,
  `LauncherComesBack`.
* rxlatch: `KeptTillCleared` (no byte lost, none left by a discard),
  `OnceInOrderTillOvertaken`, `Delivered`.
* apistd: `NothingLeftBehind` (a transfer and the line being edited belong to the
  op that is active, and none outlives its program), `NoLeakedFile`,
  `ForwardsRead`, `Answered`.
* vgalink: `CanvasMirrored`, `AnswerOnItsWay`, `NothingInherited`, `VsyncOnce`,
  `XregHonest`.
* telnet: `Agreement` (when nothing is on its way both ends hold the same idea of
  every option), `DataIntact` (what the reader has is what was written, wherever
  lwIP cut it), `NegotiationEnds`.
* network: `PcbOwned`, `DialsTheNumber` (a late lookup connects no other call),
  `LineAgrees` (what the modem believes and what its descriptor is; where there is
  only one modem, that a call that waits makes it ring),
  `ConsoleSession`, `DataKept` (what waits for a program in data mode is taken by
  no peer that hangs up, and by a read only as far as it has room, but for the read
  that `network_read` is about), `EscapeNeedsSilence`, `CallsEnd` (a call, a radio
  that is joining, a request for the time). network_read: `DataBeforeCarrier`, what
  the comment in `modem_carrier_lost` says.
* console: `ScreenKept` (stored cells and marks always stand for the plain
  screen), `EditShown` (the line being edited is what stands behind the prompt,
  and the cursor in it, whatever the reports told but for the two cases of the
  findings), `LinesAsTyped` (a line read is a line typed, whatever the reports did).
  `SortedRight` (a line is edited from the column of its own prompt) and
  `CursorInPlace` (the cursor is where the next key goes) say what comments of `rln.c`
  say; no run lists them because they fail (see Findings).
* drives: `PassedIsDone` (a read or write that FatFs is told went well was
  carried out for that very command), `SameMedium` (with the medium that was
  mounted; and what an erasure or a format destroys is the drive that was shown), `NoLateWrite` (no transfer touches a buffer whose command was given
  up), `ReadyWhenStill` (whatever failed, every drive can be sent a command when
  nothing is under way).

## Fairness and why the code justifies it

Core 0's loop has no exit and every driver call returns, so each step of the
loop is weakly fair. Where a step is disabled again and again by something that
may go on for ever (a driver that keeps asking, a file operation that keeps
re-entering the tasks, the other core), fairness is strong and stands for "every
walk runs every task": the task is run in each of infinitely many walks, so it
meets a walk in which it is enabled. The 6502 executes while RESB is high
(`BusWrite \/ BusVerify`). Fairness about people and devices is assumed only
where a property needs it and is named there: a typed line ends, a page of help
or of a dump is read to its end, a sender of bytes is done or falls silent, a boot enumeration ends at its own deadline, a device drains
its output, a driver does not answer "not yet" for ever, and in RxLatch a
program polls and reads. Telnet assumes that both ends are polled and that the
connection comes up (`telnet_rx` is called in every walk). Network assumes that a
name server's silence ends (lwIP gives a lookup up), that the radio says whether
it has joined and `wifi_task` then runs, that the timers of `ntp.c` run out, that lwIP gives up a connection that is not
answered, that `modem_task` meets a walk in which a modem that waits to dial may
(strong: the radio may come and go), and that the program reads what is left of a
call. VgaLink's, Console's and Drives' runs assume none.

## What is proved

For every value of the constants; the assumptions on them are named and stand in
the modules, so that TLC evaluates them on every run.

| module | properties of the runs that are theorems | assumptions |
|---|---|---|
| SysRunProofs | `FanoutsInReset`, `CpuInsideRun`, `HooksInTurn`, `StateIsHonest`, `BreakBeatsRun`, `RaisesAreLegal`, `ContractKept` | `NAssumption` |
| LaunchProofs | `BreakEndsTheChain`; under `Orderly` `TransfersKeepOut`, `ProgramsAreTheirImages` | `LaunchAssumption` |
| RxLatchProofs | `NothingIsLost` (`KeptTillCleared`), `OnceInOrder` (`OnceInOrderTillOvertaken`) | `SourcesAssumption`, `DwellAssumption`, `BoundsAssumption`, `NoneAssumption` |
| ApiStdProofs | `NothingIsLeftBehind`, `NoFileLeaks`, `ReadIsForwarded` | `FdsAssumption`, `SizesAssumption`, `NoneAssumption` |
| VgaLinkProofs | `CanvasIsMirrored`, `AnswerIsOnItsWay`, `NothingIsInherited`, `VsyncIsRaisedOnce`, `XregIsHonest` | `CanvasAssumption`, `RoomAssumption` |
| NetworkProofs | `PcbsAreOwned`, `LinesAgree`, `ConsoleIsServed`, `DataIsKept`, `EscapesAreGuarded`; under `Prompt` `NumbersAreDialed` | `NetworkAssumption`, `InputAssumption`, `NetAssumption`, `WifiAssumption` |
| DrivesProofs | under `Undisturbed` `WritesInTime` (`NoLateWrite`), `ReadyAgain` (`ReadyWhenStill`) | `DrivesAssumption` |

Every module also has `TypeCorrect` and, but for DrivesProofs, `Inductive` (its
invariant, `IInv` or `Inv`). All leaves are by SMT, Zenon or PTL; VgaLinkProofs,
RxLatchProofs and DrivesProofs use the library's theorems about sequences, which the provers cannot find by themselves.

**SysRun**, for a machine with any number N > 0 of drivers.

    IInv == TypeOK /\ LineInv /\ StopInv /\ ExitInv /\ DriverInv /\ BreakInv

"RESB high implies every driver is up" cannot be
kept by itself: the pin is raised by `resb_task` on the strength of
`release_pending`, set a long time before, and core 1 may be anywhere inside
`sys_stop` at that moment. `LineInv` therefore says the same of the *permission*
as of the pin, and of a core 0 that has decided to raise; `StopInv` says that a
core inside `sys_stop` took the permission back before it lowered the pin and
lowered the pin before it looked at the state, which is the order of the stores
in `resb_assert`; `ExitInv` bounds where core 1 can be; `DriverInv` says
which drivers are up at every place of core 0, so that `up = 1..k-1` in the run
fan-out and `1..k` in the stop fan-out; `BreakInv` carries "a break stops the
machine again at the start of `sys_commit`" to the break hooks. For
`ContractKept` (every step of SysRun is a step of RunContract or none, the safety
part of `ImplementsContract`) a lemma (`PhaseIsPlace`) first turns the phase of
the refinement mapping, which looks at the drivers, into a function of place and
state.

**Launch**, for any programs, images and scenes. `BreakEndsTheChain` holds of every
environment: `AnyInv` adds to the type what is opened or read (`ReadInv`) and that a
break can only be owed to a machine that is not running (`BreakInv`). The other
two properties are false where tags and typed lines cut into a load or a command
(see Assumptions), so they are proved under

    Orderly == ~TapsOverLoads /\ ~TypesOverTaps

and TLC shows that neither half can be left out: with `TypesOverTaps`
`TransferWhileStopped` fails, with `TapsOverLoads`
`RunsItsImage` does. `TransferWhileStopped` needs `LineInv` (the line is let go for a
program or for a transfer that is not over), `CommandInv` (the monitor's commands
exclude each other, a prompt and a load), `TransferInv` (whose a transfer is) and
`LoadInv` (a load begins in the tap, the exec or the stop and ends with the
machine down). `RunsItsImage` needs, besides, what the pump has done so far:
`PumpInv` and `WriteInv` say that the first `pos` records are in place but for the one
a transfer is writing, of which a verify has seen what is in the registers, and
`RunInv` carries this from the last record to a program that starts.

**RxLatch**, for any number of sources, dwells, bytes and reads. `IInv` is
`AnyInv`, which holds always, and `TillOvertaken`, what holds until core 0 first looks
at the latch between core 1's last two stores (`overtook`, the race the run
`rxlatch_reader` records). In `AnyInv` `TaskInv` and `ActInv` say for each place of
either core what it has in hand and what it may count on, and `KeptInv` that every
byte that arrived and was not discarded is in its row, in a hand, in slot or
register, or read: so `NothingIsLost`, overtaken or not. In `TillOvertaken` `WindowInv`
says which of slot, bit 6 and register hold a byte at each pair of places,
`SawInv` that a program that saw bit 6 may count on it, `FreshInv` that what a clear
discarded is nowhere, and `OrderInv` that each source's bytes are in order over all
these places: so `OnceInOrder`.

**ApiStd**, for any descriptors, files and sizes. `OpInv` ties the op in flight to
the one the program waits for, `BoundInv` keeps transfers and lines within their
bounds, and `ForwardInv` says that what a read into xram has brought is what has
been forwarded and, behind it, what is still to be. `NothingLeftBehind` and
`NoLeakedFile` are then inductive as they stand.

**VgaLink**, for any canvases, room and number of deaths. `CanvasMirrored` needs
what the messages in PIX will make of a VGA that is off (`CanvasInv`).
`AnswerOnItsWay` and `XregHonest` need that of a call that began with nothing on its
way one answer at most is anywhere, that it is the call's (`MineInv`, `FlightInv`), and
that the call knows what the VGA made of every key register but that one
(`VerdictInv`). `NothingInherited` needs an order on PIX: what is left of the old
program comes before the display order of its stop, which comes before what the
new one writes (`InheritInv`). `VsyncOnce` needs that a VSYNC on the wire is one, and
that the trap has fired for it or not (`VsyncInv`).

**Network**, for any modems, PCBs, ports and listeners, any phone book, any command
lines and settings. `Inv` is `TypeOK`, what is said of the world, and for each modem
`Escape`, which ties the state of the escape sequence to what the program really sent.
Of the world: `Owned` (who has which PCB, and no PCB is left over), `Numbered` (a
descriptor's generation counts its dials, and a lookup still out is not newer than
its descriptor), `Lined` (what each modem thinks of its line), `Served` (the
console's session, its listener and whether the caller is `keyed`), `Rung` (a port
that is listened on and a call that waits there) and `Timed` (the clock has a PCB
while it asks). Handlers call each other back, so the invariant is broken in the
middle of one: a handler of modem m begins and ends in `Ready`, which says all of
`Inv` but what is said of m's ports between two of its tasks (`Tuned`), and may pass
through `Fit`, which leaves out what is said of m itself. What every operator of net.c does to a
world is a lemma of its own, the callbacks of the modem and of the console are lemmas
upon those, and an action is a composition of them. The console's loop over the
bytes of a pbuf ends in a sound world because a first byte after which it is not
would be one, taken in a sound world, that breaks it. `Prompt` says
that fewer than 65536 lookups are begun, the width of a generation: a lookup
answered after so many connects the wrong call, and `NumbersAreDialed` needs it.

**Drives**, for any addresses, slots, drives, calls and budgets, however many faults,
unplugs and changes of medium. `DriveInv` is `Typed`, what holds of the types, the
call and the control pipe (at most one end of a control transfer is queued, and only
of the one that holds the pipe), and `Ready`: each device is in one of four states.
`Shut` is one that is not enumerated, `Opening` one that is asked for its units,
`Settled` one that is ready or recovers, `Started` one that carries out a command, and
that only while this command is waited for (`Awaited`). Each state says what of the
device may still be queued. While a device recovers, what is left of its bulk
transfers comes before the end of the recovery's control transfer (`Early`); without
that order the end of an aborted transfer could be taken for the next command's.
While a command is started, the one endpoint of its stage is busy and either moves or
has its only completion queued (`Moves`), or the device holds the control pipe and
nothing moves (`Asked`). What a handler of msc.c does to the world is a lemma of its
own (`Local`: it leaves the other devices alone); what FatFs, the disk functions and a
command on a whole drive do is `Above` the transfers, and what the drives do to
themselves is `Aside` of them. `Undisturbed` says that a wait is not given up with an
end of its bulk transfer queued while some other device holds the control pipe:
`msc_abort` then skips the recovery that would come after it, and both properties fail
(see Findings). `TypeCorrect` needs no such condition.

Model-checked only:

* Telnet and Console. Telnet's ends and Console's controls work through a
  list of bytes or of cells with `Through`, a fold whose value for every list needs
  induction over data.
* Drives' `PassedIsDone` and `SameMedium`. Both compare what a drive was told with what
  FatFs is told, through every stage and every retry of a command, and the code does
  not keep them beyond the budgets of the run: each has counterexamples that the
  budgets leave out (see Assumptions and Findings).
* All liveness (`StopAndBreakPerformed`, the fairness half of
  `ImplementsContract`, the `~>` properties of the others), which is out of the
  prover's reach.

## Assumptions

What a run takes for granted, beyond its bounds.

* **SysRun.** The few instructions core 1 spends in `sys_stop` end before core 0,
  walking the rest of the drivers, comes to the next test in `sys_commit`
  (`Core1Prompt`). A store on either core is seen by the other at once (the
  Cortex-M33s share uncached SRAM).
* **Launch.** Requests, fan-outs and each half of a transfer are single steps.
  The passing runs leave out two schedules that are known to go wrong
  and are recorded instead: a tag tapped while a load is in flight
  (`TapsOverLoads`: `rom_load_argv` has rewritten argv by the time `rom_exec`
  refuses, so `RunsItsImage` fails), and a line begun at the prompt that is finished during the load
  or a memory command still under way
  (`TypesOverTaps`: see Findings). The file operations of an upload are
  single steps and its closing is left out; what a command writes is one value,
  "scratch".
* **RxLatch.** Core 1 is done with an access before the 6502's next one (the PIO
  stalls otherwise). Rings are longer than the bytes in the model. Reading one
  named source and peeking are left out.
* **ApiStd.** The program does not start an op while one is busy, as the API's
  documentation asks. The stop hooks are one action in their real order. What PIX
  still owes the video device is sent before the next program runs. stdout, the
  TTY device and savestates are left out.
* **VgaLink.** The VGA's lockout (2 ms to either side of the expected VSYNC)
  contains the RIA's window (1.5 ms) by more than a byte time; `ria.h` and
  `vga.h` demand it of the constants and it is what the guards of `Arm` and
  `LockoutEnds` say. A live VGA whose backchannel is attached sends a VSYNC
  within the watchdog's 44 ms. The wait of an xreg begins in the same step as
  its send; in the code it begins a few instructions later, and an answer takes
  at least a byte time. VSYNCs are counted until the VGA dies: after a
  reconnection `vga_vsync_trap_fired` may be left from before the loss, and one
  VSYNC may go unraised. Console bytes, xram writes, reflashing and code pages
  share PIX and only take room in it.

* **Telnet.** `net_tx_all` sends the three bytes of a command together. Program
  data are written once the options are settled; with `Early = TRUE`, which lets
  them be written before, `DataIntact` fails (see Findings). `DataIntact` and
  `Agreement` except the case in which a reply overwrote the one waiting for the other direction (`over`).
  The terminal-type subnegotiation, BRK and IP change no state kept here.
* **Network.** Telnet is passed through: a byte is a byte, and one pbuf is read
  in a turn. A response is one character: a read that ends inside a longer one is
  a read of 0 while it is due. `tcp_write` fails only for want of memory, and a call that waits in
  a listener and vanishes does so through `net_pending_err`. Two modems do not
  share a listening port, and the console's is another. A network is configured;
  the scan, and Bluetooth, which a reset of the radio shuts down by running the
  tasks (`ble_shutdown`), are left out. *Patience*: a program
  does not dial while an escape sequence of its last call is still running out
  (`Type`); what happens otherwise is in [Findings](#findings). Response texts,
  the echo and the stored settings file are left out; `Z` and `&F` both return
  to the factory's.
* **Console.** A control arrives whole, reports come back in two pieces (ESC and
  the rest) or not at all. The terminal's answers are dropped when another
  console is attached (`answers`). Keys that start with ESC are left out: after a
  CR the deferral takes them for a report. `LinesAsTyped` and
  `EditShown` except what comes after a 500 ms deferral that ran out in the middle of a
  report, the rest of which is typed (`cut`). `EditShown` excepts a read that began
  with a reply on its way which tells a column that is neither its own prompt's nor
  the last (`stray`), and a line whose last row is filled to the last column by a key that
  was not typed at its end (`brim = "inside"`): both go wrong (see Findings).
  `LinesAsTyped` does not follow what is typed into a line that was ever so full (`brim`):
  its cursor rests on the last cell (`rln.c:664`), so a backspace takes the character
  before the last. The history is on,
  and one terminal has one width.
* **Drives.** Drives have one unit. One read stands for those of a mount, of a
  directory and of a file. A new device takes the first free address. A wait
  ends early only as a fault, otherwise when nothing more can come. Changing a
  medium takes longer than the 250 ms in which `disk_status` does not ask again
  (`MSC_DISK_STATUS_TIMEOUT_MS`), and longer than a call. A drive that reports
  a changed medium reports it once, so changes of medium are not combined with
  what can swallow that report (faults, a taken control pipe, a second drive,
  the drive list); `lucky` and `ghost` name two cases the properties except. All
  these are in Findings. While a command is at work on a whole drive nothing else
  uses drives: no tag is tapped, no call follows a break. A format writes its
  volume in one write. When a drive is pulled out while it is formatted, the
  command notices before another drive gets the slot (`MonitorFirst`; see
  Findings). A change of medium is not combined with
  VERIFY. The raw read of sector 0 by which
  `drive_scheme_word` names the layout, and the second `msc_drive_get_info` of the preview,
  change nothing kept here and are left out. Several units, TRIM, and the texts of the drive list are left out.

## Findings

* `proc.c:124` (in `MCLaunch.cfg` set `TypesOverTaps` to TRUE: TLC finds
  `TransferWhileStopped` violated): `proc_nfc` starts a load without cancelling the line the
  monitor is reading. When that line is finished, the command runs beside the
  load, and a command that transfers meets a machine that is starting, against
  the assertion in `ria_write_buf` and the comment in `ria/sys/ria.h`. A memory
  command that is under way when a tag is tapped comes to the same, and since it
  shares `mbuf` with the loader, `RunsItsImage` fails too. The buffer of DISK
  VERIFY and ERASE is `mbuf` as well.
* `rxlatch_reader`: core 1 empties the slot before it publishes bit 6. If core 0
  looks in between it offers the next byte, and an OS read afterwards returns that
  byte before the one in the register, against `core/sys/com.h`. In the same
  window a discard of the type-ahead leaves one byte, and a program told of a
  byte may find it taken back.
* `network_read`: `modem_std_read` ends a call that the peer has ended as soon as
  `telnet_rx` returns 0 (`modem.c:1002`). That is also so when it was given no room:
  the end of a response has just filled the program's buffer (`modem.c:997` goes
  round again with nothing left), or the program asked for 0 bytes. A program that reads
  byte by byte, whose peer has sent data and hung up, meets this on the last
  byte of CONNECT: the data is freed unread and NO CARRIER comes instead, which the
  comment at `modem.c:601` says must not happen. `DataKept` and its theorem except this
  one read.
* `rln.c:1678` (with `SortedRight` as the invariant of `MCConsole.cfg` TLC finds it
  violated): a read that ends before its cursor reports are in leaves them on
  their way to the next. `rln_cpr_dispatch` takes the least column a source told for the
  prompt's and the greatest for the width, so the reply to the old prompt qualifies
  together with the new size and `rln.c:1678` pins the old prompt's column, although the
  comment at `rln.c:1620` says that a reply from a previous read "is still sorted right".
  The line is then drawn from a column that is not behind its prompt. Two prompts of
  one width hide it.
* `rln.c:588` (the same with `CursorInPlace`, and `MCKeys == <<4, 3>>`): when a line's last row is filled to the
  last column, the terminal's cursor stands one past it with the wrap pending, and `rln_emit_move` moves back from
  the last column, `term.c:1538` from one past it. If the key that fills the row was put
  inside the line, the cursor stays one cell to the right of the next key's place,
  against `rln.c:592`, and a character put in next is drawn there.

Noticed while modelling, and kept out of the passing runs by the assumptions
above or outside the models:

* A read into xram that fails after some bytes drops those not yet forwarded to
  the video device (`std.c:484`), which the comment at `std.c:490` does not say;
  `ForwardsRead` is about reads that succeed.
* A failed reconnection leaves `vga_state` at "not found", which no later run
  tries again although `vga_run`'s comment says that a run will.
* `modem.c:547`: an escape sequence begun in the last call lives on in the next,
  so `ATO` can report CONNECT before TCP has connected; if its guard time ends
  while a call is being cut off, NO CARRIER waits for `ATH`. `modem_conn_stop`
  while a call rings leaves the listener's pending PCB to nobody.
* `cyw.c:111`, `ble.c:558`: while Bluetooth runs, `AT+RFCC=` from the modem resets
  the radio inside `cmd_parse`, whose `ble_shutdown` runs every task, `modem_task`
  among them. That parses the rest of the same line, the country code, as
  commands: DK dials, AU answers, HU hangs up.
* `wifi.c:89`: joining has no timeout of its own. A network that lets the radio
  in but never gives it an address keeps `wifi_connecting` true, and a dial that
  waits for it waits as long; `CallsEnd` assumes that the radio decides.
* `com_telnet.c`: `com_telnet_handle_auth` sets "connected" after a send that may
  have closed the connection. `net_recv` and `net_close` answer `ERR_OK` to lwIP
  even where the PCB was aborted.
* `telnet_tx` answers pending options before it sends the second byte of a pair
  that lwIP cut, and `telnet_rx` may answer at any time, so a command can stand
  between the two halves of IAC IAC.
* `telnet.c`: `tel_q_send` keeps one pending reply for both directions of an
  option; the NUL after a CR, if it had to wait, is sent even when BINARY was
  agreed in between.
* `term.c:1853`: a backspace, like CUB, counts from one past the
  last column while a wrap is pending. `term.c:598` says a
  later grow will mark the row it exposes, but `set_height` marks only the active
  buffer; rows pushed off the top while due an erasure come back unerased.
* `rln.c`: an escape sequence typed while a line's end is deferred is absorbed.
* `msc.c:1831`, `msc.c:1897`: the drive list calls `disk_status` and then
  `disk_initialize` itself. After a change of medium the first marks the drive
  ejected and the second mounts it again, so FatFs, which only looks whether the
  drive is initialised (`ff.c:3503`), keeps the old medium's file system,
  although `msc.c:1081` leaves the change untried "so disk_status can detect
  it". `May(4, 1, 0, 0, 1, 0, 1)` as a budget violates `SameMedium`.
* `msc.c`: a report of a changed medium is lost as well when a read's, an
  INQUIRY's or a failed TEST UNIT READY's autosense takes it, or the control
  pipe is busy when that is to be fetched over CBI.
* `msc.c:1644`: `disk_initialize` marks its slot mounted although an unplug
  may have freed it during the waits (`ghost`); a drive plugged in then inherits
  it.
* `msc.c:1020`: a CBI command that failed, and whose autosense finds nothing
  wrong, passes; a byte count left by the command before it then stands for its
  own (`lucky`). A write whose data the drive refused may pass so too: with the budget
  `May(3, 1, 1, 0, 1, 0, 0)` a floppy is taken out before a write, the answer to
  REQUEST SENSE is cut short (`msc.c:1049`), and `PassedIsDone` fails. `msc.c:1381` and `msc.c:1390` likewise look at a buffer that
  such a command never filled.
* `drive.c:934`: a break from a console or Ctrl-Alt-Del ends an erasure or a
  format without `msc_drive_reenumerate`, which Ctrl-C calls, so FatFs keeps the
  file system of a drive that is half erased. A budget with both a break and a
  call after it violates `SameMedium`.
* `drive.c:563`: the second look compares the generation only. A medium changed
  while the question was open is initialised again and accepted, with the size
  of the one that was shown. `msc_drive_format_track` only asks whether the slot
  is in use, so a drive that gets the slot between two tracks is sent FORMAT
  UNIT; `f_mkfs` initialises whatever is there; VERIFY swallows the report of a
  changed medium.
* `msc.c:830`: the wait to submit gives up without `msc_abort`; an abort while
  the control pipe is taken skips the recovery, and a completion already queued
  is then that of the next command. `NoLateWrite` fails with the budget
  `May(2, 1, 2, 1, 0, 0, 0)` and `ReadyWhenStill` with `May(3, 1, 3, 1, 0, 0, 0)`;
  their theorems suppose `Undisturbed`.
* `rom.c:318` rewrites argv before the load is refused; `pump.c:159` cannot tell
  the end of a classic image from a failed read; `std.c:84` spins until a
  driver's close stops answering "pending"; `sst.c:285` a savestate that fails
  half way is rolled back from a copy; `wifi.c`'s scan callback writes `mbuf`
  after its scan was cancelled; `ntp.c` takes a late lookup without looking at
  its state.

## What is not modelled

PROJECT.json gives a reason per component. In short: data (fonts, audio,
scanout, text encodings, report parsing, argv packing, time zones) is left out
because no interleaving can break it and the repository tests it against tables
or recorded output; the emulator, its hosts and the gate-level Pocket build are
single-threaded or in other languages; vendor stacks (USB, lwIP, Bluetooth) appear
only as what their callbacks may do. Of mass storage, volume
names, drives with several units and everything FatFs does inside a volume are
left out. The rest is planned.

## Plan

Order: the run state first, because everything rests on it; then what a user
loses most by (a program that starts half loaded, input lost, a file left open,
a dark screen); then the components with a peer outside.

1. Done: RunContract, SysRun with proofs, Launch, RxLatch, ApiStd, VgaLink;
   Telnet; Wifi, Net, Modem and ComTelnet in Network; Terminal and Rln in Console;
   UsbDisk, Msc and DiskCmd in Drives; the monitor's memory commands and UPLOAD
   in Launch.
2. Next, modelled and checked:
   * **Ring**: `ring.[ch]` with one end per core, refining a queue; small, and
     provable for every size. RxLatch and Launch take rings as sequences.
   * **Savestate**: guarded load over the rows, a failure at each row, the roll
     back: the machine is the old one or the new one.
3. Proved: the invariants of SysRun, Launch, RxLatch, ApiStd, VgaLink and Network, and
   of Drives what rests on its transfers.
   Left: the safety half of Ring's refinement; Telnet's `Agreement`; Cells
   against Screen (`ScreenKept`), control by control; each with its inductive
   invariant checked by TLC first.
