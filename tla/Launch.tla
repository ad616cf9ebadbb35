------------------------------ MODULE Launch ------------------------------
(***************************************************************************)
(* How a program gets onto the 6502 and off it again: the monitor, the ROM *)
(* loader (mon/rom.c), the record pump (core/rom/pump.c), the transfers    *)
(* that run the 6502 to write its own RAM (sys/ria.c), the launcher chain  *)
(* (core/api/proc.c, api/proc.c), NFC taps, exec, exit and the two break   *)
(* keys.  Core 0 walks the task column, then the io column in the drivers' *)
(* order, then commits; file IO in the io column or in a stop hook blocks  *)
(* and re-enters the task column meanwhile.  Core 1 answers the 6502.      *)
(* SysRun shows that sys_stop and the fan-outs may be single steps here.   *)
(***************************************************************************)
EXTENDS Integers, Sequences

CONSTANTS
    Programs,  \* the .rp6502 files
    Packed,    \* those with a "#>" line, which bounds their records
    Image,     \* Image[p]: p's records, each the places its bytes go to
    None,      \* no program
    TapsOverLoads,  \* a tag may be tapped while a load is in flight
    TypesOverTaps,  \* a line begun at the prompt may end after a tap took over
    Scenes          \* which programs are loaded, and which commands given besides

\* Below $FF00, which only the 6502 writes; $FFFA up, in the RIA's registers;
\* and extended RAM.
Locations == {"ram", "vec", "xram"}
Records == {{"ram"}, {"vec"}, {"ram", "vec"}, {"xram"}}

ASSUME LaunchAssumption ==
    /\ Packed \subseteq Programs
    /\ Image \in [Programs -> Seq(Records)]
    /\ None \notin Programs
    /\ {"loop", "scratch", "nothing"} \cap (Programs \cup {None}) = {}
    /\ {TapsOverLoads, TypesOverTaps} \subseteq BOOLEAN
    /\ Scenes \subseteq [programs : SUBSET Programs,
                       commands : SUBSET {"dump", "hex", "binary", "upload"}]

VARIABLES
    pc,          \* where core 0 is
    opening,     \* the open core 0 is in: what, why, and where it returns to
    sysState, sysBreaking,       \* sys.c
    pending, high,               \* resb.c: release_pending and the pin
    act, res, saved,             \* ria.c: action_state, action_result, saved_reset_vec
    client,      \* who called for the transfer: action_callback
    mem,         \* whose bytes a load last left in each place
    mbuf,        \* the record mbuf holds
    romState, pump, rec, asset,  \* rom.c, with the record being written; asset.c
    argv, running, launcher,     \* arg.c's argv[0]; proc.c
    line,        \* whose callback rln.c holds: the monitor's or the upload's
    resp, needsBreak,            \* mon.c: the responder that prints, mon_needs_break
    ram, fil,    \* ram_state, and fil_state = FIL_COMMAND
    chunk,       \* whose callback mbuf_read holds
    enumerating, \* usb_boot_enumerating
    faults,      \* files may be missing or damaged, and transfers may time out
    scene        \* what the user does

sys == <<sysState, sysBreaking, pending, high>>
ria == <<act, res, saved, mem, client>>
rom == <<romState, pump, rec, asset, mbuf>>
proc == <<argv, running, launcher>>
mon == <<line, resp, needsBreak>>
cmds == <<ram, fil, chunk>>
env == <<enumerating, faults, scene>>
vars == <<pc, opening, sys, ria, rom, proc, mon, cmds, env>>

MaybeProgram == Programs \cup {None}
Scratch == [prog |-> "scratch", pos |-> 0]   \* no record of a program
Blocked == {"open", "read"}
Walk == {"task", "mon", "mbuf", "rln", "rom", "nfc", "api", "commit", "run", "stopEnd", "break"}

FlagsOK ==
    /\ sysBreaking \in BOOLEAN /\ pending \in BOOLEAN /\ high \in BOOLEAN
    /\ needsBreak \in BOOLEAN /\ fil \in BOOLEAN
    /\ enumerating \in BOOLEAN /\ faults \in BOOLEAN

PlacesOK ==
    /\ pc \in Walk \cup Blocked
    /\ sysState \in {"stopped", "starting", "running", "stopping"}
    /\ act \in {"idle", "write", "verify", "read"}
    /\ client \in {"rom", "ram"}
    /\ res \in {"none", "finished", "failed"}
    /\ romState \in {"idle", "helping", "loading", "xramWriting", "riaWriting", "running"}
    /\ line \in {"none", "mon", "fil"}
    /\ resp \in {"none", "help", "dump"}
    /\ ram \in {"idle", "ria", "binary", "xram"}
    /\ chunk \in {"none", "ram", "fil"}
    /\ scene \in Scenes

Openers == {"rom", "api", "commit", "stopEnd"}   \* where a walk goes on from an open
Openings == [prog : MaybeProgram, why : {"exec", "info", "install"}, back : Openers]
Pumps == [prog : MaybeProgram, pos : Nat, open : BOOLEAN]
Buffers == [prog : MaybeProgram \cup {"scratch"}, pos : Nat]

LoaderOK ==
    /\ opening \in Openings
    /\ pump \in Pumps
    /\ mbuf \in Buffers
    /\ rec \in Records
    /\ {asset, argv, running, launcher} \subseteq MaybeProgram

Bytes == MaybeProgram \cup {"loop", "scratch"}

MemoryOK ==
    /\ mem \in [Locations -> Bytes]
    /\ saved \in Bytes \cup {"nothing"}
    /\ act = "idle" => saved = "nothing"

TypeOK == FlagsOK /\ PlacesOK /\ LoaderOK /\ MemoryOK

Active == sysState # "stopped"                          \* sys_active
RomActive == romState # "idle"                          \* rom_active
IsLauncher == launcher # None /\ running = launcher     \* proc_is_launcher

(* rom_pump_complete: a record among those read covered the reset vector.  *)
Complete == \E i \in 1..pump.pos : "vec" \in Image[pump.prog][i]

(* The boot ROM, when one is set, is opened by rom_init.                   *)
Init ==
    /\ pc = "task"
    /\ opening = [prog |-> None, why |-> "exec", back |-> "rom"]
    /\ sysState = "stopped" /\ sysBreaking = FALSE
    /\ pending = FALSE /\ high = FALSE
    /\ act = "idle" /\ res = "none" /\ saved = "nothing"
    /\ mem = [l \in Locations |-> None]
    /\ mbuf = Scratch
    /\ scene \in Scenes
    /\ \E boot \in scene.programs \cup {None} :
          /\ romState = IF boot = None THEN "idle" ELSE "loading"
          /\ pump = [prog |-> boot, pos |-> 0, open |-> boot # None]
          /\ argv = boot
    /\ rec = {"ram"} /\ asset = None
    /\ running = None /\ launcher = None
    /\ line = "none" /\ resp = "none" /\ needsBreak = FALSE
    /\ ram = "idle" /\ fil = FALSE /\ chunk = "none" /\ client = "rom"
    /\ enumerating = TRUE /\ faults \in BOOLEAN

---------------------------------------------------------------------------
(* sys.c and resb.c.                                                       *)
SysStop ==
    /\ sysState' = IF sysState \in {"starting", "stopped"} THEN "stopped"
                   ELSE "stopping"
    /\ pending' = FALSE
    /\ high' = FALSE

SysRun == sysState' = IF sysState = "stopped" THEN "starting" ELSE sysState

---------------------------------------------------------------------------
(* The task column, which a walk runs and a blocked file operation re-runs.*)
InTasks == pc \in Blocked \cup {"task"}

\* mutant: Ctrl-Alt-Del leaves the launcher registered
BreakKeepsLauncher ==
    /\ InTasks
    /\ sysBreaking' = TRUE
    /\ SysStop
    /\ UNCHANGED <<pc, opening, ria, rom, proc, mon, cmds, env>>

(* Ctrl-Alt-Del or a UART break: sys_break.                                *)
UserBreak ==
    /\ InTasks
    /\ launcher' = None
    /\ sysBreaking' = TRUE
    /\ SysStop
    /\ UNCHANGED <<pc, opening, ria, rom, argv, running, mon, cmds, env>>

(* Alt-F4: sys_break_to_launcher.                                          *)
UserBreakToLauncher ==
    /\ InTasks
    /\ sysState = "running"
    /\ ~IsLauncher
    /\ SysStop
    /\ UNCHANGED <<pc, opening, sysBreaking, ria, rom, proc, mon, cmds, env>>

ResbTask ==
    /\ InTasks
    /\ ~high /\ pending
    /\ high' = TRUE
    /\ UNCHANGED <<pc, opening, sysState, sysBreaking, pending, ria, rom, proc, mon,
                   cmds, env>>

EnumerationEnds ==
    /\ InTasks
    /\ enumerating
    /\ enumerating' = FALSE
    /\ UNCHANGED <<faults, scene, pc, opening, sys, ria, rom, proc, mon, cmds>>

(* ria_action_close: the reset vector as it is once the loop is gone.      *)
Restored == IF saved = "nothing" THEN mem ELSE [mem EXCEPT !.vec = saved]

(* ria_action_start, on a memory m: the vector is saved and the loop takes *)
(* its place, and the 6502 is let out of reset.                            *)
ActionStart(m) ==
    /\ saved' = m["vec"]
    /\ mem' = [m EXCEPT !.vec = "loop"]
    /\ pending' = TRUE

(* ria_verify_start, on a memory m and a saved vector v: the registers are *)
(* compared here, RAM by the 6502.                                         *)
VerifyStart(m, v, record, data) ==
    LET differs == "vec" \in record /\ m["vec"] # data IN
    /\ act' = "verify"
    /\ \/ /\ differs \/ "ram" \notin record
          /\ res' = IF differs THEN "failed" ELSE "finished"
          /\ mem' = m /\ saved' = v
          /\ UNCHANGED pending
       \/ /\ ~differs /\ "ram" \in record
          /\ res' = "none"
          /\ ActionStart(m)

RiaTimeout ==
    /\ InTasks
    /\ faults
    /\ act # "idle" /\ res = "none"
    /\ res' = "failed"
    /\ pending' = FALSE /\ high' = FALSE
    /\ UNCHANGED <<pc, opening, sysState, sysBreaking, act, saved, mem, client, rom,
                   proc, mon, cmds, env>>

RiaWritten ==
    /\ InTasks
    /\ act = "write" /\ res = "finished"
    /\ VerifyStart(Restored, "nothing", rec, mbuf.prog)
    /\ UNCHANGED <<pc, opening, sysState, sysBreaking, high, client, rom, proc, mon,
                   cmds, env>>

Ended == act # "idle" /\ res # "none" /\ ~(act = "write" /\ res = "finished")

(* ram_write_done and ram_read_done.                                       *)
RamDone ==
    /\ client = "ram"
    /\ ram' = "idle"
    /\ resp' = IF act = "read" /\ res = "finished" THEN "dump" ELSE resp
    /\ UNCHANGED romState

\* mutant: the callback is told that every write was good
AlwaysWritten ==
    /\ client = "rom"
    /\ romState' = "loading"
    /\ UNCHANGED <<ram, resp>>

\* mutant: a failed write is reported and the load forgotten
ForgetsFailure ==
    /\ client = "rom"
    /\ romState' = IF res = "finished" THEN "loading" ELSE romState
    /\ UNCHANGED <<ram, resp>>

RomWritten ==
    /\ client = "rom"
    /\ romState' = IF res = "finished" THEN "loading" ELSE "idle"
    /\ UNCHANGED <<ram, resp>>

(* The transfer is over: it is closed, and its caller is called back.      *)
RiaDone ==
    /\ InTasks
    /\ Ended
    /\ act' = "idle"
    /\ mem' = Restored
    /\ saved' = "nothing"
    /\ RomWritten \/ RamDone
    /\ UNCHANGED <<pc, opening, sys, res, client, pump, rec, asset, mbuf, proc, line,
                   needsBreak, fil, chunk, env>>

(* ram_task, until PIX has taken what is in extended RAM already.          *)
RamXram ==
    /\ InTasks
    /\ ram = "xram"
    /\ ram' = "idle"
    /\ UNCHANGED <<pc, opening, sys, ria, rom, proc, mon, fil, chunk, env>>

Tasks ==
    \/ UserBreak \/ UserBreakToLauncher \/ ResbTask \/ EnumerationEnds
    \/ RiaTimeout \/ RiaWritten \/ RiaDone \/ RamXram

---------------------------------------------------------------------------
(* Core 1: act_loop, while the 6502 runs.                                  *)
ActionEnd(result) ==
    /\ pending' = FALSE /\ high' = FALSE
    /\ res' = result

BusWrite ==
    /\ high /\ act = "write" /\ res = "none"
    /\ mem' = [mem EXCEPT !.ram = mbuf.prog]
    /\ ActionEnd("finished")
    /\ UNCHANGED <<pc, opening, sysState, sysBreaking, act, saved, client, rom, proc,
                   mon, cmds, env>>

BusVerify ==
    /\ high /\ act = "verify" /\ res = "none"
    /\ ActionEnd(IF mem["ram"] = mbuf.prog THEN "finished" ELSE "failed")
    /\ UNCHANGED <<pc, opening, sysState, sysBreaking, act, saved, mem, client, rom,
                   proc, mon, cmds, env>>

\* What it reads goes to mbuf, which held nothing of a program.
BusRead ==
    /\ high /\ act = "read" /\ res = "none"
    /\ ActionEnd("finished")
    /\ UNCHANGED <<pc, opening, sysState, sysBreaking, act, saved, mem, client, rom,
                   proc, mon, cmds, env>>

Exit ==
    /\ high /\ act = "idle"
    /\ SysStop
    /\ UNCHANGED <<pc, opening, sysBreaking, ria, rom, proc, mon, cmds, env>>

Core1 == BusWrite \/ BusVerify \/ BusRead \/ Exit

---------------------------------------------------------------------------
(* Opening a ROM.  There is one descriptor to read ROMs with, so whoever   *)
(* has it loses it first: rom_assets_reset and rom_pump_close.             *)
Open(p, why, back) ==
    /\ asset' = None
    /\ pump' = [pump EXCEPT !.open = FALSE]
    /\ opening' = [prog |-> p, why |-> why, back |-> back]
    /\ pc' = "open"

(* rom_exec: a path that does not resolve leaves the loader as it was.     *)
RomExec(p, back) ==
    /\ \/ Open(p, "exec", back)
       \/ /\ faults
          /\ pc' = back
          /\ UNCHANGED <<opening, pump, asset>>
    /\ UNCHANGED <<romState, rec, mbuf>>

(* rom_load_argv: arguments that do not parse leave argv empty.            *)
RomLoadArgv(p, back) ==
    \/ argv' = p /\ RomExec(p, back)
    \/ /\ faults
       /\ argv' = None
       /\ pc' = back
       /\ UNCHANGED <<opening, rom>>

OpenSucceeds ==
    LET fresh == [prog |-> opening.prog, pos |-> 0, open |-> TRUE] IN
    /\ pc = "open"
    /\ pc' = opening.back
    /\ mbuf' = Scratch
    /\ \/ /\ opening.why = "exec"
          /\ romState' = "loading"
          /\ pump' = fresh
          /\ UNCHANGED <<asset, resp>>
       \/ /\ opening.why = "info"
          /\ romState' = "helping"
          /\ asset' = opening.prog
          /\ pump' = [fresh EXCEPT !.open = FALSE]
          /\ resp' = "help"
       \/ /\ opening.why = "install"
          /\ pump' = [fresh EXCEPT !.open = FALSE]
          /\ UNCHANGED <<romState, asset, resp>>
    /\ UNCHANGED <<opening, sys, ria, rec, proc, line, needsBreak, cmds, env>>

(* No such file leaves the closed pump's fields; a bad header clears them. *)
OpenFails ==
    /\ pc = "open"
    /\ faults
    /\ pc' = opening.back
    /\ \/ UNCHANGED <<pump, mbuf>>
       \/ /\ pump' = [prog |-> opening.prog, pos |-> 0, open |-> FALSE]
          /\ mbuf' = Scratch
    /\ UNCHANGED <<opening, sys, ria, romState, rec, asset, proc, mon, cmds, env>>

---------------------------------------------------------------------------
(* The io column.  mon_task steps only while no 6502 code runs.            *)
MonGate == ~Active /\ ~pending

MonBreaks ==
    /\ pc = "mon" /\ pc' = "mbuf"
    /\ MonGate /\ needsBreak
    /\ needsBreak' = FALSE
    /\ resp' = "none"
    /\ romState' = IF resp = "help" THEN "idle" ELSE romState
    /\ UNCHANGED <<opening, sys, ria, pump, rec, asset, mbuf, proc, line, cmds, env>>

HelpEnds ==
    /\ pc = "mon" /\ pc' = "mbuf"
    /\ MonGate /\ ~needsBreak /\ resp = "help"
    /\ resp' = "none"
    /\ romState' = "idle"
    /\ UNCHANGED <<opening, sys, ria, pump, rec, asset, mbuf, proc, line, needsBreak,
                   cmds, env>>

(* ria_read_buf for a row of a dump: the registers are read here, RAM by   *)
(* the 6502.                                                               *)
RiaReadBuf(record) ==
    /\ act' = "read"
    /\ client' = "ram" /\ ram' = "ria"
    /\ mbuf' = Scratch
    /\ \/ /\ "ram" \in record
          /\ res' = "none"
          /\ ActionStart(mem)
       \/ /\ "ram" \notin record
          /\ res' = "finished"
          /\ UNCHANGED <<saved, mem, pending>>

(* ram_print_response prints a row, and it is the last, or the next is     *)
(* read; rows of extended RAM are printed from there.                      *)
DumpRow ==
    /\ pc = "mon" /\ pc' = "mbuf"
    /\ MonGate /\ ~needsBreak /\ resp = "dump"
    /\ resp' = "none"
    /\ UNCHANGED <<opening, sysState, sysBreaking, high, romState, pump, rec, asset,
                   proc, line, needsBreak, fil, chunk, env>>

DumpReads == DumpRow /\ \E record \in Records \ {{"xram"}} : RiaReadBuf(record)

DumpEnds == DumpRow /\ UNCHANGED <<ria, ram, mbuf, pending>>

Resting == ~RomActive /\ ~enumerating /\ ram = "idle" /\ ~fil

MonPrompts ==
    /\ pc = "mon" /\ pc' = "mbuf"
    /\ MonGate /\ ~needsBreak /\ resp = "none" /\ Resting
    /\ line' = "mon"
    /\ UNCHANGED <<opening, sys, ria, rom, proc, resp, needsBreak, cmds, env>>

(* Nothing to do, or a page is shown and more is to come.                  *)
MonIdles ==
    /\ pc = "mon" /\ pc' = "mbuf"
    /\ ~(MonGate /\ needsBreak)
    /\ MonGate /\ resp = "help" => asset # None
    /\ ~(MonGate /\ resp = "none" /\ Resting)
    /\ UNCHANGED <<opening, sys, ria, rom, proc, mon, cmds, env>>

MonTask == MonBreaks \/ HelpEnds \/ DumpReads \/ DumpEnds \/ MonPrompts \/ MonIdles

(* ria_write_buf: the part above $FFF9 is stored at once.                  *)
RiaWriteBuf(record, data, who) ==
    LET m == IF "vec" \in record THEN [mem EXCEPT !.vec = data] ELSE mem IN
    /\ client' = who
    /\ \/ /\ "ram" \notin record
          /\ VerifyStart(m, saved, record, data)
       \/ /\ "ram" \in record
          /\ act' = "write"
          /\ res' = "none"
          /\ ActionStart(m)

(* What the user's bytes are written to, when they came in mbuf.           *)
RamWrites(record) ==
    /\ rec' = record
    /\ ram' = "ria"
    /\ RiaWriteBuf(record, "scratch", "ram")

(* mbuf_task: ram_rx_mbuf or fil_upload_rx_mbuf is called back.            *)
MbufDone ==
    /\ pc = "mbuf" /\ pc' = "rln"
    /\ chunk' = "none"
    /\ mbuf' = Scratch
    /\ UNCHANGED <<opening, sysState, sysBreaking, high, romState, pump, asset, proc,
                   resp, needsBreak, env>>

RamReceives ==
    /\ MbufDone /\ chunk = "ram"
    /\ \/ \E record \in Records \ {{"xram"}} : RamWrites(record)
       \/ /\ ram' = "xram"
          /\ mem' = [mem EXCEPT !.xram = "scratch"]
          /\ UNCHANGED <<act, res, saved, client, rec, pending>>
    /\ UNCHANGED <<line, fil>>

UploadReceives ==
    /\ MbufDone /\ chunk = "fil"
    /\ line' = "fil"
    /\ UNCHANGED <<ria, rec, pending, ram, fil>>

(* The sender fell silent, or what it sent does not have the CRC.          *)
ReceiveFails ==
    /\ MbufDone /\ chunk # "none"
    /\ ram' = IF chunk = "ram" THEN "idle" ELSE ram
    /\ fil' = (fil /\ chunk # "fil")
    /\ UNCHANGED <<ria, rec, pending, line>>

MbufIdles ==
    /\ pc = "mbuf" /\ pc' = "rln"
    /\ UNCHANGED <<opening, sys, ria, rom, proc, mon, cmds, env>>

MbufTask == RamReceives \/ UploadReceives \/ ReceiveFails \/ MbufIdles

(* rln_task calls mon_enter with a finished line.                          *)
MonLine ==
    /\ pc = "rln"
    /\ line = "mon"
    /\ TypesOverTaps \/ ~(Active \/ RomActive)

MonEnter ==
    /\ MonLine
    /\ line' = "none"
    /\ UNCHANGED <<needsBreak, sysBreaking, high, running, launcher, env>>

MonLoad ==
    /\ MonEnter
    /\ \E p \in scene.programs : RomLoadArgv(p, "rom")
    /\ UNCHANGED <<sysState, pending, ria, resp, cmds>>

MonInfo ==
    /\ MonEnter
    /\ \E p \in scene.programs, why \in {"info", "install"} : Open(p, why, "rom")
    /\ UNCHANGED <<sysState, pending, ria, romState, rec, mbuf, argv, resp, cmds>>

MonReset ==
    /\ MonEnter
    /\ argv' = None
    /\ SysRun
    /\ pc' = "rom"
    /\ UNCHANGED <<opening, pending, ria, rom, resp, cmds>>

(* ram_mon_address: a dump, or bytes in hex.                               *)
MonAddress ==
    /\ MonEnter
    /\ pc' = "rom"
    /\ \/ /\ "dump" \in scene.commands
          /\ \/ /\ \E record \in Records \ {{"xram"}} : RiaReadBuf(record)
                /\ UNCHANGED <<rec, resp>>
             \/ /\ resp' = "dump"
                /\ UNCHANGED <<ria, ram, rec, mbuf, pending>>
       \/ /\ "hex" \in scene.commands
          /\ mbuf' = Scratch
          /\ \/ \E record \in Records \ {{"xram"}} : RamWrites(record)
             \/ /\ mem' = [mem EXCEPT !.xram = "scratch"]
                /\ UNCHANGED <<act, res, saved, client, ram, rec, pending>>
          /\ UNCHANGED resp
    /\ UNCHANGED <<opening, sysState, romState, pump, asset, argv, fil, chunk>>

MonBinary ==
    /\ MonEnter
    /\ pc' = "rom"
    /\ "binary" \in scene.commands
    /\ ram' = "binary" /\ chunk' = "ram"
    /\ mbuf' = Scratch
    /\ UNCHANGED <<opening, sysState, pending, ria, romState, pump, rec, asset, argv,
                   resp, fil>>

MonUpload ==
    /\ MonLine
    /\ pc' = "rom"
    /\ "upload" \in scene.commands
    /\ fil' = TRUE /\ line' = "fil"
    /\ UNCHANGED <<opening, sys, ria, rom, proc, resp, needsBreak, ram, chunk, env>>

(* fil_upload_dispatch: the size of a chunk, or the end, or silence.       *)
UploadLine ==
    /\ pc = "rln" /\ pc' = "rom"
    /\ line = "fil"
    /\ line' = "none"
    /\ UNCHANGED <<opening, sys, ria, rom, proc, resp, needsBreak, ram, env>>

UploadSays == UploadLine /\ chunk' = "fil" /\ UNCHANGED fil

UploadEnds == UploadLine /\ fil' = FALSE /\ UNCHANGED chunk

(* The line is still being typed, or the command was something else.       *)
RlnIdles ==
    /\ pc = "rln" /\ pc' = "rom"
    /\ UNCHANGED <<opening, sys, ria, rom, proc, mon, cmds, env>>

RlnTask ==
    \/ MonLoad \/ MonInfo \/ MonReset \/ MonAddress \/ MonBinary \/ MonUpload
    \/ UploadSays \/ UploadEnds \/ RlnIdles

(* rom_task.                                                               *)
RomCloses ==
    /\ pc = "rom" /\ pc' = "nfc"
    /\ romState = "idle"
    /\ pump' = [pump EXCEPT !.open = FALSE]
    /\ asset' = None
    /\ UNCHANGED <<opening, sys, ria, romState, rec, mbuf, proc, mon, cmds, env>>

\* mutant: rom_task reads on while a transfer is in flight
ReadsOverTransfer ==
    \/ /\ pc = "rom" /\ pc' = "nfc"
       /\ romState \in {"helping", "running"}
       /\ UNCHANGED <<opening, sys, ria, rom, proc, mon, cmds, env>>
    \/ /\ pc = "rom" /\ pc' = "read"
       /\ romState = "riaWriting"
       /\ UNCHANGED <<opening, sys, ria, rom, proc, mon, cmds, env>>

RomWaits ==
    /\ pc = "rom" /\ pc' = "nfc"
    /\ romState \in {"helping", "running", "riaWriting"}
    /\ UNCHANGED <<opening, sys, ria, rom, proc, mon, cmds, env>>

(* rom_xram_done takes as many passes as the PIX bus needs.                *)
RomXram ==
    /\ pc = "rom" /\ pc' = "nfc"
    /\ romState = "xramWriting"
    /\ mem' = [mem EXCEPT !.xram = mbuf.prog]
    /\ romState' = "loading"
    /\ UNCHANGED <<opening, sys, act, res, saved, client, pump, rec, asset, mbuf, proc,
                   mon, cmds, env>>

RomReads ==
    /\ pc = "rom" /\ pc' = "read"
    /\ romState = "loading"
    /\ UNCHANGED <<opening, sys, ria, rom, proc, mon, cmds, env>>

ReadRecord ==
    /\ pc = "read" /\ pc' = "nfc"
    /\ pump.open
    /\ pump.pos < Len(Image[pump.prog])
    /\ LET record == Image[pump.prog][pump.pos + 1] IN
          /\ pump' = [pump EXCEPT !.pos = @ + 1]
          /\ rec' = record
          /\ mbuf' = [prog |-> pump.prog, pos |-> pump.pos + 1]
          /\ \/ /\ record = {"xram"}
                /\ romState' = "xramWriting"
                /\ UNCHANGED <<ria, pending>>
             \/ /\ record # {"xram"}
                /\ romState' = "riaWriting"
                /\ RiaWriteBuf(record, pump.prog, "rom")
    /\ UNCHANGED <<opening, sysState, sysBreaking, high, asset, proc, mon, cmds, env>>

(* The end of a packed image is known; a classic image's is wherever no    *)
(* further line can be read.                                               *)
AtEnd ==
    \/ pump.pos = Len(Image[pump.prog])
    \/ pump.prog \notin Packed /\ (~pump.open \/ faults)

ReadEof ==
    /\ pc = "read" /\ pc' = "nfc"
    /\ pump.prog # None
    /\ AtEnd
    /\ \/ /\ Complete /\ enumerating
          /\ UNCHANGED <<romState, pump, asset, sysState>>
       \/ /\ Complete /\ ~enumerating
          /\ asset' = IF pump.open THEN pump.prog ELSE None
          /\ pump' = [pump EXCEPT !.open = FALSE]
          /\ romState' = "running"
          /\ SysRun
       \/ /\ ~Complete
          /\ romState' = "idle"
          /\ UNCHANGED <<pump, asset, sysState>>
    /\ UNCHANGED <<opening, sysBreaking, pending, high, ria, rec, mbuf, proc, mon,
                   cmds, env>>

ReadFails ==
    /\ pc = "read" /\ pc' = "nfc"
    /\ ~pump.open \/ faults
    /\ romState' = "idle"
    /\ mbuf' = Scratch
    /\ UNCHANGED <<opening, sys, ria, pump, rec, asset, proc, mon, cmds, env>>

RomTask ==
    \/ RomCloses \/ RomWaits \/ RomXram \/ RomReads
    \/ ReadRecord \/ ReadEof \/ ReadFails

(* proc_nfc: a tag that names another program than the running one.        *)
LoadInFlight == RomActive /\ ~(romState = "running" /\ sysState # "starting")
Commanded == ram # "idle" \/ fil \/ resp = "dump"

NfcTap ==
    /\ pc = "nfc"
    /\ TapsOverLoads \/ ~LoadInFlight
    /\ TypesOverTaps \/ ~Commanded
    /\ \E p \in scene.programs \ {running} : RomLoadArgv(p, "api")
    /\ SysStop
    /\ UNCHANGED <<sysBreaking, ria, running, launcher, mon, cmds, env>>

NfcIdles ==
    /\ pc = "nfc" /\ pc' = "api"
    /\ UNCHANGED <<opening, sys, ria, rom, proc, mon, cmds, env>>

(* api_task latches an op only while the machine runs.                     *)
ApiCalled == pc = "api" /\ sysState = "running" /\ high

\* mutant: exec loads over the program that asked for it
ExecWithoutStop ==
    /\ ApiCalled
    /\ \E p \in scene.programs :
          /\ argv' = p
          /\ RomExec(p, "commit")
    /\ UNCHANGED <<sys, ria, running, launcher, mon, cmds, env>>

ApiExec ==
    /\ ApiCalled
    /\ \/ /\ \E p \in scene.programs :
                /\ argv' = p
                /\ RomExec(p, "commit")
          /\ SysStop
       \/ /\ faults                         \* the argv is refused
          /\ argv' = None
          /\ pc' = "commit"
          /\ UNCHANGED <<opening, rom, sysState, pending, high>>
    /\ UNCHANGED <<sysBreaking, ria, running, launcher, mon, cmds, env>>

ApiSetLauncher ==
    /\ ApiCalled /\ pc' = "commit"
    /\ launcher' \in {running, None}
    /\ UNCHANGED <<opening, sys, ria, rom, argv, running, mon, cmds, env>>

(* A read of stdin takes the line editor for the program.                  *)
ApiReadsLine ==
    /\ ApiCalled /\ pc' = "commit"
    /\ line' = "none"
    /\ UNCHANGED <<opening, sys, ria, rom, proc, resp, needsBreak, cmds, env>>

ApiIdles ==
    /\ pc = "api" /\ pc' = "commit"
    /\ UNCHANGED <<opening, sys, ria, rom, proc, mon, cmds, env>>

IoTasks ==
    \/ MonTask \/ MbufTask \/ RlnTask \/ RomTask \/ NfcTap \/ NfcIdles
    \/ ApiExec \/ ApiSetLauncher \/ ApiReadsLine \/ ApiIdles

---------------------------------------------------------------------------
(* sys_commit.  A break first re-derives the stop it implies.              *)
CommitBreaking ==
    /\ pc = "commit" /\ pc' = "run"
    /\ \/ sysBreaking /\ SysStop
       \/ ~sysBreaking /\ UNCHANGED <<sysState, pending, high>>
    /\ UNCHANGED <<opening, sysBreaking, ria, rom, proc, mon, cmds, env>>

(* proc_run, and RESB is released.                                         *)
CommitRun ==
    /\ pc = "run" /\ pc' = "break"
    /\ sysState = "starting"
    /\ sysState' = "running"
    /\ running' = argv
    /\ pending' = TRUE
    /\ UNCHANGED <<opening, sysBreaking, high, ria, rom, argv, launcher, mon, cmds, env>>

\* mutant: proc_stop runs before rom_stop, and takes the stopped program for
\* a load in flight
ProcStopFirst ==
    /\ pc = "run" /\ pc' = "stopEnd"
    /\ sysState = "stopping"
    /\ running' = None
    /\ line' = "none"
    /\ romState' = IF romState = "running" THEN "idle" ELSE romState
    /\ UNCHANGED <<opening, sys, ria, pump, rec, asset, mbuf, argv, launcher, resp,
                   needsBreak, cmds, env>>

\* mutant: the relaunch keeps the arguments of the program that stopped
RelaunchKeepsArgv ==
    LET inflight == romState \notin {"idle", "running"}
        relaunch == ~inflight /\ ~IsLauncher /\ launcher # None
    IN
    /\ pc = "run"
    /\ sysState = "stopping"
    /\ running' = None
    /\ line' = "none"
    /\ romState' = IF romState = "running" THEN "idle" ELSE romState
    /\ \/ /\ relaunch
          /\ Open(launcher, "exec", "stopEnd")
          /\ UNCHANGED launcher
       \/ /\ ~relaunch
          /\ launcher' = IF inflight THEN launcher ELSE None
          /\ pc' = "stopEnd"
          /\ UNCHANGED <<opening, pump, asset>>
    /\ UNCHANGED <<sys, ria, rec, mbuf, argv, resp, needsBreak, cmds, env>>

(* The stop fan-out, in reverse driver order: rom_stop, rln_stop, then     *)
(* proc_stop, which relaunches the launcher unless a load is in flight.    *)
CommitStop ==
    LET inflight == romState \notin {"idle", "running"}
        relaunch == ~inflight /\ ~IsLauncher /\ launcher # None
        romStop == IF romState = "running" THEN "idle" ELSE romState
    IN
    /\ pc = "run"
    /\ sysState = "stopping"
    /\ running' = None
    /\ line' = "none"
    /\ romState' = romStop
    /\ \/ /\ relaunch
          /\ argv' = launcher
          /\ \/ Open(launcher, "exec", "stopEnd")
             \/ /\ faults
                /\ pc' = "stopEnd"
                /\ UNCHANGED <<opening, pump, asset>>
          /\ UNCHANGED launcher
       \/ /\ ~relaunch
          /\ launcher' = IF inflight THEN launcher ELSE None
          /\ pc' = "stopEnd"
          /\ UNCHANGED <<opening, argv, pump, asset>>
    /\ UNCHANGED <<sys, ria, rec, mbuf, resp, needsBreak, cmds, env>>

CommitNothing ==
    /\ pc = "run" /\ pc' = "break"
    /\ sysState \in {"stopped", "running"}
    /\ UNCHANGED <<opening, sys, ria, rom, proc, mon, cmds, env>>

(* mon_stop comes last; it breaks a page of help that waits for a key.     *)
StopEnds ==
    /\ pc = "stopEnd" /\ pc' = "break"
    /\ sysState' = "stopped"
    /\ needsBreak' \in IF resp # "none" THEN BOOLEAN ELSE {needsBreak}
    /\ UNCHANGED <<opening, sysBreaking, pending, high, ria, rom, proc, line, resp,
                   cmds, env>>

\* mutant: mbuf has no break hook
BreakKeepsMbuf ==
    /\ pc = "break" /\ pc' = "task"
    /\ sysBreaking
    /\ sysBreaking' = FALSE
    /\ romState' = "idle"
    /\ act' = "idle"
    /\ mem' = Restored
    /\ saved' = "nothing"
    /\ line' = "none"
    /\ needsBreak' = TRUE
    /\ ram' = "idle" /\ fil' = FALSE
    /\ UNCHANGED <<opening, sysState, pending, high, res, client, pump, rec, asset,
                   mbuf, proc, resp, chunk, env>>

(* The break fan-out: rom_break, ram_break, rln_break, fil_break,          *)
(* mbuf_break, ria_break, mon_break.                                       *)
CommitBreak ==
    /\ pc = "break" /\ pc' = "task"
    /\ sysBreaking
    /\ sysBreaking' = FALSE
    /\ romState' = "idle"
    /\ act' = "idle"
    /\ mem' = Restored
    /\ saved' = "nothing"
    /\ line' = "none"
    /\ needsBreak' = TRUE
    /\ ram' = "idle" /\ fil' = FALSE /\ chunk' = "none"
    /\ UNCHANGED <<opening, sysState, pending, high, res, client, pump, rec, asset,
                   mbuf, proc, resp, env>>

CommitEnds ==
    /\ pc = "break" /\ pc' = "task"
    /\ ~sysBreaking
    /\ UNCHANGED <<opening, sys, ria, rom, proc, mon, cmds, env>>

Commit ==
    \/ CommitBreaking \/ CommitRun \/ CommitStop \/ CommitNothing
    \/ StopEnds \/ CommitBreak \/ CommitEnds

WalkEnds ==
    /\ pc = "task" /\ pc' = "mon"
    /\ UNCHANGED <<opening, sys, ria, rom, proc, mon, cmds, env>>

Core0 == WalkEnds \/ OpenSucceeds \/ OpenFails \/ IoTasks \/ Commit

Next == Tasks \/ Core1 \/ Core0

Spec == Init /\ [][Next]_vars

(* Core 0's loop never stops, and the tasks that end a load are run in     *)
(* every walk; core 1 and the 6502 keep running.  A boot enumeration ends  *)
(* at its deadline, and a page of help or a dump is read to its end; a     *)
(* sender falls silent in the end.                                         *)
Fairness ==
    /\ WF_vars(Core0)
    /\ WF_vars(BusWrite \/ BusVerify \/ BusRead)
    /\ SF_vars(OpenSucceeds \/ OpenFails)
    /\ SF_vars(ResbTask) /\ SF_vars(EnumerationEnds)
    /\ SF_vars(RiaWritten \/ RiaDone \/ RamXram)
    /\ SF_vars(HelpEnds \/ DumpEnds \/ UploadEnds \/ ReceiveFails)

FairSpec == Spec /\ Fairness

---------------------------------------------------------------------------
(* A transfer takes the 6502 over by resetting it into a loop, so none may *)
(* be open while a program runs or is about to (the assertions in          *)
(* ria_write_buf and ria_read_buf), whoever asked for it: the loader, or a *)
(* command, or bytes that come in after their command was broken off; and  *)
(* rom_task reads no record of a new program before sys_commit has stopped *)
(* the old one (why drivers.h lists ROM before NFC and API).               *)
TransferWhileStopped == act # "idle" \/ pc = "read" => sysState = "stopped"

(* A packed program starts with every byte of its image in place, whatever *)
(* was loaded, broken off or timed out before, and though mbuf, which each *)
(* record passes through, belongs to every monitor command in turn;        *)
(* proc_running names it, and ROM: opens are on its own file.              *)
RunsItsImage ==
    sysState \in {"starting", "running"} /\ romState = "running" =>
        /\ pump.prog \in Packed =>
               \A i \in 1..Len(Image[pump.prog]) :
                   \A l \in Image[pump.prog][i] : mem[l] = pump.prog
        /\ sysState = "running" => running = pump.prog /\ asset = running

(* After a break nothing runs, loads, receives or is about to: the chain   *)
(* of launchers and every command is over, whatever was being opened,      *)
(* relaunched, transferred or sent when the key was pressed.               *)
BreakEndsChain ==
    [][sysBreaking /\ ~sysBreaking' =>
          /\ sysState' = "stopped" /\ running' = None
          /\ romState' = "idle" /\ act' = "idle"
          /\ launcher' = None /\ ram' = "idle" /\ ~fil' /\ chunk' = "none"]_vars

(* A stopped machine comes back, to a program or to the monitor's prompt,  *)
(* and so it does from a command, unless the user keeps breaking or taps   *)
(* damaged tags for ever: no load, transfer or sender, whatever fails in   *)
(* it, is waited for without end.                                          *)
PromptComesBack ==
    <>[][~(pc = "nfc" /\ pc' = "open")]_vars =>
        (sysState = "stopping" \/ Commanded
            ~> sysState = "running" \/ line = "mon" \/ sysBreaking)

(* When every file is sound, a program that leaves a launcher behind is    *)
(* followed by a program, unless the user breaks the chain.                *)
LauncherComesBack ==
    ~faults /\ sysState = "stopping" /\ launcher # None /\ running # launcher
        ~> sysState = "running" \/ launcher = None
============================================================================
