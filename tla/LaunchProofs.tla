--------------------------- MODULE LaunchProofs ---------------------------
(***************************************************************************)
(* Proofs about Launch for any programs, images and scenes.  What a break  *)
(* ends is proved of every environment; that transfers keep out of a       *)
(* running program's way, and that a program's image is in place when it   *)
(* starts, where tags and typed lines leave a load or a command alone.     *)
(***************************************************************************)
EXTENDS Launch, TLAPS

(* Whatever is opened or read is a program.                                *)
ReadInv ==
    /\ pc = "open" => opening.prog \in Programs
    /\ RomActive \/ pc = "read" \/ (act # "idle" /\ client = "rom") =>
          pump.prog \in Programs

(* A machine that is down has no program, and no break can be owed to one  *)
(* that is up when the break hooks run.                                    *)
Stopping == pc = "stopEnd" \/ (pc = "open" /\ opening.back = "stopEnd")

BreakInv ==
    /\ sysState \in {"stopped", "starting"} => running = None
    /\ Stopping => sysState = "stopping" /\ running = None
    /\ sysBreaking => sysState # "running" /\ launcher = None
    /\ sysBreaking /\ pc \in {"run", "break"} => sysState # "starting"
    /\ sysBreaking /\ pc = "break" => sysState = "stopped"

(* The invariant of every environment.                                     *)
AnyInv == TypeOK /\ ReadInv /\ BreakInv

(* The line is let go for a program, or for a transfer that is not over.   *)
LineInv ==
    /\ high => pending
    /\ pending => sysState = "running" \/ (act # "idle" /\ res = "none")
    /\ sysBreaking /\ pc \in {"run", "break"} => ~pending

(* The monitor's commands with memory exclude each other, a prompt, a load *)
(* and a program.                                                          *)
CommandInv ==
    /\ line = "mon" => ~Commanded /\ resp = "none" /\ chunk = "none"
    /\ line = "fil" => fil /\ chunk = "none"
    /\ chunk = "ram" => ram = "binary"
    /\ chunk = "fil" => fil
    /\ fil => ram = "idle"
    /\ resp = "dump" => ram = "idle" /\ ~fil
    /\ Commanded => sysState = "stopped" /\ ~RomActive /\ pc # "open"
    /\ resp = "help" =>
          /\ sysState = "stopped" /\ pc # "open"
          /\ \/ romState = "helping"
             \/ /\ needsBreak /\ ~RomActive /\ ~pending /\ act = "idle"
                /\ pc \in {"task", "mon"}

(* A transfer is the loader's or a command's, on a machine that is down.   *)
TransferInv ==
    /\ act # "idle" =>
          /\ sysState = "stopped"
          /\ client = "rom" => romState = "riaWriting"
          /\ client = "ram" => ram = "ria"
    /\ romState = "riaWriting" => act # "idle" /\ client = "rom"

(* A load goes on while the machine is down, or from the tap, the exec or  *)
(* the stop that began it until the stop is done.                          *)
LoadInv ==
    /\ romState \notin {"idle", "running"} =>
          \/ sysState = "stopped"
          \/ /\ sysState = "stopping" /\ romState = "loading"
             /\ pc \in {"api", "commit", "run", "stopEnd"}
    /\ pc = "read" => romState = "loading"
    /\ pc = "open" =>
          /\ romState \in {"idle", "running"}
          /\ sysState \in {"stopping", "stopped"}
          /\ opening.back \in {"rom", "api", "commit", "stopEnd"}
          /\ opening.back = "rom" => sysState = "stopped" /\ line = "none"
          /\ opening.why # "exec" => opening.back = "rom"

(* The environment that leaves loads and commands alone: no tag over a     *)
(* load, no tag over a command, and no typed line over a tag's program.    *)
Orderly == ~TapsOverLoads /\ ~TypesOverTaps

ControlInv == LineInv /\ CommandInv /\ TransferInv /\ LoadInv

(* The records read so far are in place, but for the one that is being     *)
(* written, of which a verify has seen what is in the registers.           *)
Loads == {"loading", "xramWriting", "riaWriting"}
Placed(m, p, k) == \A i \in 1..k : \A l \in Image[p][i] : m[l] = p

PumpInv ==
    /\ romState \in Loads =>
          /\ pump.open /\ pump.prog \in Programs /\ argv = pump.prog
          /\ pump.pos <= Len(Image[pump.prog])
    /\ pc = "open" /\ opening.why = "exec" =>
          opening.prog \in Programs /\ argv = opening.prog

WriteInv ==
    /\ romState = "loading" => Placed(Restored, pump.prog, pump.pos)
    /\ romState \in {"xramWriting", "riaWriting"} =>
          /\ pump.pos > 0 /\ mbuf.prog = pump.prog
          /\ Placed(Restored, pump.prog, pump.pos - 1)
    /\ romState = "xramWriting" => Image[pump.prog][pump.pos] = {"xram"}
    /\ romState = "riaWriting" =>
          /\ rec = Image[pump.prog][pump.pos] /\ rec # {"xram"}
          /\ act \in {"write", "verify"}
          /\ act = "verify" =>
                /\ "vec" \in rec /\ res # "failed" => Restored["vec"] = pump.prog
                /\ "ram" \in rec /\ res = "finished" => mem["ram"] = pump.prog

RunInv ==
    romState = "running" /\ sysState \in {"starting", "running"} =>
        /\ pump.prog \in Programs /\ asset = pump.prog
        /\ pump.prog \in Packed => Placed(Restored, pump.prog, Len(Image[pump.prog]))
        /\ sysState = "starting" => argv = pump.prog
        /\ sysState = "running" => running = pump.prog

ImageInv == PumpInv /\ WriteInv /\ RunInv

OrderlyInv == AnyInv /\ ControlInv /\ ImageInv

Mem == [Locations -> Bytes]

USE LaunchAssumption DEF sys, ria, rom, proc, mon, cmds, env, InTasks

----------------------------------------------------------------------------
(* The flags keep their type.                                              *)
LEMMA FlagsStep ==
    ASSUME TypeOK, [Next]_vars
    PROVE  FlagsOK'
<1> USE DEF TypeOK, FlagsOK
<1>1. CASE UserBreak \/ UserBreakToLauncher \/ ResbTask \/ EnumerationEnds
  BY <1>1 DEF UserBreak, SysStop, UserBreakToLauncher, IsLauncher, ResbTask,
     EnumerationEnds
<1>2. CASE RiaTimeout \/ RiaWritten \/ RiaDone \/ RamXram
  BY <1>2 DEF RiaTimeout, RiaWritten, VerifyStart, ActionStart, Restored, RiaDone,
     RomWritten, RamDone, Ended, RamXram
<1>3. CASE BusWrite \/ BusVerify \/ BusRead \/ Exit
  BY <1>3 DEF BusWrite, ActionEnd, BusVerify, BusRead, Exit, SysStop
<1>4. CASE WalkEnds \/ MonBreaks \/ HelpEnds \/ DumpReads \/ DumpEnds
            \/ MonPrompts \/ MonIdles
  BY <1>4 DEF WalkEnds, MonBreaks, HelpEnds, DumpReads, DumpRow, RiaReadBuf,
     ActionStart, DumpEnds, MonPrompts, Resting, MonIdles
<1>5. CASE OpenSucceeds \/ OpenFails
  BY <1>5 DEF OpenSucceeds, OpenFails
<1>6. CASE RamReceives \/ UploadReceives \/ ReceiveFails \/ MbufIdles
  BY <1>6 DEF RamReceives, MbufDone, RamWrites, RiaWriteBuf, VerifyStart,
     ActionStart, UploadReceives, ReceiveFails, MbufIdles
<1>7. CASE MonLoad \/ MonInfo
  BY <1>7 DEF MonLoad, MonEnter, MonLine, RomLoadArgv, RomExec, Open, MonInfo
<1>8. CASE MonReset \/ MonAddress \/ MonBinary \/ MonUpload
  BY <1>8 DEF MonReset, MonEnter, MonLine, SysRun, MonAddress, RiaReadBuf, RamWrites,
     RiaWriteBuf, VerifyStart, ActionStart, MonBinary, MonUpload
<1>9. CASE UploadSays \/ UploadEnds \/ RlnIdles
  BY <1>9 DEF UploadSays, UploadLine, UploadEnds, RlnIdles
<1>10. CASE RomCloses \/ RomWaits \/ RomXram \/ RomReads
  BY <1>10 DEF RomCloses, RomWaits, RomXram, RomReads
<1>11. CASE ReadRecord
  BY <1>11 DEF ReadRecord, RiaWriteBuf, VerifyStart, ActionStart
<1>12. CASE ReadEof \/ ReadFails
  BY <1>12 DEF ReadEof, SysRun, AtEnd, Complete, ReadFails
<1>13. CASE NfcTap
  BY <1>13 DEF NfcTap, RomLoadArgv, RomExec, Open, SysStop
<1>14. CASE NfcIdles
  BY <1>14 DEF NfcIdles
<1>15. CASE ApiExec
  BY <1>15 DEF ApiExec, ApiCalled, RomExec, Open, SysStop
<1>16. CASE ApiSetLauncher \/ ApiReadsLine \/ ApiIdles
  BY <1>16 DEF ApiSetLauncher, ApiCalled, ApiReadsLine, ApiIdles
<1>17. CASE CommitBreaking
  BY <1>17 DEF CommitBreaking, SysStop
<1>18. CASE CommitRun
  BY <1>18 DEF CommitRun
<1>19. CASE CommitStop
  BY <1>19 DEF CommitStop, IsLauncher, Open
<1>20. CASE CommitNothing \/ StopEnds
  BY <1>20 DEF CommitNothing, StopEnds
<1>21. CASE CommitBreak \/ CommitEnds
  BY <1>21 DEF CommitBreak, Restored, CommitEnds
<1>22. CASE UNCHANGED vars
  BY <1>22 DEF vars
<1> QED
  BY <1>1, <1>2, <1>3, <1>4, <1>5, <1>6, <1>7, <1>8, <1>9, <1>10, <1>11, <1>12,
     <1>13, <1>14, <1>15, <1>16, <1>17, <1>18, <1>19, <1>20, <1>21, <1>22 DEF Next,
     Tasks, Core1, Core0, IoTasks, MonTask, MbufTask, RlnTask, RomTask, Commit

(* Every component keeps to its places.                                    *)
LEMMA PlacesStep ==
    ASSUME TypeOK, [Next]_vars
    PROVE  PlacesOK'
<1> USE DEF TypeOK, PlacesOK, Walk, Blocked
<1>1. CASE UserBreak \/ UserBreakToLauncher \/ ResbTask \/ EnumerationEnds
  BY <1>1 DEF UserBreak, SysStop, UserBreakToLauncher, IsLauncher, ResbTask,
     EnumerationEnds
<1>2. CASE RiaTimeout \/ RiaWritten \/ RiaDone \/ RamXram
  BY <1>2 DEF RiaTimeout, RiaWritten, VerifyStart, ActionStart, Restored, RiaDone,
     RomWritten, RamDone, Ended, RamXram
<1>3. CASE BusWrite \/ BusVerify \/ BusRead \/ Exit
  BY <1>3 DEF BusWrite, ActionEnd, BusVerify, BusRead, Exit, SysStop
<1>4. CASE WalkEnds \/ MonBreaks \/ HelpEnds \/ DumpReads \/ DumpEnds
            \/ MonPrompts \/ MonIdles
  BY <1>4 DEF WalkEnds, MonBreaks, HelpEnds, DumpReads, DumpRow, RiaReadBuf,
     ActionStart, DumpEnds, MonPrompts, Resting, MonIdles
<1>5. CASE RamReceives \/ UploadReceives \/ ReceiveFails \/ MbufIdles
  BY <1>5 DEF RamReceives, MbufDone, RamWrites, RiaWriteBuf, VerifyStart,
     ActionStart, UploadReceives, ReceiveFails, MbufIdles
<1>6. CASE MonLoad \/ MonInfo
  BY <1>6 DEF MonLoad, MonEnter, MonLine, RomLoadArgv, RomExec, Open, MonInfo
<1>7. CASE MonReset \/ MonAddress \/ MonBinary \/ MonUpload
  BY <1>7 DEF MonReset, MonEnter, MonLine, SysRun, MonAddress, RiaReadBuf, RamWrites,
     RiaWriteBuf, VerifyStart, ActionStart, MonBinary, MonUpload
<1>8. CASE UploadSays \/ UploadEnds \/ RlnIdles
  BY <1>8 DEF UploadSays, UploadLine, UploadEnds, RlnIdles
<1>9. CASE RomCloses \/ RomWaits \/ RomXram \/ RomReads
  BY <1>9 DEF RomCloses, RomWaits, RomXram, RomReads
<1>10. CASE ReadRecord
  BY <1>10 DEF ReadRecord, RiaWriteBuf, VerifyStart, ActionStart
<1>11. CASE ReadEof \/ ReadFails
  BY <1>11 DEF ReadEof, SysRun, AtEnd, Complete, ReadFails
<1>12. CASE NfcTap
  BY <1>12 DEF NfcTap, RomLoadArgv, RomExec, Open, SysStop
<1>13. CASE NfcIdles
  BY <1>13 DEF NfcIdles
<1>14. CASE ApiSetLauncher \/ ApiReadsLine \/ ApiIdles
  BY <1>14 DEF ApiSetLauncher, ApiCalled, ApiReadsLine, ApiIdles
<1>15. CASE CommitBreaking
  BY <1>15 DEF CommitBreaking, SysStop
<1>16. CASE CommitRun
  BY <1>16 DEF CommitRun
<1>17. CASE CommitStop
  BY <1>17 DEF CommitStop, IsLauncher, Open
<1>18. CASE CommitNothing \/ StopEnds
  BY <1>18 DEF CommitNothing, StopEnds
<1>19. CASE CommitBreak \/ CommitEnds
  BY <1>19 DEF CommitBreak, Restored, CommitEnds
<1>20. CASE OpenSucceeds
  <2>1. pc' \in Openers
    BY <1>20 DEF OpenSucceeds, LoaderOK, Openings
  <2>2. romState' \in {romState, "loading", "helping"} /\ resp' \in {resp, "help"}
        /\ UNCHANGED <<sysState, act, client, res, line, ram, chunk, scene>>
    BY <1>20 DEF OpenSucceeds
  <2> QED
    BY <2>1, <2>2 DEF Openers
<1>21. CASE OpenFails
  <2>1. pc' \in Openers
    BY <1>21 DEF OpenFails, LoaderOK, Openings
  <2>2. UNCHANGED <<sysState, act, client, res, romState, line, resp, ram, chunk, scene>>
    BY <1>21 DEF OpenFails
  <2> QED
    BY <2>1, <2>2 DEF Openers
<1>22. CASE ApiExec
  <2>1. pc' \in {"open", "commit"} /\ sysState' \in {"stopped", "stopping", sysState}
    BY <1>22 DEF ApiExec, RomExec, Open, SysStop
  <2>2. UNCHANGED <<act, client, res, romState, line, resp, ram, chunk, scene>>
    BY <1>22 DEF ApiExec, RomExec
  <2> QED
    BY <2>1, <2>2
<1>23. CASE UNCHANGED vars
  BY <1>23 DEF vars
<1> QED
  BY <1>1, <1>2, <1>3, <1>4, <1>5, <1>6, <1>7, <1>8, <1>9, <1>10, <1>11, <1>12,
     <1>13, <1>14, <1>15, <1>16, <1>17, <1>18, <1>19, <1>20, <1>21, <1>22,
     <1>23 DEF Next, Tasks, Core1, Core0, IoTasks, MonTask, MbufTask, RlnTask,
     RomTask, Commit

(* What a transfer leaves in memory and saves of it.                       *)
LEMMA ActionStartFacts ==
    ASSUME NEW m \in Mem, ActionStart(m)
    PROVE  mem' \in Mem /\ saved' \in Bytes
BY DEF Mem, ActionStart, Locations, Bytes

LEMMA VerifyStartFacts ==
    ASSUME NEW m \in Mem, NEW v \in Bytes \cup {"nothing"}, NEW record, NEW data,
           VerifyStart(m, v, record, data)
    PROVE  act' = "verify" /\ mem' \in Mem /\ saved' \in Bytes \cup {"nothing"}
BY ActionStartFacts DEF VerifyStart

LEMMA WriteFacts ==
    ASSUME MemoryOK, NEW record, NEW data \in Bytes, NEW who, RiaWriteBuf(record, data, who)
    PROVE  act' \in {"write", "verify"} /\ mem' \in Mem /\ saved' \in Bytes \cup {"nothing"}
<1> DEFINE m == IF "vec" \in record THEN [mem EXCEPT !.vec = data] ELSE mem
<1>1. m \in Mem
  BY DEF MemoryOK, Mem, Locations
<1> QED
  BY <1>1, ActionStartFacts, VerifyStartFacts DEF RiaWriteBuf, MemoryOK

(* A record of an image is a record.                                       *)
LEMMA RecordFacts ==
    ASSUME LoaderOK, NEW p \in Programs, NEW i \in 1..Len(Image[p])
    PROVE  Image[p][i] \in Records
BY DEF LoaderOK


(* The memory and the saved vector keep their types.                       *)
LEMMA MemoryStep ==
    ASSUME TypeOK, [Next]_vars
    PROVE  MemoryOK'
<1> USE DEF TypeOK, MemoryOK
<1>1. CASE RiaWritten
  <2>1. Restored \in Mem /\ mbuf.prog \in Bytes
    BY DEF Restored, Mem, Locations, LoaderOK, Buffers, Bytes
  <2> QED
    BY <1>1, <2>1, VerifyStartFacts DEF RiaWritten, Mem
<1>2. CASE RiaDone
  BY <1>2 DEF RiaDone, Restored, Locations, Bytes
<1>3. CASE BusWrite
  BY <1>3 DEF BusWrite, Bytes, LoaderOK, Buffers, ActionEnd
<1>4. CASE DumpReads
  BY <1>4, ActionStartFacts DEF DumpReads, DumpRow, RiaReadBuf, Mem
<1>5. CASE RamReceives
  <2>1. "scratch" \in Bytes /\ "xram" \in Locations
    BY DEF Bytes, Locations
  <2>2. CASE \E record \in Records : RiaWriteBuf(record, "scratch", "ram")
    BY <2>1, <2>2, WriteFacts DEF Mem
  <2>3. CASE mem' = [mem EXCEPT !.xram = "scratch"] /\ UNCHANGED <<act, saved>>
    BY <2>1, <2>3
  <2> QED
    BY <1>5, <2>2, <2>3 DEF RamReceives, RamWrites
<1>6. CASE MonAddress
  <2>1. "scratch" \in Bytes /\ "xram" \in Locations
    BY DEF Bytes, Locations
  <2>2. CASE \E record \in Records : RiaWriteBuf(record, "scratch", "ram")
    BY <2>1, <2>2, WriteFacts DEF Mem
  <2>3. CASE mem' = [mem EXCEPT !.xram = "scratch"] /\ UNCHANGED <<act, saved>>
    BY <2>1, <2>3
  <2>4. CASE \E record \in Records : RiaReadBuf(record)
    BY <2>4, ActionStartFacts DEF RiaReadBuf, Mem
  <2>5. CASE UNCHANGED ria
    BY <2>5
  <2> QED
    BY <1>6, <2>2, <2>3, <2>4, <2>5 DEF MonAddress, RamWrites
<1>7. CASE RomXram
  BY <1>7 DEF RomXram, Bytes, LoaderOK, Buffers, Locations
<1>8. CASE ReadRecord
  <2>1. pump.prog \in Bytes
    BY DEF LoaderOK, Pumps, Bytes
  <2> QED
    BY <1>8, <2>1, WriteFacts DEF ReadRecord, Mem
<1>9. CASE CommitBreak
  BY <1>9 DEF CommitBreak, Restored, Locations, Bytes
<1>10. CASE UserBreak \/ UserBreakToLauncher \/ ResbTask \/ EnumerationEnds
            \/ RiaTimeout \/ RamXram \/ BusVerify \/ BusRead
  BY <1>10 DEF UserBreak, UserBreakToLauncher, ResbTask, EnumerationEnds, RiaTimeout,
     RamXram, BusVerify, BusRead
<1>11. CASE Exit \/ WalkEnds \/ OpenSucceeds \/ OpenFails \/ MonBreaks \/ HelpEnds
            \/ DumpEnds \/ MonPrompts
  BY <1>11 DEF Exit, WalkEnds, OpenSucceeds, OpenFails, MonBreaks, HelpEnds,
     DumpEnds, DumpRow, MonPrompts
<1>12. CASE MonIdles \/ UploadReceives \/ ReceiveFails \/ MbufIdles \/ MonLoad
            \/ MonInfo \/ MonReset \/ MonBinary
  BY <1>12 DEF MonIdles, UploadReceives, MbufDone, ReceiveFails, MbufIdles, MonLoad,
     MonEnter, MonInfo, MonReset, MonBinary
<1>13. CASE MonUpload \/ UploadSays \/ UploadEnds \/ RlnIdles \/ RomCloses
            \/ RomWaits \/ RomReads \/ ReadEof
  BY <1>13 DEF MonUpload, UploadSays, UploadLine, UploadEnds, RlnIdles, RomCloses,
     RomWaits, RomReads, ReadEof
<1>14. CASE ReadFails \/ NfcTap \/ NfcIdles \/ ApiExec \/ ApiSetLauncher
            \/ ApiReadsLine \/ ApiIdles \/ CommitBreaking
  BY <1>14 DEF ReadFails, NfcTap, NfcIdles, ApiExec, ApiSetLauncher, ApiReadsLine,
     ApiIdles, CommitBreaking
<1>15. CASE CommitRun \/ CommitStop \/ CommitNothing \/ StopEnds \/ CommitEnds
  BY <1>15 DEF CommitRun, CommitStop, CommitNothing, StopEnds, CommitEnds
<1>16. CASE UNCHANGED vars
  BY <1>16 DEF vars
<1> QED
  BY <1>1, <1>2, <1>3, <1>4, <1>5, <1>6, <1>7, <1>8, <1>9, <1>10, <1>11, <1>12,
     <1>13, <1>14, <1>15, <1>16 DEF Next, Tasks, Core1, Core0, IoTasks, MonTask,
     MbufTask, RlnTask, RomTask, Commit

(* What opening a file does to the loader.                                 *)
LEMMA OpenFacts ==
    ASSUME LoaderOK, NEW p \in MaybeProgram, NEW why \in {"exec", "info", "install"},
           NEW back \in Openers, Open(p, why, back)
    PROVE  /\ opening' \in Openings /\ pump' \in Pumps /\ asset' \in MaybeProgram
           /\ pump'.prog = pump.prog /\ pump'.pos = pump.pos
<1>1. opening' \in Openings
  BY DEF Open, Openings
<1>2. pump' \in Pumps /\ pump'.prog = pump.prog /\ pump'.pos = pump.pos
  BY DEF Open, Pumps, LoaderOK
<1> QED
  BY <1>1, <1>2 DEF Open, MaybeProgram

LEMMA ExecFacts ==
    ASSUME LoaderOK, NEW p \in Programs, NEW back \in Openers, RomExec(p, back)
    PROVE  /\ opening' \in Openings /\ pump' \in Pumps /\ asset' \in MaybeProgram
           /\ mbuf' = mbuf /\ rec' = rec
           /\ pump'.prog = pump.prog /\ pump'.pos = pump.pos
<1>1. p \in MaybeProgram
  BY DEF MaybeProgram
<1>2. CASE Open(p, "exec", back)
  BY <1>1, <1>2, OpenFacts DEF RomExec
<1>3. CASE UNCHANGED <<opening, pump, asset>>
  BY <1>3 DEF RomExec, LoaderOK
<1> QED
  BY <1>2, <1>3 DEF RomExec

LEMMA LoadArgvFacts ==
    ASSUME LoaderOK, NEW p \in Programs, NEW back \in Openers, RomLoadArgv(p, back)
    PROVE  /\ opening' \in Openings /\ pump' \in Pumps /\ asset' \in MaybeProgram
           /\ mbuf' = mbuf /\ rec' = rec /\ argv' \in MaybeProgram
           /\ pump'.prog = pump.prog /\ pump'.pos = pump.pos
<1>1. CASE argv' = p /\ RomExec(p, back)
  BY <1>1, ExecFacts DEF MaybeProgram
<1>2. CASE argv' = None /\ UNCHANGED <<opening, rom>>
  BY <1>2 DEF LoaderOK, MaybeProgram
<1> QED
  BY <1>1, <1>2 DEF RomLoadArgv

(* The user asks for programs only.                                        *)
LEMMA SceneFacts ==
    ASSUME PlacesOK, NEW p \in scene.programs
    PROVE  p \in Programs
BY DEF PlacesOK


(* The loader's variables and the names keep their types.                  *)
LEMMA LoaderStep ==
    ASSUME TypeOK, ReadInv, [Next]_vars
    PROVE  LoaderOK'
<1> USE DEF TypeOK, LoaderOK
<1>1. CASE UserBreak
  BY <1>1 DEF UserBreak, MaybeProgram
<1>2. CASE OpenSucceeds
  <2> DEFINE fresh == [prog |-> opening.prog, pos |-> 0, open |-> TRUE]
  <2>1. opening.prog \in MaybeProgram /\ fresh \in Pumps /\ [fresh EXCEPT !.open = FALSE] \in Pumps
    BY DEF Openings, Pumps
  <2>2. Scratch \in Buffers
    BY DEF Scratch, Buffers
  <2>3. pump' \in {fresh, [fresh EXCEPT !.open = FALSE]} /\ asset' \in {asset, opening.prog}
    BY <1>2 DEF OpenSucceeds
  <2>4. mbuf' = Scratch /\ UNCHANGED <<opening, rec, argv, running, launcher>>
    BY <1>2 DEF OpenSucceeds
  <2> HIDE DEF fresh
  <2> QED
    BY <2>1, <2>2, <2>3, <2>4
<1>3. CASE OpenFails
  <2> DEFINE closed == [prog |-> opening.prog, pos |-> 0, open |-> FALSE]
  <2>1. closed \in Pumps /\ Scratch \in Buffers
    BY DEF Openings, Pumps, Scratch, Buffers
  <2>2. pump' \in {pump, closed} /\ mbuf' \in {mbuf, Scratch}
        /\ UNCHANGED <<opening, rec, asset, argv, running, launcher>>
    BY <1>3 DEF OpenFails
  <2> HIDE DEF closed
  <2> QED
    BY <2>1, <2>2
<1>4. CASE DumpReads
  BY <1>4 DEF DumpReads, DumpRow, RiaReadBuf, Scratch, Buffers
<1>5. CASE RamReceives
  <2>1. rec' \in Records /\ mbuf' = Scratch
        /\ UNCHANGED <<opening, pump, asset, argv, running, launcher>>
    BY <1>5 DEF RamReceives, MbufDone, RamWrites
  <2>2. Scratch \in Buffers
    BY DEF Scratch, Buffers
  <2> QED
    BY <2>1, <2>2
<1>6. CASE UploadReceives
  BY <1>6 DEF UploadReceives, MbufDone, Scratch, Buffers
<1>7. CASE ReceiveFails
  BY <1>7 DEF ReceiveFails, MbufDone, Scratch, Buffers
<1>8. CASE MonLoad
  <2>1. PICK p \in Programs : RomLoadArgv(p, "rom")
    BY <1>8, SceneFacts DEF MonLoad
  <2>2. "rom" \in Openers /\ UNCHANGED <<running, launcher>>
    BY <1>8 DEF MonLoad, MonEnter, Openers
  <2> QED
    BY <2>1, <2>2, LoadArgvFacts
<1>9. CASE MonInfo
  <2>1. PICK p \in Programs, why \in {"info", "install"} : Open(p, why, "rom")
    BY <1>9, SceneFacts DEF MonInfo
  <2>2. "rom" \in Openers /\ UNCHANGED <<running, launcher, argv, mbuf, rec>> /\ p \in MaybeProgram
    BY <1>9 DEF MonInfo, MonEnter, Openers, MaybeProgram
  <2> QED
    BY <2>1, <2>2, OpenFacts
<1>10. CASE MonReset
  BY <1>10 DEF MonReset, MonEnter, MaybeProgram
<1>11. CASE MonAddress
  <2>1. rec' \in Records /\ mbuf' \in {mbuf, Scratch}
        /\ UNCHANGED <<opening, pump, asset, argv, running, launcher>>
    BY <1>11 DEF MonAddress, MonEnter, RiaReadBuf, RamWrites
  <2>2. Scratch \in Buffers
    BY DEF Scratch, Buffers
  <2> QED
    BY <2>1, <2>2
<1>12. CASE MonBinary
  BY <1>12 DEF MonBinary, MonEnter, Scratch, Buffers
<1>13. CASE RomCloses
  BY <1>13 DEF RomCloses, Pumps, MaybeProgram
<1>14. CASE ReadRecord
  <2>1. pump.prog \in Programs /\ pump.pos + 1 \in 1..Len(Image[pump.prog])
    BY <1>14 DEF ReadRecord, Pumps, ReadInv
  <2>2. rec' \in Records /\ UNCHANGED <<opening, asset, argv, running, launcher>>
    BY <1>14, <2>1 DEF ReadRecord
  <2>3. mbuf' \in Buffers
    BY <1>14, <2>1 DEF ReadRecord, Buffers, Pumps, MaybeProgram
  <2>4. pump' \in Pumps
    BY <1>14 DEF ReadRecord, Pumps
  <2> QED
    BY <2>1, <2>2, <2>3, <2>4
<1>15. CASE ReadEof
  BY <1>15 DEF ReadEof, Pumps, MaybeProgram
<1>16. CASE ReadFails
  BY <1>16 DEF ReadFails, Scratch, Buffers
<1>17. CASE NfcTap
  <2>1. PICK p \in Programs : RomLoadArgv(p, "api")
    BY <1>17, SceneFacts DEF NfcTap
  <2>2. "api" \in Openers /\ UNCHANGED <<running, launcher>>
    BY <1>17 DEF NfcTap, Openers
  <2> QED
    BY <2>1, <2>2, LoadArgvFacts
<1>18. CASE ApiExec
  <2>1. CASE \E p \in scene.programs : argv' = p /\ RomExec(p, "commit")
    <3>1. PICK p \in Programs : argv' = p /\ RomExec(p, "commit")
      BY <2>1, SceneFacts
    <3>2. "commit" \in Openers /\ UNCHANGED <<running, launcher>> /\ p \in MaybeProgram
      BY <1>18 DEF ApiExec, Openers, MaybeProgram
    <3> QED
      BY <3>1, <3>2, ExecFacts
  <2>2. CASE argv' = None /\ UNCHANGED <<opening, rom>>
    BY <1>18, <2>2 DEF ApiExec, MaybeProgram
  <2> QED
    BY <1>18, <2>1, <2>2 DEF ApiExec
<1>19. CASE ApiSetLauncher
  BY <1>19 DEF ApiSetLauncher, MaybeProgram
<1>20. CASE CommitRun
  BY <1>20 DEF CommitRun
<1>21. CASE CommitStop
  <2>1. running' \in MaybeProgram /\ launcher' \in MaybeProgram /\ argv' \in MaybeProgram
        /\ UNCHANGED <<rec, mbuf>>
    BY <1>21 DEF CommitStop, MaybeProgram
  <2>2. CASE Open(launcher, "exec", "stopEnd")
    BY <2>1, <2>2, OpenFacts DEF Openers
  <2>3. CASE UNCHANGED <<opening, pump, asset>>
    BY <2>1, <2>3
  <2> QED
    BY <1>21, <2>2, <2>3 DEF CommitStop
<1>22. CASE UserBreakToLauncher \/ ResbTask \/ EnumerationEnds \/ RiaTimeout
            \/ RiaWritten \/ RiaDone \/ RamXram \/ BusWrite
  BY <1>22 DEF UserBreakToLauncher, ResbTask, EnumerationEnds, RiaTimeout,
     RiaWritten, RiaDone, RamXram, BusWrite
<1>23. CASE BusVerify \/ BusRead \/ Exit \/ WalkEnds \/ MonBreaks \/ HelpEnds
            \/ DumpEnds \/ MonPrompts
  BY <1>23 DEF BusVerify, BusRead, Exit, WalkEnds, MonBreaks, HelpEnds, DumpEnds,
     DumpRow, MonPrompts
<1>24. CASE MonIdles \/ MbufIdles \/ MonUpload \/ UploadSays \/ UploadEnds
            \/ RlnIdles \/ RomWaits \/ RomXram
  BY <1>24 DEF MonIdles, MbufIdles, MonUpload, UploadSays, UploadLine, UploadEnds,
     RlnIdles, RomWaits, RomXram
<1>25. CASE RomReads \/ NfcIdles \/ ApiReadsLine \/ ApiIdles \/ CommitBreaking
            \/ CommitNothing \/ StopEnds \/ CommitBreak
  BY <1>25 DEF RomReads, NfcIdles, ApiReadsLine, ApiIdles, CommitBreaking,
     CommitNothing, StopEnds, CommitBreak
<1>26. CASE CommitEnds
  BY <1>26 DEF CommitEnds
<1>27. CASE UNCHANGED vars
  BY <1>27 DEF vars
<1> QED
  BY <1>1, <1>2, <1>3, <1>4, <1>5, <1>6, <1>7, <1>8, <1>9, <1>10, <1>11, <1>12,
     <1>13, <1>14, <1>15, <1>16, <1>17, <1>18, <1>19, <1>20, <1>21, <1>22, <1>23,
     <1>24, <1>25, <1>26, <1>27 DEF Next, Tasks, Core1, Core0, IoTasks, MonTask,
     MbufTask, RlnTask, RomTask, Commit

(* Only programs are opened, whoever opens them.                           *)
LEMMA OpenReads ==
    ASSUME LoaderOK, ReadInv, NEW p \in Programs, NEW why, NEW back, Open(p, why, back),
           act' = act, client' = client, romState' # "idle" => romState # "idle"
    PROVE  ReadInv'
<1>1. pc' = "open" /\ opening'.prog = p /\ pump'.prog = pump.prog
  BY DEF Open, LoaderOK, Pumps
<1> QED
  BY <1>1 DEF ReadInv, RomActive

LEMMA ExecReads ==
    ASSUME LoaderOK, ReadInv, NEW p \in Programs, NEW back \in Openers, RomExec(p, back),
           act' = act, client' = client
    PROVE  ReadInv'
<1>1. CASE Open(p, "exec", back)
  BY <1>1, OpenReads DEF RomExec
<1>2. CASE pc' = back /\ UNCHANGED <<opening, pump, asset>>
  BY <1>2 DEF RomExec, ReadInv, RomActive, Openers
<1> QED
  BY <1>1, <1>2 DEF RomExec

LEMMA LoadArgvReads ==
    ASSUME LoaderOK, ReadInv, NEW p \in Programs, NEW back \in Openers, RomLoadArgv(p, back),
           act' = act, client' = client
    PROVE  ReadInv'
<1>1. CASE RomExec(p, back)
  BY <1>1, ExecReads
<1>2. CASE pc' = back /\ UNCHANGED <<opening, rom>>
  BY <1>2 DEF ReadInv, RomActive, Openers
<1> QED
  BY <1>1, <1>2 DEF RomLoadArgv

(* Only programs are opened and read.                                      *)
LEMMA ReadStep ==
    ASSUME TypeOK, ReadInv, [Next]_vars
    PROVE  ReadInv'
<1> USE DEF ReadInv, RomActive
<1>1. CASE OpenSucceeds
  <2>1. opening.prog \in Programs /\ pc' \in Openers /\ UNCHANGED <<act, client>>
    BY <1>1 DEF OpenSucceeds, TypeOK, LoaderOK, Openings, Openers
  <2>2. pump'.prog = opening.prog
    BY <1>1 DEF OpenSucceeds
  <2> QED
    BY <2>1, <2>2 DEF Openers
<1>2. CASE OpenFails
  <2>1. opening.prog \in Programs /\ pc' \in Openers /\ UNCHANGED <<act, client, romState>>
    BY <1>2 DEF OpenFails, TypeOK, LoaderOK, Openings, Openers
  <2>2. pump' = pump \/ pump'.prog = opening.prog
    BY <1>2 DEF OpenFails
  <2> QED
    BY <2>1, <2>2 DEF Openers
<1>3. CASE RiaDone
  BY <1>3 DEF RiaDone, RomWritten, RamDone, Ended, TypeOK, PlacesOK
<1>4. CASE ReadEof
  <2>1. pump'.prog = pump.prog /\ UNCHANGED <<act, client>> /\ pc' = "nfc"
    BY <1>4 DEF ReadEof, TypeOK, LoaderOK, Pumps
  <2> QED
    BY <1>4, <2>1 DEF ReadEof
<1>5. CASE ReadRecord
  BY <1>5 DEF ReadRecord, RiaWriteBuf, VerifyStart, ActionStart
<1>6. CASE RomReads
  BY <1>6 DEF RomReads
<1>7. CASE RomCloses
  BY <1>7 DEF RomCloses
<1>8. CASE RamReceives
  BY <1>8 DEF RamReceives, MbufDone, RamWrites, RiaWriteBuf, VerifyStart, ActionStart
<1>9. CASE DumpReads
  BY <1>9 DEF DumpReads, DumpRow, RiaReadBuf, ActionStart
<1>10. CASE MonAddress
  BY <1>10 DEF MonAddress, MonEnter, MonLine, RiaReadBuf, RamWrites, RiaWriteBuf,
     VerifyStart, ActionStart
<1>11. CASE RiaWritten
  BY <1>11 DEF RiaWritten, VerifyStart, ActionStart, Restored
<1>12. CASE MonLoad
  <2>1. PICK p \in Programs : RomLoadArgv(p, "rom")
    BY <1>12, SceneFacts DEF MonLoad, TypeOK
  <2>2. UNCHANGED <<act, client>>
    BY <1>12 DEF MonLoad
  <2> QED
    BY <2>1, <2>2, LoadArgvReads DEF Openers, TypeOK
<1>13. CASE MonInfo
  <2>1. PICK p \in Programs, why \in {"info", "install"} : Open(p, why, "rom")
    BY <1>13, SceneFacts DEF MonInfo, TypeOK
  <2>2. UNCHANGED <<act, client, romState>>
    BY <1>13 DEF MonInfo
  <2> QED
    BY <2>1, <2>2, OpenReads DEF Openers, TypeOK
<1>14. CASE NfcTap
  <2>1. PICK p \in Programs : RomLoadArgv(p, "api")
    BY <1>14, SceneFacts DEF NfcTap, TypeOK
  <2>2. UNCHANGED <<act, client>>
    BY <1>14 DEF NfcTap
  <2> QED
    BY <2>1, <2>2, LoadArgvReads DEF Openers, TypeOK
<1>15. CASE ApiExec
  <2>1. UNCHANGED <<act, client>> /\ "commit" \in Openers
    BY <1>15 DEF ApiExec, Openers
  <2>2. CASE \E p \in scene.programs : RomExec(p, "commit")
    <3>1. PICK p \in Programs : RomExec(p, "commit")
      BY <2>2, SceneFacts DEF TypeOK
    <3> QED
      BY <2>1, <3>1, ExecReads DEF TypeOK
  <2>3. CASE pc' = "commit" /\ UNCHANGED <<opening, rom>>
    BY <2>1, <2>3
  <2> QED
    BY <1>15, <2>2, <2>3 DEF ApiExec
<1>16. CASE CommitStop
  <2>1. UNCHANGED <<act, client>> /\ (romState' # "idle" => romState # "idle")
    BY <1>16 DEF CommitStop
  <2>2. CASE launcher # None /\ Open(launcher, "exec", "stopEnd")
    <3>1. launcher \in Programs
      BY <2>2 DEF TypeOK, LoaderOK, MaybeProgram
    <3> QED
      BY <2>1, <2>2, <3>1, OpenReads DEF Openers, TypeOK
  <2>3. CASE pc' = "stopEnd" /\ UNCHANGED pump
    BY <2>1, <2>3
  <2> QED
    BY <1>16, <2>2, <2>3 DEF CommitStop
<1>17. CASE UserBreak \/ UserBreakToLauncher \/ ResbTask \/ EnumerationEnds
            \/ RiaTimeout \/ RamXram \/ BusWrite \/ BusVerify
  BY <1>17 DEF UserBreak, UserBreakToLauncher, ResbTask, EnumerationEnds, RiaTimeout,
     RamXram, BusWrite, BusVerify
<1>18. CASE BusRead \/ Exit \/ WalkEnds \/ MonBreaks \/ HelpEnds \/ DumpEnds
            \/ MonPrompts \/ MonIdles
  BY <1>18 DEF BusRead, Exit, WalkEnds, MonBreaks, HelpEnds, DumpEnds, DumpRow,
     MonPrompts, MonIdles
<1>19. CASE UploadReceives \/ ReceiveFails \/ MbufIdles \/ MonReset \/ MonBinary
            \/ MonUpload \/ UploadSays \/ UploadEnds
  BY <1>19 DEF UploadReceives, MbufDone, ReceiveFails, MbufIdles, MonReset, MonEnter,
     MonBinary, MonUpload, UploadSays, UploadLine, UploadEnds
<1>20. CASE RlnIdles \/ RomWaits \/ RomXram \/ ReadFails \/ NfcIdles
            \/ ApiSetLauncher \/ ApiReadsLine \/ ApiIdles
  BY <1>20 DEF RlnIdles, RomWaits, RomXram, ReadFails, NfcIdles, ApiSetLauncher,
     ApiReadsLine, ApiIdles
<1>21. CASE CommitBreaking \/ CommitRun \/ CommitNothing \/ StopEnds
            \/ CommitBreak \/ CommitEnds
  BY <1>21 DEF CommitBreaking, CommitRun, CommitNothing, StopEnds, CommitBreak,
     CommitEnds
<1>22. CASE UNCHANGED vars
  BY <1>22 DEF vars
<1> QED
  BY <1>1, <1>2, <1>3, <1>4, <1>5, <1>6, <1>7, <1>8, <1>9, <1>10, <1>11, <1>12,
     <1>13, <1>14, <1>15, <1>16, <1>17, <1>18, <1>19, <1>20, <1>21, <1>22 DEF Next,
     Tasks, Core1, Core0, IoTasks, MonTask, MbufTask, RlnTask, RomTask, Commit

(* What is known of breaks and stops is kept.                              *)
LEMMA BreakStep ==
    ASSUME TypeOK, BreakInv, [Next]_vars
    PROVE  BreakInv'
<1> USE DEF BreakInv, Stopping, TypeOK, PlacesOK, LoaderOK, Openings, Openers, Walk,
            Blocked
<1>1. CASE UserBreak \/ UserBreakToLauncher \/ ResbTask \/ EnumerationEnds
  BY <1>1 DEF UserBreak, SysStop, UserBreakToLauncher, IsLauncher, ResbTask,
     EnumerationEnds
<1>2. CASE RiaTimeout \/ RiaWritten \/ RiaDone \/ RamXram
  BY <1>2 DEF RiaTimeout, RiaWritten, VerifyStart, ActionStart, Restored, RiaDone,
     RomWritten, RamDone, Ended, RamXram
<1>3. CASE BusWrite \/ BusVerify \/ BusRead \/ Exit
  BY <1>3 DEF BusWrite, ActionEnd, BusVerify, BusRead, Exit, SysStop
<1>4. CASE WalkEnds \/ MonBreaks \/ HelpEnds \/ DumpReads \/ DumpEnds
            \/ MonPrompts \/ MonIdles
  BY <1>4 DEF WalkEnds, MonBreaks, HelpEnds, DumpReads, DumpRow, RiaReadBuf,
     ActionStart, DumpEnds, MonPrompts, Resting, MonIdles
<1>5. CASE RamReceives \/ UploadReceives \/ ReceiveFails \/ MbufIdles
  BY <1>5 DEF RamReceives, MbufDone, RamWrites, RiaWriteBuf, VerifyStart,
     ActionStart, UploadReceives, ReceiveFails, MbufIdles
<1>6. CASE MonLoad \/ MonInfo
  BY <1>6 DEF MonLoad, MonEnter, MonLine, RomLoadArgv, RomExec, Open, MonInfo
<1>7. CASE MonReset \/ MonAddress \/ MonBinary \/ MonUpload
  BY <1>7 DEF MonReset, MonEnter, MonLine, SysRun, MonAddress, RiaReadBuf, RamWrites,
     RiaWriteBuf, VerifyStart, ActionStart, MonBinary, MonUpload
<1>8. CASE UploadSays \/ UploadEnds \/ RlnIdles
  BY <1>8 DEF UploadSays, UploadLine, UploadEnds, RlnIdles
<1>9. CASE RomCloses \/ RomWaits \/ RomXram \/ RomReads
  BY <1>9 DEF RomCloses, RomWaits, RomXram, RomReads
<1>10. CASE ReadRecord
  BY <1>10 DEF ReadRecord, RiaWriteBuf, VerifyStart, ActionStart
<1>11. CASE ReadEof \/ ReadFails
  BY <1>11 DEF ReadEof, SysRun, AtEnd, Complete, ReadFails
<1>12. CASE NfcTap
  BY <1>12 DEF NfcTap, RomLoadArgv, RomExec, Open, SysStop
<1>13. CASE NfcIdles
  BY <1>13 DEF NfcIdles
<1>14. CASE ApiExec
  <2>1. UNCHANGED <<sysBreaking, running, launcher>> /\ sysState = "running"
    BY <1>14 DEF ApiExec, ApiCalled
  <2>2. CASE \E p \in scene.programs : RomExec(p, "commit")
    <3>1. pc' = "commit" \/ (pc' = "open" /\ opening'.back = "commit")
      BY <2>2 DEF RomExec, Open
    <3> QED
      BY <1>14, <2>1, <3>1 DEF ApiExec, SysStop
  <2>3. CASE pc' = "commit" /\ UNCHANGED sysState
    BY <2>1, <2>3
  <2> QED
    BY <1>14, <2>2, <2>3 DEF ApiExec
<1>15. CASE ApiSetLauncher \/ ApiReadsLine \/ ApiIdles
  BY <1>15 DEF ApiSetLauncher, ApiCalled, ApiReadsLine, ApiIdles
<1>16. CASE CommitBreaking
  BY <1>16 DEF CommitBreaking, SysStop
<1>17. CASE CommitRun
  BY <1>17 DEF CommitRun
<1>18. CASE CommitStop
  BY <1>18 DEF CommitStop, IsLauncher, Open
<1>19. CASE CommitNothing \/ StopEnds
  BY <1>19 DEF CommitNothing, StopEnds
<1>20. CASE CommitBreak \/ CommitEnds
  BY <1>20 DEF CommitBreak, Restored, CommitEnds
<1>21. CASE OpenSucceeds
  <2>1. pc = "open" /\ pc' = opening.back /\ pc' \in Openers
    BY <1>21 DEF OpenSucceeds
  <2>2. UNCHANGED <<sysState, sysBreaking, running, launcher>>
    BY <1>21 DEF OpenSucceeds
  <2> QED
    BY <2>1, <2>2
<1>22. CASE OpenFails
  <2>1. pc = "open" /\ pc' = opening.back /\ pc' \in Openers
    BY <1>22 DEF OpenFails
  <2>2. UNCHANGED <<sysState, sysBreaking, running, launcher>>
    BY <1>22 DEF OpenFails
  <2> QED
    BY <2>1, <2>2
<1>23. CASE UNCHANGED vars
  BY <1>23 DEF vars
<1> QED
  BY <1>1, <1>2, <1>3, <1>4, <1>5, <1>6, <1>7, <1>8, <1>9, <1>10, <1>11, <1>12,
     <1>13, <1>14, <1>15, <1>16, <1>17, <1>18, <1>19, <1>20, <1>21, <1>22,
     <1>23 DEF Next, Tasks, Core1, Core0, IoTasks, MonTask, MbufTask, RlnTask,
     RomTask, Commit

(* The break flag is cleared by the break hooks only.                      *)
LEMMA BreakHooks ==
    ASSUME sysBreaking, ~sysBreaking', [Next]_vars
    PROVE  CommitBreak
<1>1. CASE UserBreak \/ UserBreakToLauncher \/ ResbTask \/ EnumerationEnds
  BY <1>1 DEF UserBreak, UserBreakToLauncher, ResbTask, EnumerationEnds
<1>2. CASE RiaTimeout \/ RiaWritten \/ RiaDone \/ RamXram
  BY <1>2 DEF RiaTimeout, RiaWritten, RiaDone, RamXram
<1>3. CASE BusWrite \/ BusVerify \/ BusRead \/ Exit
  BY <1>3 DEF BusWrite, BusVerify, BusRead, Exit
<1>4. CASE WalkEnds \/ MonBreaks \/ HelpEnds \/ DumpReads \/ DumpEnds
            \/ MonPrompts \/ MonIdles
  BY <1>4 DEF WalkEnds, MonBreaks, HelpEnds, DumpReads, DumpRow, DumpEnds,
     MonPrompts, MonIdles
<1>5. CASE OpenSucceeds \/ OpenFails
  BY <1>5 DEF OpenSucceeds, OpenFails
<1>6. CASE RamReceives \/ UploadReceives \/ ReceiveFails \/ MbufIdles
  BY <1>6 DEF RamReceives, MbufDone, UploadReceives, ReceiveFails, MbufIdles
<1>7. CASE MonLoad \/ MonInfo
  BY <1>7 DEF MonLoad, MonEnter, MonInfo
<1>8. CASE MonReset \/ MonAddress \/ MonBinary \/ MonUpload
  BY <1>8 DEF MonReset, MonEnter, MonAddress, MonBinary, MonUpload
<1>9. CASE UploadSays \/ UploadEnds \/ RlnIdles
  BY <1>9 DEF UploadSays, UploadLine, UploadEnds, RlnIdles
<1>10. CASE RomCloses \/ RomWaits \/ RomXram \/ RomReads
  BY <1>10 DEF RomCloses, RomWaits, RomXram, RomReads
<1>11. CASE ReadRecord
  BY <1>11 DEF ReadRecord
<1>12. CASE ReadEof \/ ReadFails
  BY <1>12 DEF ReadEof, ReadFails
<1>13. CASE NfcTap
  BY <1>13 DEF NfcTap
<1>14. CASE NfcIdles
  BY <1>14 DEF NfcIdles
<1>15. CASE ApiExec
  BY <1>15 DEF ApiExec
<1>16. CASE ApiSetLauncher \/ ApiReadsLine \/ ApiIdles
  BY <1>16 DEF ApiSetLauncher, ApiReadsLine, ApiIdles
<1>17. CASE CommitBreaking
  BY <1>17 DEF CommitBreaking
<1>18. CASE CommitRun
  BY <1>18 DEF CommitRun
<1>19. CASE CommitStop
  BY <1>19 DEF CommitStop
<1>20. CASE CommitNothing \/ StopEnds
  BY <1>20 DEF CommitNothing, StopEnds
<1>21. CASE CommitEnds
  BY <1>21 DEF CommitEnds
<1>22. CASE CommitBreak
  BY <1>22 DEF CommitBreak
<1>23. CASE UNCHANGED vars
  BY <1>23 DEF vars
<1> QED
  BY <1>1, <1>2, <1>3, <1>4, <1>5, <1>6, <1>7, <1>8, <1>9, <1>10, <1>11, <1>12,
     <1>13, <1>14, <1>15, <1>16, <1>17, <1>18, <1>19, <1>20, <1>21, <1>22,
     <1>23 DEF Next, Tasks, Core1, Core0, IoTasks, MonTask, MbufTask, RlnTask,
     RomTask, Commit
----------------------------------------------------------------------------
(* A transfer lets the 6502 out of reset only if it is not over at once.   *)
LEMMA VerifyStarts ==
    ASSUME NEW m, NEW v, NEW record, NEW data, VerifyStart(m, v, record, data)
    PROVE  act' = "verify" /\ (pending' = pending \/ (pending' = TRUE /\ res' = "none"))
BY DEF VerifyStart, ActionStart

LEMMA WriteStarts ==
    ASSUME NEW record, NEW data, NEW who, RiaWriteBuf(record, data, who)
    PROVE  /\ act' \in {"write", "verify"} /\ client' = who
           /\ pending' = pending \/ (pending' = TRUE /\ res' = "none")
BY VerifyStarts DEF RiaWriteBuf, ActionStart

(* The reset line is kept for the program or the transfer.                 *)
LEMMA LineStep ==
    ASSUME Orderly, AnyInv, ControlInv, [Next]_vars
    PROVE  LineInv'
<1>a. /\ TypeOK /\ ReadInv /\ BreakInv /\ LineInv /\ CommandInv
      /\ TransferInv /\ LoadInv /\ ~TapsOverLoads /\ ~TypesOverTaps
  BY DEF Orderly, AnyInv, ControlInv
<1> USE <1>a
<1> USE DEF LineInv, BreakInv, TransferInv, LoadInv, CommandInv, Stopping, RomActive,
            Commanded, Active, MonGate, Resting, LoadInFlight, Stopping, Openings,
            Openers, PlacesOK, LoaderOK, TypeOK
<1>1. CASE UserBreak \/ UserBreakToLauncher \/ ResbTask \/ EnumerationEnds
  BY <1>1 DEF UserBreak, SysStop, UserBreakToLauncher, IsLauncher, ResbTask,
     EnumerationEnds
<1>2. CASE BusWrite \/ BusVerify \/ BusRead \/ Exit
  BY <1>2 DEF BusWrite, ActionEnd, BusVerify, BusRead, Exit, SysStop
<1>3. CASE WalkEnds \/ MonBreaks \/ HelpEnds \/ DumpReads \/ DumpEnds
            \/ MonPrompts \/ MonIdles
  BY <1>3 DEF WalkEnds, MonBreaks, HelpEnds, DumpReads, DumpRow, RiaReadBuf,
     ActionStart, DumpEnds, MonPrompts, Resting, MonIdles
<1>4. CASE OpenSucceeds \/ OpenFails
  BY <1>4 DEF OpenSucceeds, OpenFails
<1>5. CASE MonLoad \/ MonInfo
  BY <1>5 DEF MonLoad, MonEnter, MonLine, RomLoadArgv, RomExec, Open, MonInfo
<1>6. CASE UploadSays \/ UploadEnds \/ RlnIdles
  BY <1>6 DEF UploadSays, UploadLine, UploadEnds, RlnIdles
<1>7. CASE RomCloses \/ RomWaits \/ RomXram \/ RomReads
  BY <1>7 DEF RomCloses, RomWaits, RomXram, RomReads
<1>8. CASE ReadEof \/ ReadFails
  BY <1>8 DEF ReadEof, SysRun, AtEnd, Complete, ReadFails
<1>9. CASE NfcTap
  BY <1>9 DEF NfcTap, RomLoadArgv, RomExec, Open, SysStop
<1>10. CASE NfcIdles
  BY <1>10 DEF NfcIdles
<1>11. CASE ApiSetLauncher \/ ApiReadsLine \/ ApiIdles
  BY <1>11 DEF ApiSetLauncher, ApiCalled, ApiReadsLine, ApiIdles
<1>12. CASE CommitBreaking
  BY <1>12 DEF CommitBreaking, SysStop
<1>13. CASE CommitRun
  BY <1>13 DEF CommitRun
<1>14. CASE CommitStop
  BY <1>14 DEF CommitStop, IsLauncher, Open
<1>15. CASE CommitNothing \/ StopEnds
  BY <1>15 DEF CommitNothing, StopEnds
<1>16. CASE CommitBreak \/ CommitEnds
  BY <1>16 DEF CommitBreak, Restored, CommitEnds
<1>17. CASE RiaWritten
  <2>1. act = "write" /\ res = "finished" /\ ~pending
    BY <1>17 DEF RiaWritten
  <2>2. VerifyStart(Restored, "nothing", rec, mbuf.prog)
    BY <1>17 DEF RiaWritten
  <2>3. UNCHANGED <<pc, sysState, sysBreaking, high>>
    BY <1>17 DEF RiaWritten
  <2>4. act' = "verify" /\ (pending' = pending \/ (pending' = TRUE /\ res' = "none"))
    BY <2>2, VerifyStarts
  <2>5. sysState = "stopped" /\ pc \notin {"run", "break"}
    BY <1>17, <2>1 DEF RiaWritten, Blocked
  <2> QED
    BY <2>1, <2>3, <2>4, <2>5
<1>18. CASE RiaTimeout
  BY <1>18 DEF RiaTimeout
<1>19. CASE RiaDone
  BY <1>19 DEF RiaDone, RomWritten, RamDone, Restored, Ended
<1>20. CASE RamXram
  BY <1>20 DEF RamXram
<1>21. CASE RamReceives
  <2>1. ~pending /\ pc = "mbuf" /\ pc' = "rln"
    BY <1>21 DEF RamReceives, MbufDone
  <2>2. UNCHANGED <<sysState, sysBreaking, high>>
    BY <1>21 DEF RamReceives, MbufDone
  <2>3. CASE \E record : RiaWriteBuf(record, "scratch", "ram")
    BY <2>1, <2>2, <2>3, WriteStarts
  <2>4. CASE UNCHANGED <<act, res, pending>>
    BY <2>1, <2>2, <2>4
  <2> QED
    BY <1>21, <2>3, <2>4 DEF RamReceives, RamWrites
<1>22. CASE UploadReceives \/ ReceiveFails \/ MbufIdles
  BY <1>22 DEF UploadReceives, MbufDone, ReceiveFails, MbufIdles
<1>23. CASE MonReset \/ MonBinary \/ MonUpload
  BY <1>23 DEF MonReset, MonEnter, MonLine, SysRun, MonBinary, MonUpload
<1>24. CASE MonAddress
  <2>1. ~pending /\ pc = "rln" /\ pc' = "rom"
    BY <1>24 DEF MonAddress, MonEnter, MonLine
  <2>2. UNCHANGED <<sysState, sysBreaking, high>>
    BY <1>24 DEF MonAddress, MonEnter
  <2>3. CASE \E record : RiaWriteBuf(record, "scratch", "ram")
    BY <2>1, <2>2, <2>3, WriteStarts
  <2>4. CASE \E record : RiaReadBuf(record)
    BY <2>1, <2>2, <2>4 DEF RiaReadBuf, ActionStart
  <2>5. CASE UNCHANGED <<act, res, pending>>
    BY <2>1, <2>2, <2>5
  <2> QED
    BY <1>24, <2>3, <2>4, <2>5 DEF MonAddress, RamWrites
<1>25. CASE ReadRecord
  <2>1. ~pending /\ pc = "read" /\ pc' = "nfc"
    BY <1>25 DEF ReadRecord
  <2>2. UNCHANGED <<sysState, sysBreaking, high>>
    BY <1>25 DEF ReadRecord
  <2>3. CASE \E record : RiaWriteBuf(record, pump.prog, "rom")
    BY <2>1, <2>2, <2>3, WriteStarts
  <2>4. CASE UNCHANGED <<act, res, pending>>
    BY <2>1, <2>2, <2>4
  <2> QED
    BY <1>25, <2>3, <2>4 DEF ReadRecord
<1>26. CASE ApiExec
  <2>1. sysState = "running" /\ UNCHANGED <<act, res, sysBreaking>>
    BY <1>26 DEF ApiExec, ApiCalled
  <2>2. CASE SysStop
    BY <2>1, <2>2 DEF SysStop
  <2>3. CASE pc' = "commit" /\ UNCHANGED <<sysState, pending, high>>
    BY <2>1, <2>3
  <2> QED
    BY <1>26, <2>2, <2>3 DEF ApiExec
<1>27. CASE UNCHANGED vars
  BY <1>27 DEF vars
<1> QED
  BY <1>1, <1>2, <1>3, <1>4, <1>5, <1>6, <1>7, <1>8, <1>9, <1>10, <1>11, <1>12,
     <1>13, <1>14, <1>15, <1>16, <1>17, <1>18, <1>19, <1>20, <1>21, <1>22, <1>23,
     <1>24, <1>25, <1>26, <1>27 DEF Next, Tasks, Core1, Core0, IoTasks, MonTask,
     MbufTask, RlnTask, RomTask, Commit

(* The commands keep out of each other's way, and of loads and programs.   *)
LEMMA CommandStep ==
    ASSUME Orderly, AnyInv, ControlInv, [Next]_vars
    PROVE  CommandInv'
<1>a. /\ TypeOK /\ ReadInv /\ BreakInv /\ LineInv /\ CommandInv
      /\ TransferInv /\ LoadInv /\ ~TapsOverLoads /\ ~TypesOverTaps
  BY DEF Orderly, AnyInv, ControlInv
<1> USE <1>a
<1> USE DEF CommandInv, LoadInv, TransferInv, LineInv, RomActive, Commanded, Active,
            MonGate, Resting, LoadInFlight, Stopping, Openings, Openers, PlacesOK,
            LoaderOK, TypeOK
<1>1. CASE UserBreak \/ UserBreakToLauncher \/ ResbTask \/ EnumerationEnds
  BY <1>1 DEF UserBreak, SysStop, UserBreakToLauncher, IsLauncher, ResbTask,
     EnumerationEnds
<1>2. CASE BusWrite \/ BusVerify \/ BusRead \/ Exit
  BY <1>2 DEF BusWrite, ActionEnd, BusVerify, BusRead, Exit, SysStop
<1>3. CASE WalkEnds \/ MonBreaks \/ HelpEnds \/ DumpReads \/ DumpEnds
            \/ MonPrompts \/ MonIdles
  BY <1>3 DEF WalkEnds, MonBreaks, HelpEnds, DumpReads, DumpRow, RiaReadBuf,
     ActionStart, DumpEnds, MonPrompts, Resting, MonIdles
<1>4. CASE OpenSucceeds \/ OpenFails
  BY <1>4 DEF OpenSucceeds, OpenFails
<1>5. CASE RamReceives \/ UploadReceives \/ ReceiveFails \/ MbufIdles
  BY <1>5 DEF RamReceives, MbufDone, RamWrites, RiaWriteBuf, VerifyStart,
     ActionStart, UploadReceives, ReceiveFails, MbufIdles
<1>6. CASE MonLoad \/ MonInfo
  BY <1>6 DEF MonLoad, MonEnter, MonLine, RomLoadArgv, RomExec, Open, MonInfo
<1>7. CASE MonReset \/ MonAddress \/ MonBinary \/ MonUpload
  BY <1>7 DEF MonReset, MonEnter, MonLine, SysRun, MonAddress, RiaReadBuf, RamWrites,
     RiaWriteBuf, VerifyStart, ActionStart, MonBinary, MonUpload
<1>8. CASE UploadSays \/ UploadEnds \/ RlnIdles
  BY <1>8 DEF UploadSays, UploadLine, UploadEnds, RlnIdles
<1>9. CASE RomCloses \/ RomWaits \/ RomXram \/ RomReads
  BY <1>9 DEF RomCloses, RomWaits, RomXram, RomReads
<1>10. CASE ReadRecord
  BY <1>10 DEF ReadRecord, RiaWriteBuf, VerifyStart, ActionStart
<1>11. CASE ReadEof \/ ReadFails
  BY <1>11 DEF ReadEof, SysRun, AtEnd, Complete, ReadFails
<1>12. CASE NfcTap
  BY <1>12 DEF NfcTap, RomLoadArgv, RomExec, Open, SysStop
<1>13. CASE NfcIdles
  BY <1>13 DEF NfcIdles
<1>14. CASE ApiExec
  BY <1>14 DEF ApiExec, ApiCalled, RomExec, Open, SysStop
<1>15. CASE ApiSetLauncher \/ ApiReadsLine \/ ApiIdles
  BY <1>15 DEF ApiSetLauncher, ApiCalled, ApiReadsLine, ApiIdles
<1>16. CASE CommitBreaking
  BY <1>16 DEF CommitBreaking, SysStop
<1>17. CASE CommitRun
  BY <1>17 DEF CommitRun
<1>18. CASE CommitStop
  BY <1>18 DEF CommitStop, IsLauncher, Open
<1>19. CASE CommitNothing \/ StopEnds
  BY <1>19 DEF CommitNothing, StopEnds
<1>20. CASE CommitBreak \/ CommitEnds
  BY <1>20 DEF CommitBreak, Restored, CommitEnds
<1>21. CASE RiaTimeout
  BY <1>21 DEF RiaTimeout
<1>22. CASE RiaWritten
  <2>1. act = "write" /\ UNCHANGED <<pc, sysState, romState, line, resp, needsBreak, ram, fil, chunk>>
    BY <1>22 DEF RiaWritten
  <2>2. resp = "help" => romState = "helping"
    BY <2>1
  <2> QED
    BY <2>1, <2>2
<1>23. CASE RiaDone
  BY <1>23 DEF RiaDone, RomWritten, RamDone, Restored, Ended
<1>24. CASE RamXram
  BY <1>24 DEF RamXram
<1>25. CASE UNCHANGED vars
  BY <1>25 DEF vars
<1> QED
  BY <1>1, <1>2, <1>3, <1>4, <1>5, <1>6, <1>7, <1>8, <1>9, <1>10, <1>11, <1>12,
     <1>13, <1>14, <1>15, <1>16, <1>17, <1>18, <1>19, <1>20, <1>21, <1>22, <1>23,
     <1>24, <1>25 DEF Next, Tasks, Core1, Core0, IoTasks, MonTask, MbufTask, RlnTask,
     RomTask, Commit

(* Every transfer keeps its owner, and the machine stays down.             *)
LEMMA TransferStep ==
    ASSUME Orderly, AnyInv, ControlInv, [Next]_vars
    PROVE  TransferInv'
<1>a. /\ TypeOK /\ ReadInv /\ BreakInv /\ LineInv /\ CommandInv
      /\ TransferInv /\ LoadInv /\ ~TapsOverLoads /\ ~TypesOverTaps
  BY DEF Orderly, AnyInv, ControlInv
<1> USE <1>a
<1> USE DEF CommandInv, LoadInv, TransferInv, LineInv, RomActive, Commanded, Active,
            MonGate, Resting, LoadInFlight, Stopping, Openings, Openers, PlacesOK,
            LoaderOK, TypeOK
<1>1. CASE UserBreak \/ UserBreakToLauncher \/ ResbTask \/ EnumerationEnds
  BY <1>1 DEF UserBreak, SysStop, UserBreakToLauncher, IsLauncher, ResbTask,
     EnumerationEnds
<1>2. CASE RiaTimeout \/ RiaWritten \/ RiaDone \/ RamXram
  BY <1>2 DEF RiaTimeout, RiaWritten, VerifyStart, ActionStart, Restored, RiaDone,
     RomWritten, RamDone, Ended, RamXram
<1>3. CASE BusWrite \/ BusVerify \/ BusRead \/ Exit
  BY <1>3 DEF BusWrite, ActionEnd, BusVerify, BusRead, Exit, SysStop
<1>4. CASE WalkEnds \/ MonBreaks \/ HelpEnds \/ DumpReads \/ DumpEnds
            \/ MonPrompts \/ MonIdles
  BY <1>4 DEF WalkEnds, MonBreaks, HelpEnds, DumpReads, DumpRow, RiaReadBuf,
     ActionStart, DumpEnds, MonPrompts, Resting, MonIdles
<1>5. CASE OpenSucceeds \/ OpenFails
  BY <1>5 DEF OpenSucceeds, OpenFails
<1>6. CASE RamReceives \/ UploadReceives \/ ReceiveFails \/ MbufIdles
  BY <1>6 DEF RamReceives, MbufDone, RamWrites, RiaWriteBuf, VerifyStart,
     ActionStart, UploadReceives, ReceiveFails, MbufIdles
<1>7. CASE MonLoad \/ MonInfo
  BY <1>7 DEF MonLoad, MonEnter, MonLine, RomLoadArgv, RomExec, Open, MonInfo
<1>8. CASE MonReset \/ MonAddress \/ MonBinary \/ MonUpload
  BY <1>8 DEF MonReset, MonEnter, MonLine, SysRun, MonAddress, RiaReadBuf, RamWrites,
     RiaWriteBuf, VerifyStart, ActionStart, MonBinary, MonUpload
<1>9. CASE UploadSays \/ UploadEnds \/ RlnIdles
  BY <1>9 DEF UploadSays, UploadLine, UploadEnds, RlnIdles
<1>10. CASE RomCloses \/ RomWaits \/ RomXram \/ RomReads
  BY <1>10 DEF RomCloses, RomWaits, RomXram, RomReads
<1>11. CASE ReadRecord
  BY <1>11 DEF ReadRecord, RiaWriteBuf, VerifyStart, ActionStart
<1>12. CASE ReadEof \/ ReadFails
  BY <1>12 DEF ReadEof, SysRun, AtEnd, Complete, ReadFails
<1>13. CASE NfcTap
  BY <1>13 DEF NfcTap, RomLoadArgv, RomExec, Open, SysStop
<1>14. CASE NfcIdles
  BY <1>14 DEF NfcIdles
<1>15. CASE ApiExec
  BY <1>15 DEF ApiExec, ApiCalled, RomExec, Open, SysStop
<1>16. CASE ApiSetLauncher \/ ApiReadsLine \/ ApiIdles
  BY <1>16 DEF ApiSetLauncher, ApiCalled, ApiReadsLine, ApiIdles
<1>17. CASE CommitBreaking
  BY <1>17 DEF CommitBreaking, SysStop
<1>18. CASE CommitRun
  BY <1>18 DEF CommitRun
<1>19. CASE CommitStop
  BY <1>19 DEF CommitStop, IsLauncher, Open
<1>20. CASE CommitNothing \/ StopEnds
  BY <1>20 DEF CommitNothing, StopEnds
<1>21. CASE CommitBreak \/ CommitEnds
  BY <1>21 DEF CommitBreak, Restored, CommitEnds
<1>22. CASE UNCHANGED vars
  BY <1>22 DEF vars
<1> QED
  BY <1>1, <1>2, <1>3, <1>4, <1>5, <1>6, <1>7, <1>8, <1>9, <1>10, <1>11, <1>12,
     <1>13, <1>14, <1>15, <1>16, <1>17, <1>18, <1>19, <1>20, <1>21, <1>22 DEF Next,
     Tasks, Core1, Core0, IoTasks, MonTask, MbufTask, RlnTask, RomTask, Commit

(* Every load keeps the machine down, or ends with the stop that does.     *)
LEMMA LoadStep ==
    ASSUME Orderly, AnyInv, ControlInv, [Next]_vars
    PROVE  LoadInv'
<1>a. /\ TypeOK /\ ReadInv /\ BreakInv /\ LineInv /\ CommandInv
      /\ TransferInv /\ LoadInv /\ ~TapsOverLoads /\ ~TypesOverTaps
  BY DEF Orderly, AnyInv, ControlInv
<1> USE <1>a
<1> USE DEF CommandInv, LoadInv, TransferInv, LineInv, RomActive, Commanded, Active,
            MonGate, Resting, LoadInFlight, Stopping, Openings, Openers, PlacesOK,
            LoaderOK, TypeOK
<1>1. CASE UserBreak \/ UserBreakToLauncher \/ ResbTask \/ EnumerationEnds
  BY <1>1 DEF UserBreak, SysStop, UserBreakToLauncher, IsLauncher, ResbTask,
     EnumerationEnds
<1>2. CASE RiaTimeout \/ RiaWritten \/ RiaDone \/ RamXram
  BY <1>2 DEF RiaTimeout, RiaWritten, VerifyStart, ActionStart, Restored, RiaDone,
     RomWritten, RamDone, Ended, RamXram
<1>3. CASE BusWrite \/ BusVerify \/ BusRead \/ Exit
  BY <1>3 DEF BusWrite, ActionEnd, BusVerify, BusRead, Exit, SysStop
<1>4. CASE WalkEnds \/ MonBreaks \/ HelpEnds \/ DumpReads \/ DumpEnds
            \/ MonPrompts \/ MonIdles
  BY <1>4 DEF WalkEnds, MonBreaks, HelpEnds, DumpReads, DumpRow, RiaReadBuf,
     ActionStart, DumpEnds, MonPrompts, Resting, MonIdles
<1>5. CASE OpenSucceeds \/ OpenFails
  BY <1>5 DEF OpenSucceeds, OpenFails
<1>6. CASE RamReceives \/ UploadReceives \/ ReceiveFails \/ MbufIdles
  BY <1>6 DEF RamReceives, MbufDone, RamWrites, RiaWriteBuf, VerifyStart,
     ActionStart, UploadReceives, ReceiveFails, MbufIdles
<1>7. CASE MonLoad \/ MonInfo
  BY <1>7 DEF MonLoad, MonEnter, MonLine, RomLoadArgv, RomExec, Open, MonInfo
<1>8. CASE MonReset \/ MonAddress \/ MonBinary \/ MonUpload
  BY <1>8 DEF MonReset, MonEnter, MonLine, SysRun, MonAddress, RiaReadBuf, RamWrites,
     RiaWriteBuf, VerifyStart, ActionStart, MonBinary, MonUpload
<1>9. CASE UploadSays \/ UploadEnds \/ RlnIdles
  BY <1>9 DEF UploadSays, UploadLine, UploadEnds, RlnIdles
<1>10. CASE RomCloses \/ RomWaits \/ RomXram \/ RomReads
  BY <1>10 DEF RomCloses, RomWaits, RomXram, RomReads
<1>11. CASE ReadRecord
  BY <1>11 DEF ReadRecord, RiaWriteBuf, VerifyStart, ActionStart
<1>12. CASE ReadEof \/ ReadFails
  BY <1>12 DEF ReadEof, SysRun, AtEnd, Complete, ReadFails
<1>13. CASE NfcTap
  BY <1>13 DEF NfcTap, RomLoadArgv, RomExec, Open, SysStop
<1>14. CASE NfcIdles
  BY <1>14 DEF NfcIdles
<1>15. CASE ApiSetLauncher \/ ApiReadsLine \/ ApiIdles
  BY <1>15 DEF ApiSetLauncher, ApiCalled, ApiReadsLine, ApiIdles
<1>16. CASE CommitBreaking
  BY <1>16 DEF CommitBreaking, SysStop
<1>17. CASE CommitRun
  BY <1>17 DEF CommitRun
<1>18. CASE CommitStop
  BY <1>18 DEF CommitStop, IsLauncher, Open
<1>19. CASE CommitNothing \/ StopEnds
  BY <1>19 DEF CommitNothing, StopEnds
<1>20. CASE CommitBreak \/ CommitEnds
  BY <1>20 DEF CommitBreak, Restored, CommitEnds
<1>21. CASE ApiExec
  <2>1. sysState = "running" /\ romState \in {"idle", "running"} /\ romState' = romState
    BY <1>21 DEF ApiExec, ApiCalled, RomExec
  <2>2. CASE SysStop /\ \E p \in scene.programs : RomExec(p, "commit")
    <3>1. sysState' \in {"stopping", "stopped"}
      BY <2>2 DEF SysStop
    <3>2. pc' = "commit" \/ (pc' = "open" /\ opening'.back = "commit" /\ opening'.why = "exec")
      BY <2>2 DEF RomExec, Open
    <3> QED
      BY <2>1, <3>1, <3>2
  <2>3. CASE pc' = "commit" /\ UNCHANGED sysState
    BY <2>1, <2>3
  <2> QED
    BY <1>21, <2>2, <2>3 DEF ApiExec
<1>22. CASE UNCHANGED vars
  BY <1>22 DEF vars
<1> QED
  BY <1>1, <1>2, <1>3, <1>4, <1>5, <1>6, <1>7, <1>8, <1>9, <1>10, <1>11, <1>12,
     <1>13, <1>14, <1>15, <1>16, <1>17, <1>18, <1>19, <1>20, <1>21, <1>22 DEF Next,
     Tasks, Core1, Core0, IoTasks, MonTask, MbufTask, RlnTask, RomTask, Commit

(* A load keeps its file and its name.                                     *)
LEMMA PumpStep ==
    ASSUME Orderly, AnyInv, ControlInv, ImageInv, [Next]_vars
    PROVE  PumpInv'
<1>a. /\ TypeOK /\ ReadInv /\ BreakInv /\ LineInv /\ CommandInv
      /\ TransferInv /\ LoadInv /\ ~TapsOverLoads /\ ~TypesOverTaps
      /\ PumpInv /\ WriteInv /\ RunInv
  BY DEF Orderly, AnyInv, ControlInv, ImageInv
<1> USE <1>a
<1> USE DEF PumpInv, Loads, Pumps, MaybeProgram, ReadInv, RomActive, Commanded,
            Active, MonGate, Resting, LoadInFlight, Stopping, Openings, Openers,
            PlacesOK, LoaderOK, TypeOK, CommandInv, LoadInv, TransferInv, LineInv
<1>1. CASE UserBreak \/ UserBreakToLauncher \/ ResbTask \/ EnumerationEnds
  BY <1>1 DEF UserBreak, SysStop, UserBreakToLauncher, IsLauncher, ResbTask,
     EnumerationEnds
<1>2. CASE RiaTimeout \/ RiaWritten \/ RiaDone \/ RamXram
  BY <1>2 DEF RiaTimeout, RiaWritten, VerifyStart, ActionStart, Restored, RiaDone,
     RomWritten, RamDone, Ended, RamXram
<1>3. CASE BusWrite \/ BusVerify \/ BusRead \/ Exit
  BY <1>3 DEF BusWrite, ActionEnd, BusVerify, BusRead, Exit, SysStop
<1>4. CASE WalkEnds \/ MonBreaks \/ HelpEnds \/ DumpReads \/ DumpEnds
            \/ MonPrompts \/ MonIdles
  BY <1>4 DEF WalkEnds, MonBreaks, HelpEnds, DumpReads, DumpRow, RiaReadBuf,
     ActionStart, DumpEnds, MonPrompts, Resting, MonIdles
<1>5. CASE OpenSucceeds \/ OpenFails
  BY <1>5 DEF OpenSucceeds, OpenFails
<1>6. CASE RamReceives \/ UploadReceives \/ ReceiveFails \/ MbufIdles
  BY <1>6 DEF RamReceives, MbufDone, RamWrites, RiaWriteBuf, VerifyStart,
     ActionStart, UploadReceives, ReceiveFails, MbufIdles
<1>7. CASE MonLoad \/ MonInfo
  BY <1>7 DEF MonLoad, MonEnter, MonLine, RomLoadArgv, RomExec, Open, MonInfo
<1>8. CASE MonReset \/ MonAddress \/ MonBinary \/ MonUpload
  BY <1>8 DEF MonReset, MonEnter, MonLine, SysRun, MonAddress, RiaReadBuf, RamWrites,
     RiaWriteBuf, VerifyStart, ActionStart, MonBinary, MonUpload
<1>9. CASE UploadSays \/ UploadEnds \/ RlnIdles
  BY <1>9 DEF UploadSays, UploadLine, UploadEnds, RlnIdles
<1>10. CASE RomCloses \/ RomWaits \/ RomXram \/ RomReads
  BY <1>10 DEF RomCloses, RomWaits, RomXram, RomReads
<1>11. CASE ReadRecord
  BY <1>11 DEF ReadRecord, RiaWriteBuf, VerifyStart, ActionStart
<1>12. CASE ReadEof \/ ReadFails
  BY <1>12 DEF ReadEof, SysRun, AtEnd, Complete, ReadFails
<1>13. CASE NfcTap
  BY <1>13 DEF NfcTap, RomLoadArgv, RomExec, Open, SysStop
<1>14. CASE NfcIdles
  BY <1>14 DEF NfcIdles
<1>15. CASE ApiSetLauncher \/ ApiReadsLine \/ ApiIdles
  BY <1>15 DEF ApiSetLauncher, ApiCalled, ApiReadsLine, ApiIdles
<1>16. CASE CommitBreaking
  BY <1>16 DEF CommitBreaking, SysStop
<1>17. CASE CommitRun
  BY <1>17 DEF CommitRun
<1>18. CASE CommitStop
  BY <1>18 DEF CommitStop, IsLauncher, Open
<1>19. CASE CommitNothing \/ StopEnds
  BY <1>19 DEF CommitNothing, StopEnds
<1>20. CASE CommitBreak \/ CommitEnds
  BY <1>20 DEF CommitBreak, Restored, CommitEnds
<1>21. CASE ApiExec
  <2>1. romState' \notin Loads /\ pc' \in {"open", "commit"}
    BY <1>21 DEF ApiExec, ApiCalled, RomExec, Open
  <2>2. CASE \E p \in scene.programs : argv' = p /\ RomExec(p, "commit")
    <3>1. pc' = "open" => opening'.prog \in Programs /\ argv' = opening'.prog
      BY <2>2, SceneFacts DEF RomExec, Open
    <3> QED
      BY <2>1, <3>1
  <2>3. CASE pc' = "commit"
    BY <2>1, <2>3
  <2> QED
    BY <1>21, <2>2, <2>3 DEF ApiExec
<1>22. CASE UNCHANGED vars
  BY <1>22 DEF vars
<1> QED
  BY <1>1, <1>2, <1>3, <1>4, <1>5, <1>6, <1>7, <1>8, <1>9, <1>10, <1>11, <1>12,
     <1>13, <1>14, <1>15, <1>16, <1>17, <1>18, <1>19, <1>20, <1>21, <1>22 DEF Next,
     Tasks, Core1, Core0, IoTasks, MonTask, MbufTask, RlnTask, RomTask, Commit

(* What is in place stays in place as long as only the program's own bytes *)
(* are written.                                                            *)
LEMMA PlacedKept ==
    ASSUME NEW m, NEW n, NEW p \in Programs, NEW k \in Nat, k <= Len(Image[p]),
           Placed(m, p, k), \A l \in Locations : n[l] = m[l] \/ n[l] = p
    PROVE  Placed(n, p, k)
<1>1. \A i \in 1..k : Image[p][i] \subseteq Locations
  BY DEF Records, Locations
<1> QED
  BY <1>1 DEF Placed

LEMMA PlacedNext ==
    ASSUME NEW m, NEW p, NEW k \in Nat, k > 0, Placed(m, p, k - 1),
           \A l \in Image[p][k] : m[l] = p
    PROVE  Placed(m, p, k)
BY DEF Placed

(* The memory as it is once the loop is gone.                              *)
LEMMA RestoredAt ==
    ASSUME MemoryOK
    PROVE  /\ Restored \in Mem
           /\ \A l \in Locations : Restored[l] =
                 IF l = "vec" /\ saved # "nothing" THEN saved ELSE mem[l]
BY DEF MemoryOK, Mem, Restored, Locations, Bytes

LEMMA RestoredLater ==
    ASSUME MemoryOK'
    PROVE  \A l \in Locations : Restored'[l] =
              IF l = "vec" /\ saved' # "nothing" THEN saved' ELSE mem'[l]
BY DEF MemoryOK, Mem, Restored, Locations, Bytes

(* What a transfer saves is what it restores.                              *)
LEMMA StartRestores ==
    ASSUME MemoryOK', NEW m \in Mem, ActionStart(m)
    PROVE  \A l \in Locations : Restored'[l] = m[l]
<1>1. "vec" \in Locations /\ m["vec"] \in Bytes
  BY DEF Mem, Locations
<1>2. saved' = m["vec"] /\ saved' # "nothing" /\ mem' = [m EXCEPT !.vec = "loop"]
  BY <1>1 DEF ActionStart, Bytes, MaybeProgram
<1> QED
  BY <1>1, <1>2, RestoredLater DEF Mem

LEMMA VerifyRestores ==
    ASSUME MemoryOK', NEW m \in Mem, NEW record, NEW data, VerifyStart(m, "nothing", record, data)
    PROVE  /\ \A l \in Locations : Restored'[l] = m[l]
           /\ act' = "verify"
           /\ "vec" \in record /\ res' # "failed" => m["vec"] = data
           /\ "ram" \in record => res' # "finished"
<1>1. CASE ActionStart(m) /\ res' = "none" /\ ~("vec" \in record /\ m["vec"] # data)
  BY <1>1, StartRestores DEF VerifyStart
<1>2. CASE /\ mem' = m /\ saved' = "nothing"
           /\ ("vec" \in record /\ m["vec"] # data) \/ "ram" \notin record
           /\ res' = IF "vec" \in record /\ m["vec"] # data THEN "failed" ELSE "finished"
  BY <1>2, RestoredLater DEF VerifyStart
<1> QED
  BY <1>1, <1>2 DEF VerifyStart

(* No load, or none of what it rests on is touched.                        *)
LEMMA WriteFrame ==
    ASSUME WriteInv, TypeOK,
           \/ romState' \notin Loads
           \/ /\ UNCHANGED <<romState, mem, saved, mbuf, rec, act>>
              /\ pump'.prog = pump.prog /\ pump'.pos = pump.pos
              /\ res' = res \/ res' = "failed" \/ act = "idle"
    PROVE  WriteInv'
<1>1. CASE romState' \notin Loads
  BY <1>1 DEF WriteInv, Loads
<1>2. CASE /\ UNCHANGED <<romState, mem, saved, mbuf, rec, act>>
           /\ pump'.prog = pump.prog /\ pump'.pos = pump.pos
           /\ res' = res \/ res' = "failed" \/ act = "idle"
  <2>1. Restored' = Restored
    BY <1>2 DEF Restored
  <2> QED
    BY <1>2, <2>1 DEF WriteInv
<1> QED
  BY <1>1, <1>2

(* A record is read, and put on its way to the memory.                     *)
LEMMA RecordRead ==
    ASSUME TypeOK, TypeOK', ReadInv, TransferInv, LoadInv, CommandInv,
           PumpInv, WriteInv, ReadRecord
    PROVE  WriteInv'
<1> DEFINE p == pump.prog
           k == pump.pos + 1
           record == Image[p][k]
           m == IF "vec" \in record THEN [mem EXCEPT !.vec = p] ELSE mem
<1>1. /\ p \in Programs /\ pump.pos \in Nat /\ k \in 1..Len(Image[p])
      /\ p \in Bytes /\ record \in Records
  BY DEF ReadRecord, ReadInv, Pumps, TypeOK, LoaderOK, Bytes, MaybeProgram
<1>2. pump'.prog = p /\ pump'.pos = k /\ rec' = record /\ mbuf'.prog = p
  BY DEF ReadRecord, TypeOK, LoaderOK, Pumps
<1>3. romState = "loading" /\ act = "idle" /\ saved = "nothing"
  BY DEF ReadRecord, LoadInv, TransferInv, TypeOK, MemoryOK, PlacesOK, CommandInv,
     Commanded, RomActive
<1>4. Restored = mem /\ Placed(mem, p, pump.pos)
  BY <1>3 DEF Restored, WriteInv
<1>5. m \in Mem /\ \A l \in Locations : m[l] = mem[l] \/ m[l] = p
  BY <1>1 DEF Mem, Locations, TypeOK, MemoryOK
<1>6. "vec" \in record => m["vec"] = p
  BY DEF TypeOK, MemoryOK, Locations
<1>7. pump.pos <= Len(Image[p]) /\ k - 1 = pump.pos /\ k > 0
  BY <1>1
<1> HIDE DEF p, k, record, m
<1>8. CASE record = {"xram"} /\ romState' = "xramWriting" /\ UNCHANGED <<ria, pending>>
  <2>1. Restored' = Restored
    BY <1>8 DEF Restored
  <2>2. Placed(Restored', p, k - 1)
    BY <2>1, <1>4, <1>7
  <2> QED
    BY <1>2, <1>7, <1>8, <2>2 DEF WriteInv, record, p, k
<1>9. CASE record # {"xram"} /\ romState' = "riaWriting" /\ RiaWriteBuf(record, p, "rom")
  <2>1. /\ \A l \in Locations : Restored'[l] = m[l]
        /\ act' \in {"write", "verify"}
        /\ act' = "verify" => /\ "vec" \in record /\ res' # "failed" => m["vec"] = p
                              /\ "ram" \in record => res' # "finished"
    <3>1. CASE "ram" \notin record /\ VerifyStart(m, saved, record, p)
      BY <1>3, <1>5, <3>1, VerifyRestores DEF TypeOK
    <3>2. CASE "ram" \in record /\ act' = "write" /\ ActionStart(m)
      BY <1>5, <3>2, StartRestores DEF TypeOK
    <3> QED
      BY <1>9, <3>1, <3>2 DEF RiaWriteBuf, m
  <2>2. Placed(Restored', p, k - 1)
    <3>1. \A l \in Locations : Restored'[l] = mem[l] \/ Restored'[l] = p
      BY <1>5, <2>1
    <3> QED
      BY <1>1, <1>4, <1>7, <3>1, PlacedKept
  <2>3. "vec" \in record => Restored'["vec"] = m["vec"]
    BY <2>1 DEF Locations
  <2> QED
    BY <1>2, <1>7, <1>9, <2>1, <2>2, <2>3 DEF WriteInv, record, p, k
<1> QED
  BY <1>8, <1>9 DEF ReadRecord, record, p, k

(* Records stay in place while the next ones are written.                  *)
LEMMA WriteStep ==
    ASSUME TypeOK', Orderly, AnyInv, ControlInv, ImageInv, [Next]_vars
    PROVE  WriteInv'
<1>a. /\ TypeOK /\ ReadInv /\ BreakInv /\ LineInv /\ CommandInv
      /\ TransferInv /\ LoadInv /\ ~TapsOverLoads /\ ~TypesOverTaps
      /\ PumpInv /\ WriteInv /\ RunInv
  BY DEF Orderly, AnyInv, ControlInv, ImageInv
<1> USE <1>a
<1>1. CASE DumpReads \/ DumpEnds \/ MonPrompts
  <2>1. romState' \notin Loads
    BY <1>1 DEF DumpReads, DumpRow, DumpEnds, MonPrompts, Resting, Loads, WriteInv,
       TypeOK, PlacesOK, CommandInv, Commanded, TransferInv, LoadInv, RomActive,
       Active, LoadInFlight
  <2> QED
    BY <2>1, WriteFrame
<1>2. CASE BusRead
  <2>1. romState' \notin Loads
    BY <1>2 DEF BusRead, Loads, WriteInv, TypeOK, PlacesOK, CommandInv, Commanded,
       TransferInv, LoadInv, RomActive, Active, LoadInFlight
  <2> QED
    BY <2>1, WriteFrame
<1>3. CASE OpenFails
  <2>1. romState' \notin Loads
    BY <1>3 DEF OpenFails, Loads, WriteInv, TypeOK, PlacesOK, CommandInv, Commanded,
       TransferInv, LoadInv, RomActive, Active, LoadInFlight
  <2> QED
    BY <2>1, WriteFrame
<1>4. CASE RamReceives \/ UploadReceives \/ ReceiveFails
  <2>1. romState' \notin Loads
    BY <1>4 DEF RamReceives, MbufDone, UploadReceives, ReceiveFails, Loads, WriteInv,
       TypeOK, PlacesOK, CommandInv, Commanded, TransferInv, LoadInv, RomActive,
       Active, LoadInFlight
  <2> QED
    BY <2>1, WriteFrame
<1>5. CASE MonLoad \/ MonInfo
  <2>1. romState' \notin Loads
    BY <1>5 DEF MonLoad, MonEnter, MonLine, RomLoadArgv, RomExec, MonInfo, Loads,
       WriteInv, TypeOK, PlacesOK, CommandInv, Commanded, TransferInv, LoadInv,
       RomActive, Active, LoadInFlight
  <2> QED
    BY <2>1, WriteFrame
<1>6. CASE MonReset \/ MonAddress \/ MonBinary \/ MonUpload
  <2>1. romState' \notin Loads
    BY <1>6 DEF MonReset, MonEnter, MonLine, MonAddress, MonBinary, MonUpload, Loads,
       WriteInv, TypeOK, PlacesOK, CommandInv, Commanded, TransferInv, LoadInv,
       RomActive, Active, LoadInFlight
  <2> QED
    BY <2>1, WriteFrame
<1>7. CASE RomCloses \/ ReadFails \/ CommitBreak
  <2>1. romState' \notin Loads
    BY <1>7 DEF RomCloses, ReadFails, CommitBreak, Loads, WriteInv, TypeOK, PlacesOK,
       CommandInv, Commanded, TransferInv, LoadInv, RomActive, Active, LoadInFlight
  <2> QED
    BY <2>1, WriteFrame
<1>8. CASE NfcTap
  <2>1. romState' \notin Loads
    BY <1>8 DEF NfcTap, RomLoadArgv, RomExec, Loads, WriteInv, TypeOK, PlacesOK,
       CommandInv, Commanded, TransferInv, LoadInv, RomActive, Active, LoadInFlight
  <2> QED
    BY <2>1, WriteFrame
<1>9. CASE ApiExec
  <2>1. romState' \notin Loads
    BY <1>9 DEF ApiExec, ApiCalled, RomExec, Loads, WriteInv, TypeOK, PlacesOK,
       CommandInv, Commanded, TransferInv, LoadInv, RomActive, Active, LoadInFlight
  <2> QED
    BY <2>1, WriteFrame
<1>10. CASE MonBreaks \/ HelpEnds
  BY <1>10, WriteFrame DEF MonBreaks, HelpEnds, Loads
<1>11. CASE WalkEnds \/ MonIdles \/ Exit \/ MbufIdles \/ UploadSays \/ UploadEnds
            \/ RlnIdles
  BY <1>11, WriteFrame DEF WalkEnds, MonIdles, Exit, MbufIdles, UploadSays,
     UploadLine, UploadEnds, RlnIdles, Loads
<1>12. CASE UserBreak \/ UserBreakToLauncher \/ ResbTask \/ EnumerationEnds \/ RamXram
  BY <1>12, WriteFrame DEF UserBreak, UserBreakToLauncher, ResbTask, EnumerationEnds,
     RamXram, Loads
<1>13. CASE RomWaits \/ RomReads \/ NfcIdles \/ ApiSetLauncher \/ ApiReadsLine
            \/ ApiIdles
  BY <1>13, WriteFrame DEF RomWaits, RomReads, NfcIdles, ApiSetLauncher, ApiCalled,
     ApiReadsLine, ApiIdles, Loads
<1>14. CASE CommitBreaking \/ CommitRun \/ CommitNothing \/ StopEnds \/ CommitEnds
  BY <1>14, WriteFrame DEF CommitBreaking, CommitRun, CommitNothing, StopEnds,
     CommitEnds, Loads
<1>15. CASE ReadEof
  <2>1. CASE romState' = romState
    <3>1. UNCHANGED pump
      BY <1>15, <2>1 DEF ReadEof, LoadInv
    <3> QED
      BY <1>15, <2>1, <3>1, WriteFrame DEF ReadEof
  <2>2. CASE romState' \in {"idle", "running"}
    BY <2>2, WriteFrame DEF Loads
  <2> QED
    BY <1>15, <2>1, <2>2 DEF ReadEof
<1>16. CASE CommitStop
  <2>1. CASE romState \in Loads
    <3>1. UNCHANGED <<ria, rom>>
      BY <1>16, <2>1 DEF CommitStop, Loads
    <3> QED
      BY <3>1, WriteFrame
  <2>2. CASE romState \notin Loads
    <3>1. romState' \notin Loads
      BY <1>16, <2>2 DEF CommitStop, Loads
    <3> QED
      BY <3>1, WriteFrame
  <2> QED
    BY <2>1, <2>2
<1>17. CASE OpenSucceeds
  <2>1. romState' = "loading" => pump'.pos = 0
    BY <1>17 DEF OpenSucceeds, LoadInv
  <2>2. Placed(Restored', pump'.prog, 0)
    BY DEF Placed
  <2>3. romState' \notin {"xramWriting", "riaWriting"}
    BY <1>17 DEF OpenSucceeds, LoadInv
  <2> QED
    BY <2>1, <2>2, <2>3 DEF WriteInv
<1>18. CASE RiaTimeout
  BY <1>18, WriteFrame DEF RiaTimeout
<1>19. CASE RiaWritten
  <2>1. VerifyStart(Restored, "nothing", rec, mbuf.prog)
        /\ UNCHANGED <<romState, pump, rec, mbuf>>
    BY <1>19 DEF RiaWritten
  <2>2. /\ \A l \in Locations : Restored'[l] = Restored[l]
        /\ act' = "verify"
        /\ "vec" \in rec /\ res' # "failed" => Restored["vec"] = mbuf.prog
        /\ "ram" \in rec => res' # "finished"
    BY <2>1, RestoredAt, VerifyRestores DEF TypeOK
  <2>3. Restored'["vec"] = Restored["vec"]
    BY <2>2 DEF Locations
  <2>4. CASE romState = "riaWriting"
    <3>1. pump.prog \in Programs /\ pump.pos - 1 \in Nat /\ pump.pos - 1 <= Len(Image[pump.prog])
      BY <2>4 DEF PumpInv, WriteInv, Loads, TypeOK, LoaderOK, Pumps
    <3>2. Placed(Restored', pump.prog, pump.pos - 1)
      BY <2>2, <2>4, <3>1, PlacedKept DEF WriteInv
    <3> QED
      BY <2>1, <2>2, <2>3, <2>4, <3>2 DEF WriteInv
  <2>5. CASE romState # "riaWriting"
    <3>1. romState' \notin Loads
      BY <1>19, <2>1, <2>5 DEF RiaWritten, TransferInv, CommandInv, Commanded,
         RomActive, TypeOK, PlacesOK, Loads
    <3> QED
      BY <3>1, WriteFrame
  <2> QED
    BY <2>4, <2>5
<1>20. CASE RiaDone
  <2>1. UNCHANGED <<pump, rec, mbuf>> /\ act # "idle" /\ Restored' = Restored
    BY <1>20 DEF RiaDone, Ended, Restored
  <2>2. CASE client = "ram"
    <3>1. romState' \notin Loads
      BY <1>20, <2>1, <2>2 DEF RiaDone, RamDone, RomWritten, TransferInv, CommandInv,
         Commanded, RomActive, Loads
    <3> QED
      BY <3>1, WriteFrame
  <2>3. CASE client = "rom" /\ res # "finished"
    BY <1>20, <2>3, WriteFrame DEF RiaDone, RomWritten, RamDone, Loads
  <2>4. CASE client = "rom" /\ res = "finished"
    <3>1. romState = "riaWriting" /\ act = "verify" /\ romState' = "loading"
      BY <1>20, <2>1, <2>4 DEF RiaDone, Ended, RomWritten, RamDone, TransferInv,
         WriteInv
    <3>2. /\ pump.prog \in Programs /\ pump.pos \in Nat /\ pump.pos > 0
          /\ pump.pos <= Len(Image[pump.prog])
      BY <3>1 DEF PumpInv, WriteInv, Loads, TypeOK, LoaderOK, Pumps
    <3>3. rec \in Records /\ rec # {"xram"} /\ "xram" \notin rec /\ rec = Image[pump.prog][pump.pos]
      BY <3>1 DEF WriteInv, TypeOK, LoaderOK, Records
    <3>4. \A l \in rec : Restored[l] = pump.prog
      <4>1. "vec" \in rec => Restored["vec"] = pump.prog
        BY <2>4, <3>1 DEF WriteInv
      <4>2. "ram" \in rec => Restored["ram"] = pump.prog
        BY <2>4, <3>1, RestoredAt DEF WriteInv, TypeOK, Locations
      <4> QED
        BY <3>3, <4>1, <4>2 DEF Records
    <3>5. Placed(Restored, pump.prog, pump.pos)
      BY <3>1, <3>2, <3>3, <3>4, PlacedNext DEF WriteInv
    <3> QED
      BY <2>1, <3>1, <3>5 DEF WriteInv
  <2> QED
    BY <2>2, <2>3, <2>4 DEF TypeOK, PlacesOK
<1>21. CASE BusWrite
  <2>1. UNCHANGED <<romState, pump, rec, mbuf, act, saved>> /\ act = "write"
        /\ mem' = [mem EXCEPT !.ram = mbuf.prog]
    BY <1>21 DEF BusWrite
  <2>2. CASE romState = "riaWriting"
    <3>1. /\ pump.prog \in Programs /\ pump.pos - 1 \in Nat
          /\ pump.pos - 1 <= Len(Image[pump.prog]) /\ mbuf.prog = pump.prog
      BY <2>2 DEF PumpInv, WriteInv, Loads, TypeOK, LoaderOK, Pumps
    <3>2. \A l \in Locations : Restored'[l] = Restored[l] \/ Restored'[l] = pump.prog
      BY <2>1, <3>1, RestoredAt, RestoredLater DEF TypeOK, MemoryOK
    <3>3. Placed(Restored', pump.prog, pump.pos - 1)
      BY <2>2, <3>1, <3>2, PlacedKept DEF WriteInv
    <3> QED
      BY <2>1, <2>2, <3>3 DEF WriteInv
  <2>3. CASE romState # "riaWriting"
    <3>1. romState' \notin Loads
      BY <1>21, <2>1, <2>3 DEF TransferInv, CommandInv, Commanded, RomActive, TypeOK,
         PlacesOK, Loads
    <3> QED
      BY <3>1, WriteFrame
  <2> QED
    BY <2>2, <2>3
<1>22. CASE BusVerify
  <2>1. /\ UNCHANGED <<romState, pump, rec, mbuf, act, saved, mem>> /\ act = "verify"
        /\ res' = "finished" => mem["ram"] = mbuf.prog
        /\ res = "none"
    BY <1>22 DEF BusVerify, ActionEnd
  <2>2. Restored' = Restored
    BY <2>1 DEF Restored
  <2> QED
    BY <2>1, <2>2 DEF WriteInv
<1>23. CASE RomXram
  <2>1. /\ romState = "xramWriting" /\ romState' = "loading"
        /\ UNCHANGED <<pump, saved>> /\ mem' = [mem EXCEPT !.xram = mbuf.prog]
    BY <1>23 DEF RomXram
  <2>2. /\ pump.prog \in Programs /\ pump.pos \in Nat /\ pump.pos > 0
        /\ pump.pos <= Len(Image[pump.prog]) /\ mbuf.prog = pump.prog
        /\ pump.pos - 1 \in Nat /\ pump.pos - 1 <= Len(Image[pump.prog])
        /\ Image[pump.prog][pump.pos] = {"xram"}
    BY <2>1 DEF PumpInv, WriteInv, Loads, TypeOK, LoaderOK, Pumps
  <2>3. /\ \A l \in Locations : Restored'[l] = Restored[l] \/ Restored'[l] = pump.prog
        /\ Restored'["xram"] = pump.prog
    BY <2>1, <2>2, RestoredAt, RestoredLater DEF TypeOK, MemoryOK, Locations
  <2>4. Placed(Restored', pump.prog, pump.pos - 1)
    BY <2>1, <2>2, <2>3, PlacedKept DEF WriteInv
  <2>5. Placed(Restored', pump.prog, pump.pos)
    BY <2>2, <2>3, <2>4, PlacedNext
  <2> QED
    BY <2>1, <2>5 DEF WriteInv
<1>24. CASE ReadRecord
  BY <1>24, RecordRead
<1>25. CASE UNCHANGED vars
  BY <1>25, WriteFrame DEF vars
<1> QED
  BY <1>1, <1>2, <1>3, <1>4, <1>5, <1>6, <1>7, <1>8, <1>9, <1>10, <1>11, <1>12,
     <1>13, <1>14, <1>15, <1>16, <1>17, <1>18, <1>19, <1>20, <1>21, <1>22, <1>23,
     <1>24, <1>25 DEF Next, Tasks, Core1, Core0, IoTasks, MonTask, MbufTask, RlnTask,
     RomTask, Commit

(* A program that starts has its image in place, and it stays there.       *)
LEMMA RunStep ==
    ASSUME Orderly, AnyInv, ControlInv, ImageInv, [Next]_vars
    PROVE  RunInv'
<1>a. /\ TypeOK /\ ReadInv /\ BreakInv /\ LineInv /\ CommandInv
      /\ TransferInv /\ LoadInv /\ ~TapsOverLoads /\ ~TypesOverTaps
      /\ PumpInv /\ WriteInv /\ RunInv
  BY DEF Orderly, AnyInv, ControlInv, ImageInv
<1> USE <1>a
<1> USE DEF RunInv, PumpInv, WriteInv, Restored, Loads, Pumps, MaybeProgram, ReadInv,
            BreakInv, MemoryOK, RomActive, Commanded, Active, MonGate, Resting,
            LoadInFlight, Stopping, Openings, Openers, PlacesOK, LoaderOK, TypeOK,
            CommandInv, LoadInv, TransferInv, LineInv
<1>1. CASE UserBreak \/ UserBreakToLauncher \/ ResbTask \/ EnumerationEnds
  BY <1>1 DEF UserBreak, SysStop, UserBreakToLauncher, IsLauncher, ResbTask,
     EnumerationEnds
<1>2. CASE RiaTimeout \/ RiaWritten \/ RiaDone \/ RamXram
  BY <1>2 DEF RiaTimeout, RiaWritten, VerifyStart, ActionStart, Restored, RiaDone,
     RomWritten, RamDone, Ended, RamXram
<1>3. CASE BusWrite \/ BusVerify \/ BusRead \/ Exit
  BY <1>3 DEF BusWrite, ActionEnd, BusVerify, BusRead, Exit, SysStop
<1>4. CASE WalkEnds \/ MonBreaks \/ HelpEnds \/ DumpReads \/ DumpEnds
            \/ MonPrompts \/ MonIdles
  BY <1>4 DEF WalkEnds, MonBreaks, HelpEnds, DumpReads, DumpRow, RiaReadBuf,
     ActionStart, DumpEnds, MonPrompts, Resting, MonIdles
<1>5. CASE OpenSucceeds \/ OpenFails
  BY <1>5 DEF OpenSucceeds, OpenFails
<1>6. CASE RamReceives \/ UploadReceives \/ ReceiveFails \/ MbufIdles
  BY <1>6 DEF RamReceives, MbufDone, RamWrites, RiaWriteBuf, VerifyStart,
     ActionStart, UploadReceives, ReceiveFails, MbufIdles
<1>7. CASE MonLoad \/ MonInfo
  BY <1>7 DEF MonLoad, MonEnter, MonLine, RomLoadArgv, RomExec, Open, MonInfo
<1>8. CASE MonReset \/ MonAddress \/ MonBinary \/ MonUpload
  BY <1>8 DEF MonReset, MonEnter, MonLine, SysRun, MonAddress, RiaReadBuf, RamWrites,
     RiaWriteBuf, VerifyStart, ActionStart, MonBinary, MonUpload
<1>9. CASE UploadSays \/ UploadEnds \/ RlnIdles
  BY <1>9 DEF UploadSays, UploadLine, UploadEnds, RlnIdles
<1>10. CASE RomCloses \/ RomWaits \/ RomXram \/ RomReads
  BY <1>10 DEF RomCloses, RomWaits, RomXram, RomReads
<1>11. CASE ReadRecord
  BY <1>11 DEF ReadRecord, RiaWriteBuf, VerifyStart, ActionStart
<1>12. CASE NfcTap
  BY <1>12 DEF NfcTap, RomLoadArgv, RomExec, Open, SysStop
<1>13. CASE NfcIdles
  BY <1>13 DEF NfcIdles
<1>14. CASE ApiSetLauncher \/ ApiReadsLine \/ ApiIdles
  BY <1>14 DEF ApiSetLauncher, ApiCalled, ApiReadsLine, ApiIdles
<1>15. CASE CommitBreaking
  BY <1>15 DEF CommitBreaking, SysStop
<1>16. CASE CommitRun
  BY <1>16 DEF CommitRun
<1>17. CASE CommitStop
  BY <1>17 DEF CommitStop, IsLauncher, Open
<1>18. CASE CommitNothing \/ StopEnds
  BY <1>18 DEF CommitNothing, StopEnds
<1>19. CASE CommitBreak \/ CommitEnds
  BY <1>19 DEF CommitBreak, Restored, CommitEnds
<1>20. CASE ReadFails
  BY <1>20 DEF ReadFails
<1>21. CASE ReadEof
  <2>1. /\ romState = "loading" /\ sysState = "stopped" /\ running' = running /\ argv' = argv
        /\ UNCHANGED <<mem, saved>> /\ pump'.prog = pump.prog
    BY <1>21 DEF ReadEof, LoadInv, TypeOK, LoaderOK, Pumps
  <2>2. Restored' = Restored
    BY <2>1 DEF Restored
  <2>3. CASE romState' = "running"
    <3>1. asset' = pump.prog /\ sysState' = "starting" /\ AtEnd
      BY <1>21, <2>1, <2>3 DEF ReadEof, SysRun, PumpInv, Loads
    <3>2. pump.prog \in Packed => pump.pos = Len(Image[pump.prog])
      BY <3>1 DEF AtEnd
    <3> QED
      BY <2>1, <2>2, <2>3, <3>1, <3>2 DEF RunInv, PumpInv, WriteInv, Loads
  <2>4. CASE romState' # "running"
    BY <2>4 DEF RunInv
  <2> QED
    BY <2>3, <2>4
<1>22. CASE ApiExec
  <2>1. CASE SysStop
    BY <1>22, <2>1 DEF SysStop, ApiExec, ApiCalled
  <2>2. CASE sysState = "running" /\ UNCHANGED <<opening, rom, sysState, running, ria>>
    BY <2>2
  <2> QED
    BY <1>22, <2>1, <2>2 DEF ApiExec, ApiCalled
<1>23. CASE UNCHANGED vars
  BY <1>23 DEF vars
<1> QED
  BY <1>1, <1>2, <1>3, <1>4, <1>5, <1>6, <1>7, <1>8, <1>9, <1>10, <1>11, <1>12,
     <1>13, <1>14, <1>15, <1>16, <1>17, <1>18, <1>19, <1>20, <1>21, <1>22,
     <1>23 DEF Next, Tasks, Core1, Core0, IoTasks, MonTask, MbufTask, RlnTask,
     RomTask, Commit
----------------------------------------------------------------------------
LEMMA TypeStep ==
    ASSUME TypeOK, ReadInv, [Next]_vars
    PROVE  TypeOK'
BY FlagsStep, PlacesStep, MemoryStep, LoaderStep DEF TypeOK

LEMMA InitIsAny == Init => AnyInv
<1> SUFFICES ASSUME Init PROVE AnyInv
  OBVIOUS
<1>1. FlagsOK
  BY DEF Init, FlagsOK
<1>2. PlacesOK
  BY DEF Init, PlacesOK, Walk
<1>3. PICK boot \in Programs \cup {None} :
         /\ romState = IF boot = None THEN "idle" ELSE "loading"
         /\ pump = [prog |-> boot, pos |-> 0, open |-> boot # None]
         /\ argv = boot
  BY DEF Init
<1>4. pump \in Pumps /\ pump.prog = boot
  BY <1>3 DEF Pumps, MaybeProgram
<1>5. opening \in Openings /\ mbuf \in Buffers /\ rec \in Records
  BY DEF Init, Openings, Openers, Buffers, Scratch, MaybeProgram, Records
<1>6. LoaderOK
  BY <1>3, <1>4, <1>5 DEF Init, LoaderOK, MaybeProgram
<1>7. MemoryOK
  BY DEF Init, MemoryOK, Bytes, MaybeProgram
<1>8. ReadInv
  BY <1>3, <1>4 DEF Init, ReadInv, RomActive
<1>9. BreakInv
  BY DEF Init, BreakInv, Stopping
<1> QED
  BY <1>1, <1>2, <1>6, <1>7, <1>8, <1>9 DEF AnyInv, TypeOK

(* What every environment keeps to: the types, what is opened and read,    *)
(* and what a break ends.                                                  *)
THEOREM Inductive == Spec => []AnyInv
<1>1. AnyInv /\ [Next]_vars => AnyInv'
  BY TypeStep, ReadStep, BreakStep DEF AnyInv
<1> QED
  BY <1>1, InitIsAny, PTL DEF Spec

(* The variables have their types, whatever is loaded over what.           *)
THEOREM TypeCorrect == Spec => []TypeOK
BY Inductive, PTL DEF AnyInv

(* After a break nothing runs, loads, receives or is about to, in every    *)
(* environment (sys.c: sys_commit; core/api/proc.c: proc_break).           *)
THEOREM BreakEndsTheChain == Spec => BreakEndsChain
<1>1. AnyInv /\ [Next]_vars =>
         (sysBreaking /\ ~sysBreaking' =>
            /\ sysState' = "stopped" /\ running' = None
            /\ romState' = "idle" /\ act' = "idle"
            /\ launcher' = None /\ ram' = "idle" /\ ~fil' /\ chunk' = "none")
  BY BreakHooks DEF AnyInv, BreakInv, CommitBreak
<1> QED
  BY <1>1, Inductive, PTL DEF Spec, BreakEndsChain

----------------------------------------------------------------------------
LEMMA InitIsOrderly == Init => OrderlyInv
<1> SUFFICES ASSUME Init PROVE OrderlyInv
  OBVIOUS
<1>1. AnyInv
  BY InitIsAny
<1>2. LineInv /\ CommandInv
  BY DEF Init, LineInv, CommandInv, Commanded
<1>3. TransferInv /\ LoadInv
  BY DEF Init, TransferInv, LoadInv
<1>4. PICK boot \in Programs \cup {None} :
         /\ romState = IF boot = None THEN "idle" ELSE "loading"
         /\ pump = [prog |-> boot, pos |-> 0, open |-> boot # None]
         /\ argv = boot
  BY DEF Init
<1>5. PumpInv
  <2>1. pump.pos = 0 /\ pump.prog = boot /\ (romState \in Loads => boot \in Programs /\ pump.open)
    BY <1>4 DEF Loads
  <2>2. \A p \in Programs : 0 <= Len(Image[p])
    OBVIOUS
  <2> QED
    BY <1>4, <2>1, <2>2 DEF Init, PumpInv
<1>6. WriteInv
  BY <1>4 DEF WriteInv, Placed
<1>7. RunInv
  BY DEF Init, RunInv
<1> QED
  BY <1>1, <1>2, <1>3, <1>5, <1>6, <1>7 DEF OrderlyInv, ControlInv, ImageInv

(* What an orderly environment keeps to besides: commands, loads and       *)
(* programs exclude each other, and the records read are in place.         *)
THEOREM OrderlyInductive == ASSUME Orderly PROVE Spec => []OrderlyInv
<1>1. OrderlyInv /\ [Next]_vars => OrderlyInv'
  <2> SUFFICES ASSUME OrderlyInv, [Next]_vars PROVE OrderlyInv'
    OBVIOUS
  <2>1. AnyInv'
    BY TypeStep, ReadStep, BreakStep DEF OrderlyInv, AnyInv
  <2>2. ControlInv'
    BY LineStep, CommandStep, TransferStep, LoadStep
       DEF Orderly, OrderlyInv, AnyInv, ControlInv
  <2>3. ImageInv'
    BY <2>1, PumpStep, WriteStep, RunStep
       DEF Orderly, OrderlyInv, AnyInv, ControlInv, ImageInv
  <2> QED
    BY <2>1, <2>2, <2>3 DEF OrderlyInv
<1> QED
  BY <1>1, InitIsOrderly, PTL DEF Spec

(* In an orderly environment no transfer takes the 6502 over, and no       *)
(* record is read, unless the machine is down (ria.c's assertions).        *)
THEOREM TransfersKeepOut == ASSUME Orderly PROVE Spec => []TransferWhileStopped
<1>1. OrderlyInv => TransferWhileStopped
  BY DEF OrderlyInv, ControlInv, TransferInv, LoadInv, TransferWhileStopped
<1> QED
  BY <1>1, OrderlyInductive, PTL

(* In an orderly environment a packed program that starts or runs has      *)
(* every byte of its image in place, and its name and assets are its own.  *)
THEOREM ProgramsAreTheirImages == ASSUME Orderly PROVE Spec => []RunsItsImage
<1>1. OrderlyInv => RunsItsImage
  <2> SUFFICES ASSUME OrderlyInv, sysState \in {"starting", "running"}, romState = "running"
               PROVE  /\ pump.prog \in Packed =>
                            \A i \in 1..Len(Image[pump.prog]) :
                                \A l \in Image[pump.prog][i] : mem[l] = pump.prog
                      /\ sysState = "running" => running = pump.prog /\ asset = running
    BY DEF RunsItsImage
  <2>1. act = "idle" /\ saved = "nothing"
    BY DEF OrderlyInv, AnyInv, TypeOK, MemoryOK, ControlInv, TransferInv
  <2>2. Restored = mem
    BY <2>1 DEF Restored
  <2> QED
    BY <2>2 DEF OrderlyInv, ImageInv, RunInv, Placed
<1> QED
  BY <1>1, OrderlyInductive, PTL

============================================================================
