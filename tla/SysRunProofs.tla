--------------------------- MODULE SysRunProofs ---------------------------
(***************************************************************************)
(* Proofs about SysRun for a machine with any number of drivers.  The      *)
(* invariant IInv says where RESB can be, where each core can be inside    *)
(* sys_stop and which drivers are up, for every place core 0 can be at.    *)
(***************************************************************************)
EXTENDS SysRun, TLAPS

(* RESB, and the permission to raise it, belong to a running machine that  *)
(* is not in a fan-out.                                                    *)
LineInv ==
    /\ releasePending \/ resb = "high" =>
           sysState = "running" /\ where \notin Fanouts \cup {"release"}
    /\ rtask = "raise" => releasePending
    /\ rtask # "idle" =>
           stop[0] = "idle" /\ where \in {"walk"} \cup Fanouts /\ resb = "low"

(* A core that is inside sys_stop has taken back the permission before it  *)
(* lowers the line and lowered the line before it tests the state.         *)
StopInv ==
    /\ \A c \in Cores : stop[c] \notin {"idle", "clear"} => ~releasePending
    /\ \A c \in Cores : stop[c] \notin {"idle", "clear", "drop"} => resb = "low"
    /\ stop[0] # "idle" => where \in {"walk", "now", "ifStarting"} \cup Fanouts
    /\ stop[0] = "setStopped" => sysState = "starting"
    /\ stop[0] = "isStopped" => sysState # "starting"
    /\ stop[0] = "setStopping" => sysState \in {"running", "stopping"}

(* Core 1 is inside sys_stop only on a machine that is up.                 *)
ExitInv ==
    stop[1] # "idle" =>
        /\ resb = "high" \/ ~releasePending
        /\ sysState \in {"running", "stopping"}
        /\ where \notin Fanouts \cup {"release"}
        /\ stop[1] # "setStopped"

(* The drivers that are up, for every place core 0 can be at.              *)
DriverInv ==
    /\ where = "runFan" =>
           k \in 1..N+1 /\ up = 1..k-1 /\ sysState \in {"running", "stopping"}
    /\ where = "stopFan" => k \in 0..N /\ up = 1..k /\ sysState = "stopping"
    /\ where = "breakFan" => k \in 0..N /\ sysState \in {"stopped", "starting"}
    /\ where = "release" => sysState \in {"running", "stopping"}
    /\ StateTellsDrivers

(* Once sys_commit has stopped a machine for a break, it stays stopped     *)
(* until the break hooks run.                                              *)
BreakInv ==
    sysBreaking /\ stop[0] = "idle" =>
        /\ where \in {"ifStarting", "runFan", "release", "ifStopping"} =>
               sysState \in {"stopping", "stopped"}
        /\ where = "ifBreaking" => sysState = "stopped"

IInv == TypeOK /\ LineInv /\ StopInv /\ ExitInv /\ DriverInv /\ BreakInv


USE NAssumption DEF Drivers, Cores, States, StopPlaces, Fanouts, Places,
                    latch, line, loop

(* The machine starts stopped, with every driver down and RESB low.        *)
LEMMA InitEstablishes == Init => IInv
<1> SUFFICES ASSUME Init PROVE IInv
  OBVIOUS
<1> USE DEF Init
<1>1. TypeOK
  <2>1. stop \in [Cores -> StopPlaces] /\ k \in 0..N+1 /\ up \in SUBSET Drivers
    OBVIOUS
  <2>2. sysState \in States /\ sysBreaking \in BOOLEAN
        /\ releasePending \in BOOLEAN /\ holding \in BOOLEAN
    OBVIOUS
  <2>3. resb \in {"low", "high"} /\ rtask \in {"idle", "sawLow", "raise"}
        /\ where \in Places /\ after \in {"walk", "ifBreaking"}
    OBVIOUS
  <2> QED
    BY <2>1, <2>2, <2>3 DEF TypeOK
<1>2. LineInv
  BY DEF LineInv
<1>3. StopInv
  BY DEF StopInv
<1>4. ExitInv
  BY DEF ExitInv
<1>5. DriverInv
  BY DEF DriverInv, StateTellsDrivers
<1>6. BreakInv
  BY DEF BreakInv
<1> QED
  BY <1>1, <1>2, <1>3, <1>4, <1>5, <1>6 DEF IInv

(* A step of sys_stop, on either core.                                     *)
LEMMA SysStopPreserves == \A c \in Cores : IInv /\ SysStop(c) => IInv'
<1> SUFFICES ASSUME NEW c \in Cores, IInv, SysStop(c)
             PROVE  IInv'
  OBVIOUS
<1> USE DEF IInv, TypeOK, LineInv, StopInv, ExitInv, DriverInv, BreakInv,
            StateTellsDrivers, Goto
<1>1. CASE StopClear(c)
  <2>1. TypeOK'
    BY <1>1 DEF StopClear
  <2>2. LineInv'
    BY <1>1 DEF StopClear
  <2>3. StopInv'
    BY <1>1 DEF StopClear
  <2>4. ExitInv'
    BY <1>1 DEF StopClear
  <2>5. DriverInv'
    BY <1>1 DEF StopClear
  <2>6. BreakInv'
    BY <1>1 DEF StopClear
  <2> QED
    BY <2>1, <2>2, <2>3, <2>4, <2>5, <2>6
<1>2. CASE StopDrop(c)
  BY <1>2 DEF StopDrop
<1>3. CASE StopIsStarting(c)
  BY <1>3 DEF StopIsStarting
<1>4. CASE StopSetStopped(c)
  BY <1>4 DEF StopSetStopped
<1>5. CASE StopIsStopped(c)
  BY <1>5 DEF StopIsStopped
<1>6. CASE StopSetStopping(c)
  BY <1>6 DEF StopSetStopping
<1> QED
  BY <1>1, <1>2, <1>3, <1>4, <1>5, <1>6 DEF SysStop

(* What a driver asks for from a task or a hook, and resb_task.            *)
LEMMA DriverPreserves ==
  IInv /\ (Exit \/ Requests \/ ResbTask \/ HoldElapses) => IInv'
<1> SUFFICES ASSUME IInv, Exit \/ Requests \/ ResbTask \/ HoldElapses
             PROVE  IInv'
  OBVIOUS
<1> USE DEF IInv, TypeOK, LineInv, StopInv, ExitInv, DriverInv, BreakInv,
            StateTellsDrivers, Goto, InDriver
<1>1. CASE Exit
  BY <1>1 DEF Exit
<1>2. CASE SysRunRequest
  BY <1>2 DEF SysRunRequest
<1>3. CASE StopRequest
  BY <1>3 DEF StopRequest
<1>4. CASE BreakRequest
  BY <1>4 DEF BreakRequest
<1>5. CASE StopNow
  BY <1>5 DEF StopNow
<1>6. CASE ResbTaskPin
  BY <1>6 DEF ResbTaskPin
<1>7. CASE ResbTaskPending
  BY <1>7 DEF ResbTaskPending
<1>8. CASE ResbTaskRaise
  BY <1>8 DEF ResbTaskRaise
<1>9. CASE HoldElapses
  <2>1. TypeOK'
    BY <1>9 DEF HoldElapses
  <2>2. LineInv'
    BY <1>9 DEF HoldElapses
  <2>3. StopInv'
    BY <1>9 DEF HoldElapses
  <2>4. ExitInv'
    BY <1>9 DEF HoldElapses
  <2>5. DriverInv'
    BY <1>9 DEF HoldElapses
  <2>6. BreakInv'
    BY <1>9 DEF HoldElapses
  <2> QED
    BY <2>1, <2>2, <2>3, <2>4, <2>5, <2>6
<1> QED
  BY <1>1, <1>2, <1>3, <1>4, <1>5, <1>6, <1>7, <1>8, <1>9 DEF Requests, ResbTask

(* What core 0 does between two driver calls.                              *)
LEMMA MainLoopPreserves == IInv /\ MainLoop => IInv'
<1> SUFFICES ASSUME IInv, MainLoop
             PROVE  IInv'
  OBVIOUS
<1> USE DEF IInv, TypeOK, LineInv, StopInv, ExitInv, DriverInv, BreakInv,
            StateTellsDrivers, Goto, InDriver, Core1Prompt
<1>1. CASE StopNowPerform
  BY <1>1 DEF StopNowPerform
<1>2. CASE Commit
  BY <1>2 DEF Commit
<1>3. CASE CommitStart
  <2>1. TypeOK'
    BY <1>3 DEF CommitStart
  <2>2. LineInv'
    BY <1>3 DEF CommitStart
  <2>3. StopInv'
    BY <1>3 DEF CommitStart
  <2>4. ExitInv'
    BY <1>3 DEF CommitStart
  <2>5. DriverInv'
    <3>1. CASE sysState = "starting"
      <4>1. up' = {} /\ k' = 1 /\ where' = "runFan" /\ sysState' = "running"
        BY <1>3, <3>1 DEF CommitStart
      <4>2. 1..0 = {}
        OBVIOUS
      <4> QED
        BY <4>1, <4>2
    <3>2. CASE sysState # "starting"
      BY <1>3, <3>2 DEF CommitStart
    <3> QED
      BY <3>1, <3>2
  <2>6. BreakInv'
    BY <1>3 DEF CommitStart
  <2> QED
    BY <2>1, <2>2, <2>3, <2>4, <2>5, <2>6
<1>4. CASE RunHook
  BY <1>4 DEF RunHook
<1>5. CASE RunHooksEnd
  BY <1>5 DEF RunHooksEnd
<1>6. CASE CommitRelease
  BY <1>6 DEF CommitRelease
<1>7. CASE CommitStop
  BY <1>7 DEF CommitStop
<1>8. CASE StopHook
  BY <1>8 DEF StopHook
<1>9. CASE StopHooksEnd
  BY <1>9 DEF StopHooksEnd
<1>10. CASE CommitBreak
  <2>1. CASE sysBreaking
    <3>1. sysState = "stopped" /\ stop[0] = "idle"
      BY <1>10, <2>1 DEF CommitBreak
    <3>2. sysBreaking' = FALSE /\ where' = "breakFan" /\ k' = N
          /\ UNCHANGED <<sysState, line, stop, rtask, after, up>>
      BY <1>10, <2>1 DEF CommitBreak
    <3>3. TypeOK'
      <4>1. sysBreaking' \in BOOLEAN
        BY <3>2, Zenon
      <4>4. k' \in 0..N+1 /\ where' \in Places
        BY <3>2
      <4>2. sysState' \in States /\ releasePending' \in BOOLEAN
            /\ holding' \in BOOLEAN /\ resb' \in {"low", "high"}
        BY <3>2
      <4>3. stop' \in [Cores -> StopPlaces] /\ rtask' \in {"idle", "sawLow", "raise"}
            /\ after' \in {"walk", "ifBreaking"} /\ up' \in SUBSET Drivers
        BY <3>2
      <4> QED
        BY <4>1, <4>2, <4>3, <4>4
    <3>4. LineInv'
      BY <3>1, <3>2
    <3>5. StopInv'
      BY <3>1, <3>2
    <3>6. ExitInv'
      BY <3>1, <3>2
    <3>7. DriverInv'
      BY <3>1, <3>2
    <3>8. BreakInv'
      BY <3>1, <3>2
    <3> QED
      BY <3>3, <3>4, <3>5, <3>6, <3>7, <3>8
  <2>2. CASE ~sysBreaking
    BY <1>10, <2>2 DEF CommitBreak
  <2> QED
    BY <2>1, <2>2
<1>11. CASE BreakHook
  BY <1>11 DEF BreakHook
<1>12. CASE BreakHooksEnd
  BY <1>12 DEF BreakHooksEnd
<1> QED
  BY <1>1, <1>2, <1>3, <1>4, <1>5, <1>6, <1>7, <1>8, <1>9, <1>10, <1>11, <1>12 DEF MainLoop

(* Every reachable state satisfies the invariant, for any number of        *)
(* drivers.                                                                *)
THEOREM Inductive == Spec => []IInv
<1>1. Init => IInv
  BY InitEstablishes
<1>2. IInv /\ [Next]_vars => IInv'
  <2> SUFFICES ASSUME IInv, [Next]_vars
               PROVE  IInv'
    OBVIOUS
  <2>1. CASE Next
    BY <2>1, SysStopPreserves, DriverPreserves, MainLoopPreserves DEF Next
  <2>2. CASE UNCHANGED vars
    BY <2>2 DEF vars, IInv, TypeOK, LineInv, StopInv, ExitInv, DriverInv,
                BreakInv, StateTellsDrivers
  <2> QED
    BY <2>1, <2>2
<1> QED
  BY <1>1, <1>2, PTL DEF Spec

(* The type invariant, for any number of drivers.                          *)
THEOREM TypeCorrect == Spec => []TypeOK
<1>1. IInv => TypeOK
  BY DEF IInv
<1> QED
  BY <1>1, Inductive, PTL

(* RESB is low through the run, stop and break fan-outs (sys.c:58).        *)
THEOREM FanoutsInReset == Spec => []ResetLowInFanouts
<1>1. IInv => ResetLowInFanouts
  <2> SUFFICES ASSUME IInv, where \in Fanouts
               PROVE  resb = "low" /\ rtask # "raise"
    BY DEF ResetLowInFanouts
  <2> QED
    BY DEF IInv, LineInv, TypeOK
<1> QED
  BY <1>1, Inductive, PTL

(* The 6502 executes only while every driver is up (sys.c:159-167).        *)
THEOREM CpuInsideRun == Spec => []CpuNeedsEveryDriver
<1>1. IInv => CpuNeedsEveryDriver
  <2> SUFFICES ASSUME IInv, resb = "high"
               PROVE  up = Drivers
    BY DEF CpuNeedsEveryDriver
  <2> QED
    BY DEF IInv, LineInv, DriverInv, StateTellsDrivers
<1> QED
  BY <1>1, Inductive, PTL

(* Run and stop hooks alternate, driver by driver (sys.c:97-114).          *)
THEOREM HooksInTurn == Spec => []HooksAlternate
<1>1. IInv => HooksAlternate
  BY DEF IInv, DriverInv, HooksAlternate
<1> QED
  BY <1>1, Inductive, PTL

(* Outside a fan-out the state says which drivers are up (sys.c:100-113).  *)
THEOREM StateIsHonest == Spec => []StateTellsDrivers
<1>1. IInv => StateTellsDrivers
  BY DEF IInv, DriverInv
<1> QED
  BY <1>1, Inductive, PTL

(* A break beats a run armed in the same pass (sys.c:147-152).             *)
THEOREM BreakBeatsRun == Spec => []BreakFindsMachineDown
<1>1. IInv => BreakFindsMachineDown
  <2> SUFFICES ASSUME IInv, where = "breakFan"
               PROVE  up = {}
    BY DEF BreakFindsMachineDown
  <2> QED
    BY DEF IInv, DriverInv, StateTellsDrivers
<1> QED
  BY <1>1, Inductive, PTL

(* RESB rises on a running machine only, whatever core 1 does meanwhile    *)
(* (resb.c:26-34).                                                         *)
THEOREM RaisesAreLegal == Spec => RaisedOnlyWhileRunning
<1>1. IInv /\ [Next]_vars => [resb' # resb /\ resb' = "high" => sysState = "running"]_vars
  <2> SUFFICES ASSUME IInv, Next, resb' # resb, resb' = "high"
               PROVE  sysState = "running"
    BY DEF vars
  <2>1. ResbTaskRaise
    BY DEF Next, SysStop, StopClear, StopDrop, StopIsStarting, StopSetStopped,
           StopIsStopped, StopSetStopping, Exit, Requests, SysRunRequest,
           StopRequest, BreakRequest, StopNow, ResbTask, ResbTaskPin,
           ResbTaskPending, HoldElapses, MainLoop, StopNowPerform, Commit,
           CommitStart, RunHook, RunHooksEnd, CommitRelease, CommitStop,
           StopHook, StopHooksEnd, CommitBreak, BreakHook, BreakHooksEnd
  <2> QED
    BY <2>1 DEF ResbTaskRaise, IInv, LineInv
<1> QED
  BY <1>1, Inductive, PTL DEF Spec, RaisedOnlyWhileRunning

---------------------------------------------------------------------------
(* Where the drivers are as a whole is told by where core 0 is and by the  *)
(* state, which is what lets the refinement be read off the code.          *)
PhaseOf(w, s) ==
    IF w = "runFan" THEN "rising"
    ELSE IF w = "stopFan" THEN "falling"
    ELSE IF s \in {"stopped", "starting"} THEN "down" ELSE "up"

LEMMA PhaseIsPlace == IInv => Phase = PhaseOf(where, sysState)
<1> SUFFICES ASSUME IInv
             PROVE  Phase = PhaseOf(where, sysState)
  OBVIOUS
<1>1. 1 \in Drivers
  OBVIOUS
<1>2. CASE where \in {"runFan", "stopFan"}
  BY <1>2 DEF Phase, PhaseOf
<1>3. CASE where \notin {"runFan", "stopFan"}
  <2>1. CASE sysState \in {"stopped", "starting"}
    BY <1>3, <2>1 DEF IInv, DriverInv, StateTellsDrivers, Phase, PhaseOf
  <2>2. CASE sysState \in {"running", "stopping"}
    <3>1. up # {}
      BY <1>1, <1>3, <2>2 DEF IInv, DriverInv, StateTellsDrivers
    <3> QED
      BY <1>3, <2>2, <3>1 DEF Phase, PhaseOf
  <2> QED
    BY <2>1, <2>2 DEF IInv, TypeOK
<1> QED
  BY <1>2, <1>3

(* A step that leaves the place, the line and the break alone, and the     *)
(* state on its side of up and down, is no step of the contract.           *)
Still ==
    /\ PhaseOf(where', sysState') = PhaseOf(where, sysState)
    /\ resb' = resb
    /\ sysBreaking' = sysBreaking

LEMMA StillStutters == IInv /\ IInv' /\ Still => UNCHANGED RC!contractVars
<1>0. (IInv => Phase = PhaseOf(where, sysState))'
  BY PhaseIsPlace, PTL
<1> SUFFICES ASSUME IInv, IInv', Still
             PROVE  UNCHANGED RC!contractVars
  OBVIOUS
<1>1. Phase' = Phase
  BY <1>0, PhaseIsPlace DEF Still
<1>2. (resb = "high")' = (resb = "high")
  BY DEF Still
<1> QED
  BY <1>1, <1>2 DEF Still, RC!contractVars

ContractStep == [RC!ContractNext]_(RC!contractVars)

(* Inside sys_stop only the assignment to the line can be seen.            *)
LEMMA SysStopRefines ==
  \A c \in Cores : IInv /\ IInv' /\ SysStop(c) => ContractStep
<1>0. (IInv => Phase = PhaseOf(where, sysState))'
  BY PhaseIsPlace, PTL
<1> SUFFICES ASSUME NEW c \in Cores, IInv, IInv', SysStop(c)
             PROVE  ContractStep
  OBVIOUS
<1>1. CASE StopDrop(c)
  <2>1. Phase' = Phase /\ sysBreaking' = sysBreaking /\ resb' = "low"
    BY <1>0, <1>1, PhaseIsPlace DEF StopDrop
  <2>2. (resb = "high")' = FALSE
    BY <2>1
  <2> QED
    BY <2>1, <2>2 DEF ContractStep, RC!ContractNext, RC!EnterReset
<1>2. CASE StopClear(c) \/ StopIsStarting(c) \/ StopIsStopped(c)
  <2>1. Still
    BY <1>2 DEF Still, StopClear, StopIsStarting, StopIsStopped
  <2> QED
    BY <2>1, StillStutters DEF ContractStep
<1>3. CASE StopSetStopped(c)
  <2>1. c = 0 /\ sysState = "starting"
    BY <1>3 DEF StopSetStopped, Goto, IInv, StopInv, ExitInv
  <2>2. Still
    BY <1>3, <2>1 DEF Still, StopSetStopped, PhaseOf
  <2> QED
    BY <2>2, StillStutters DEF ContractStep
<1>4. CASE StopSetStopping(c)
  <2>1. sysState \in {"running", "stopping"}
    BY <1>4 DEF StopSetStopping, Goto, IInv, StopInv, ExitInv
  <2>2. Still
    BY <1>4, <2>1 DEF Still, StopSetStopping, PhaseOf
  <2> QED
    BY <2>2, StillStutters DEF ContractStep
<1> QED
  BY <1>1, <1>2, <1>3, <1>4 DEF SysStop

(* What a driver, a task or core 1 does: a break may be asked for, and the *)
(* line may rise on a machine that is up.                                  *)
LEMMA DriverRefines ==
  IInv /\ IInv' /\ (Exit \/ Requests \/ ResbTask \/ HoldElapses) => ContractStep
<1>0. (IInv => Phase = PhaseOf(where, sysState))'
  BY PhaseIsPlace, PTL
<1> SUFFICES ASSUME IInv, IInv', Exit \/ Requests \/ ResbTask \/ HoldElapses
             PROVE  ContractStep
  OBVIOUS
<1>1. CASE Exit \/ SysRunRequest \/ StopRequest \/ StopNow \/ HoldElapses
           \/ ResbTaskPin \/ ResbTaskPending
  <2>1. Still
    BY <1>1 DEF Still, Exit, SysRunRequest, StopRequest, StopNow, HoldElapses,
                ResbTaskPin, ResbTaskPending, PhaseOf, InDriver
  <2> QED
    BY <2>1, StillStutters DEF ContractStep
<1>2. CASE BreakRequest
  <2>1. Phase' = Phase /\ resb' = resb
    BY <1>0, <1>2, PhaseIsPlace DEF BreakRequest
  <2>2. sysBreaking' = TRUE
    BY <1>2 DEF BreakRequest
  <2>3. (resb = "high")' = (resb = "high")
    BY <2>1
  <2> QED
    BY <2>1, <2>2, <2>3 DEF ContractStep, RC!ContractNext, RC!AskBreak
<1>3. CASE ResbTaskRaise
  <2>1. Phase = "up"
    BY <1>3, PhaseIsPlace DEF ResbTaskRaise, IInv, LineInv, PhaseOf
  <2>2. Phase' = Phase /\ sysBreaking' = sysBreaking /\ resb' = "high"
    BY <1>0, <1>3, PhaseIsPlace DEF ResbTaskRaise
  <2>3. (resb = "high")' = TRUE
    BY <2>2
  <2> QED
    BY <2>1, <2>2, <2>3 DEF ContractStep, RC!ContractNext, RC!LeaveReset
<1> QED
  BY <1>1, <1>2, <1>3 DEF Requests, ResbTask

(* The fan-outs begin and end where the contract says they may.            *)
LEMMA MainLoopRefines == IInv /\ IInv' /\ MainLoop => ContractStep
<1>0. (IInv => Phase = PhaseOf(where, sysState))'
  BY PhaseIsPlace, PTL
<1> SUFFICES ASSUME IInv, IInv', MainLoop
             PROVE  ContractStep
  OBVIOUS
<1>1. CASE Commit \/ RunHook \/ CommitRelease \/ StopHook \/ BreakHook \/ BreakHooksEnd
  <2>1. Still
    BY <1>1 DEF Still, Commit, RunHook, CommitRelease, StopHook, BreakHook,
                BreakHooksEnd, PhaseOf
  <2> QED
    BY <2>1, StillStutters DEF ContractStep
<1>2. ASSUME where \in {"now", "ifStopping"}, sysState = "stopping",
             where' = "stopFan", UNCHANGED <<latch, line>>
      PROVE  ContractStep
  <2>1. Phase = "up" /\ Phase' = "falling"
    BY <1>0, <1>2, PhaseIsPlace DEF PhaseOf
  <2>2. resb = "low"
    BY <1>2 DEF IInv, LineInv, TypeOK
  <2>3. (resb = "high") = FALSE /\ (resb = "high")' = (resb = "high")
    BY <1>2, <2>2
  <2>4. sysBreaking' = sysBreaking
    BY <1>2
  <2> QED
    BY <2>1, <2>3, <2>4 DEF ContractStep, RC!ContractNext, RC!PutAway
<1>3. CASE StopNowPerform \/ CommitStop
  <2>1. CASE sysState = "stopping"
    BY <1>2, <1>3, <2>1 DEF StopNowPerform, CommitStop
  <2>2. CASE sysState # "stopping"
    <3>1. Still
      BY <1>3, <2>2 DEF StopNowPerform, CommitStop, Still, PhaseOf
    <3> QED
      BY <3>1, StillStutters DEF ContractStep
  <2> QED
    BY <2>1, <2>2
<1>4. CASE CommitStart
  <2>1. CASE sysState = "starting"
    <3>1. Phase = "down" /\ Phase' = "rising"
      BY <1>0, <1>4, <2>1, PhaseIsPlace DEF CommitStart, PhaseOf
    <3>2. resb = "low" /\ resb' = resb /\ sysBreaking' = sysBreaking
      BY <1>4, <2>1 DEF CommitStart, IInv, LineInv, TypeOK
    <3>3. (resb = "high") = FALSE /\ (resb = "high")' = (resb = "high")
      BY <3>2
    <3> QED
      BY <3>1, <3>2, <3>3 DEF ContractStep, RC!ContractNext, RC!BringUp
  <2>2. CASE sysState # "starting"
    <3>1. Still
      BY <1>4, <2>2 DEF CommitStart, Still, PhaseOf
    <3> QED
      BY <3>1, StillStutters DEF ContractStep
  <2> QED
    BY <2>1, <2>2
<1>5. CASE RunHooksEnd
  <2>1. Phase = "rising" /\ Phase' = "up"
    BY <1>0, <1>5, PhaseIsPlace DEF RunHooksEnd, PhaseOf, IInv, DriverInv
  <2>2. resb' = resb /\ sysBreaking' = sysBreaking
    BY <1>5 DEF RunHooksEnd
  <2>3. (resb = "high")' = (resb = "high")
    BY <2>2
  <2> QED
    BY <2>1, <2>2, <2>3 DEF ContractStep, RC!ContractNext, RC!AllUp
<1>6. CASE StopHooksEnd
  <2>1. Phase = "falling" /\ Phase' = "down"
    BY <1>0, <1>6, PhaseIsPlace DEF StopHooksEnd, PhaseOf, IInv, TypeOK
  <2>2. resb' = resb /\ sysBreaking' = sysBreaking
    BY <1>6 DEF StopHooksEnd
  <2>3. (resb = "high")' = (resb = "high")
    BY <2>2
  <2> QED
    BY <2>1, <2>2, <2>3 DEF ContractStep, RC!ContractNext, RC!AllDown
<1>7. CASE CommitBreak
  <2>1. CASE sysBreaking
    <3>1. stop[0] = "idle"
      BY <1>7 DEF CommitBreak, IInv, TypeOK, StopInv
    <3>2. sysState = "stopped"
      BY <1>7, <2>1, <3>1 DEF CommitBreak, IInv, BreakInv
    <3>3. Phase = "down" /\ Phase' = "down"
      BY <1>0, <1>7, <2>1, <3>2, PhaseIsPlace DEF CommitBreak, PhaseOf
    <3>4. resb = "low" /\ resb' = resb
      BY <1>7, <3>2 DEF CommitBreak, IInv, LineInv, TypeOK
    <3>5. (resb = "high") = FALSE /\ (resb = "high")' = (resb = "high")
      BY <3>4
    <3>6. sysBreaking' = FALSE
      BY <1>7, <2>1 DEF CommitBreak
    <3> QED
      BY <2>1, <3>3, <3>5, <3>6 DEF ContractStep, RC!ContractNext, RC!PerformBreak
  <2>2. CASE ~sysBreaking
    <3>1. Still
      BY <1>7, <2>2 DEF CommitBreak, Still, PhaseOf
    <3> QED
      BY <3>1, StillStutters DEF ContractStep
  <2> QED
    BY <2>1, <2>2
<1> QED
  BY <1>1, <1>3, <1>4, <1>5, <1>6, <1>7 DEF MainLoop

(* sys.c and resb.c keep what sys.h promises, step by step: the drivers    *)
(* are brought up and put away together with RESB low, RESB rises over a   *)
(* machine that is up only, and a break is performed on one that is down.  *)
THEOREM ContractKept ==
  Spec => RC!ContractInit /\ [][RC!ContractNext]_(RC!contractVars)
<1>1. Init => RC!ContractInit
  <2> SUFFICES ASSUME Init
               PROVE  RC!ContractInit
    OBVIOUS
  <2>1. Phase = "down"
    BY DEF Init, Phase
  <2> QED
    BY <2>1 DEF Init, RC!ContractInit
<1>2. IInv /\ IInv' /\ [Next]_vars => [RC!ContractNext]_(RC!contractVars)
  <2> SUFFICES ASSUME IInv, IInv', [Next]_vars
               PROVE  ContractStep
    BY DEF ContractStep
  <2>1. CASE Next
    BY <2>1, SysStopRefines, DriverRefines, MainLoopRefines DEF Next
  <2>2. CASE UNCHANGED vars
    <3>1. Still
      BY <2>2 DEF vars, Still
    <3> QED
      BY <3>1, StillStutters DEF ContractStep
  <2> QED
    BY <2>1, <2>2
<1> QED
  BY <1>1, <1>2, Inductive, PTL DEF Spec
=============================================================================
