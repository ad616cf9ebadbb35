------------------------------ MODULE SysRun ------------------------------
(***************************************************************************)
(* The run state of a machine (core/sys/sys.c) with the reset line it      *)
(* drives (host/pico/ria/sys/resb.c), on the Pico's two cores.  Core 0     *)
(* walks the drivers and commits; core 1 serves the 6502's bus and calls   *)
(* sys_stop itself when a program exits.  sys_state, release_pending and   *)
(* the RESB pin are shared without a lock, so every access to one of them  *)
(* is a step of its own.  The drivers are the most general ones: any of    *)
(* them may ask for anything from its task or from any of its hooks.       *)
(***************************************************************************)
EXTENDS Integers

CONSTANT N  \* how many drivers RP6502_MACH_DRIVERS lists

ASSUME NAssumption == N \in Nat \ {0}

Drivers == 1..N
Cores == {0, 1}

VARIABLES
    sysState,        \* sys_state
    sysBreaking,     \* sys_breaking
    releasePending,  \* release_pending
    holding,         \* hold_end has not been reached
    resb,            \* the RESB pin
    stop,            \* where each core is inside sys_stop
    rtask,           \* where core 0 is inside resb_task
    where,           \* where core 0 is in its main loop
    k,               \* the driver a fan-out calls next
    after,           \* where core 0 goes when a stop fan-out ends
    up               \* the drivers whose run hook was called and stop hook was not

vars == <<sysState, sysBreaking, releasePending, holding, resb, stop, rtask,
          where, k, after, up>>
latch == <<sysState, sysBreaking>>
line == <<releasePending, holding, resb>>
loop == <<where, k, after, up>>

States == {"stopped", "starting", "running", "stopping"}
StopPlaces == {"idle", "clear", "drop", "isStarting", "setStopped",
               "isStopped", "setStopping"}
Fanouts == {"runFan", "stopFan", "breakFan"}
Places == {"walk", "now", "ifStarting", "release", "ifStopping", "ifBreaking"}
          \cup Fanouts

TypeOK ==
    /\ sysState \in States
    /\ sysBreaking \in BOOLEAN
    /\ releasePending \in BOOLEAN
    /\ holding \in BOOLEAN
    /\ resb \in {"low", "high"}
    /\ stop \in [Cores -> StopPlaces]
    /\ rtask \in {"idle", "sawLow", "raise"}
    /\ where \in Places
    /\ k \in 0..N+1
    /\ after \in {"walk", "ifBreaking"}
    /\ up \in SUBSET Drivers

(* resb_init lowers RESB and sys_state starts as stopped.                  *)
Init ==
    /\ sysState = "stopped"
    /\ sysBreaking = FALSE
    /\ releasePending = FALSE
    /\ holding = FALSE
    /\ resb = "low"
    /\ stop = [c \in Cores |-> "idle"]
    /\ rtask = "idle"
    /\ where = "walk"
    /\ k = 0
    /\ after = "ifBreaking"
    /\ up = {}

---------------------------------------------------------------------------
(* sys_stop, on either core: resb_assert, then the state is tested, tested *)
(* again and assigned.                                                     *)

Goto(c, from, to) ==
    /\ stop[c] = from
    /\ stop' = [stop EXCEPT ![c] = to]

\* mutant: resb_assert leaves release_pending set
KeepsPending(c) ==
    /\ Goto(c, "clear", "drop")
    /\ UNCHANGED <<latch, line, rtask, loop>>

StopClear(c) ==
    /\ Goto(c, "clear", "drop")
    /\ releasePending' = FALSE
    /\ UNCHANGED <<latch, holding, resb, rtask, loop>>

StopDrop(c) ==
    /\ Goto(c, "drop", "isStarting")
    /\ resb' = "low"
    /\ UNCHANGED <<latch, releasePending, holding, rtask, loop>>

StopIsStarting(c) ==
    /\ Goto(c, "isStarting",
            IF sysState = "starting" THEN "setStopped" ELSE "isStopped")
    /\ UNCHANGED <<latch, line, rtask, loop>>

StopSetStopped(c) ==
    /\ Goto(c, "setStopped", "idle")
    /\ sysState' = "stopped"
    /\ UNCHANGED <<sysBreaking, line, rtask, loop>>

StopIsStopped(c) ==
    /\ Goto(c, "isStopped", IF sysState # "stopped" THEN "setStopping" ELSE "idle")
    /\ UNCHANGED <<latch, line, rtask, loop>>

StopSetStopping(c) ==
    /\ Goto(c, "setStopping", "idle")
    /\ sysState' = "stopping"
    /\ UNCHANGED <<sysBreaking, line, rtask, loop>>

SysStop(c) ==
    \/ StopClear(c) \/ StopDrop(c) \/ StopIsStarting(c)
    \/ StopSetStopped(c) \/ StopIsStopped(c) \/ StopSetStopping(c)

---------------------------------------------------------------------------
(* Core 1.  act_loop takes an exit event only while the pin is high.       *)
Exit ==
    /\ resb = "high"
    /\ Goto(1, "idle", "clear")
    /\ UNCHANGED <<latch, line, rtask, loop>>

(* The few instructions act_loop spends in sys_stop end before core 0, on  *)
(* its way to a fan-out, has finished the walk and reached sys_commit.     *)
Core1Prompt == stop[1] = "idle"

---------------------------------------------------------------------------
(* Core 0 inside a driver: a task of the walk, or a hook.  A hook that     *)
(* blocks on file IO re-enters the task column, so anything a task may ask *)
(* for, and resb_task itself, may happen inside a hook.                    *)
InDriver ==
    /\ where \in {"walk"} \cup Fanouts
    /\ stop[0] = "idle"
    /\ rtask = "idle"

\* mutant: a stop that is owed is promoted to a start
PromotesStop ==
    /\ InDriver
    /\ sysState \in {"stopped", "stopping"}
    /\ sysState' = "starting"
    /\ UNCHANGED <<sysBreaking, line, stop, rtask, loop>>

SysRunRequest ==
    /\ InDriver
    /\ sysState = "stopped"
    /\ sysState' = "starting"
    /\ UNCHANGED <<sysBreaking, line, stop, rtask, loop>>

StopRequest ==
    /\ InDriver
    /\ Goto(0, "idle", "clear")
    /\ UNCHANGED <<latch, line, rtask, loop>>

BreakRequest ==
    /\ InDriver
    /\ sysBreaking' = TRUE
    /\ Goto(0, "idle", "clear")
    /\ UNCHANGED <<sysState, line, rtask, loop>>

ResbTaskPin ==
    /\ InDriver
    /\ resb = "low"
    /\ rtask' = "sawLow"
    /\ UNCHANGED <<latch, line, stop, loop>>

ResbTaskPending ==
    /\ rtask = "sawLow"
    /\ rtask' = IF releasePending /\ ~holding THEN "raise" ELSE "idle"
    /\ UNCHANGED <<latch, line, stop, loop>>

ResbTaskRaise ==
    /\ rtask = "raise"
    /\ resb' = "high"
    /\ rtask' = "idle"
    /\ UNCHANGED <<latch, releasePending, holding, stop, loop>>

(* Two PHI2 cycles pass after resb_release.                                *)
HoldElapses ==
    /\ holding
    /\ holding' = FALSE
    /\ UNCHANGED <<latch, releasePending, resb, stop, rtask, loop>>

---------------------------------------------------------------------------
(* sys_stop_now, from inside a walk.                                       *)
StopNow ==
    /\ where = "walk"
    /\ InDriver
    /\ Goto(0, "idle", "clear")
    /\ where' = "now"
    /\ UNCHANGED <<latch, line, rtask, k, after, up>>

StopNowPerform ==
    /\ where = "now"
    /\ stop[0] = "idle"
    /\ Core1Prompt
    /\ IF sysState = "stopping"
       THEN where' = "stopFan" /\ k' = N /\ after' = "walk"
       ELSE where' = "walk" /\ UNCHANGED <<k, after>>
    /\ UNCHANGED <<latch, line, stop, rtask, up>>

\* mutant: sys_commit trusts the stop that sys_break_request did
CommitTrustsBreak ==
    /\ where = "walk"
    /\ InDriver
    /\ where' = "ifStarting"
    /\ UNCHANGED <<latch, line, stop, rtask, k, after, up>>

(* The walk ends and sys_commit begins: a break asked for in the walk      *)
(* stops the machine again.                                                *)
Commit ==
    /\ where = "walk"
    /\ InDriver
    /\ IF sysBreaking THEN Goto(0, "idle", "clear") ELSE UNCHANGED stop
    /\ where' = "ifStarting"
    /\ UNCHANGED <<latch, line, rtask, k, after, up>>

CommitStart ==
    /\ where = "ifStarting"
    /\ stop[0] = "idle"
    /\ Core1Prompt
    /\ IF sysState = "starting"
       THEN sysState' = "running" /\ where' = "runFan" /\ k' = 1
       ELSE where' = "ifStopping" /\ UNCHANGED <<sysState, k>>
    /\ UNCHANGED <<sysBreaking, line, stop, rtask, after, up>>

RunHook ==
    /\ where = "runFan"
    /\ InDriver
    /\ k \in Drivers
    /\ up' = up \cup {k}
    /\ k' = k + 1
    /\ UNCHANGED <<latch, line, stop, rtask, where, after>>

\* mutant: running is assigned after the run hooks
AssignsRunningLate ==
    /\ where = "runFan"
    /\ InDriver
    /\ k = N + 1
    /\ sysState' = "running"
    /\ where' = "release"
    /\ UNCHANGED <<sysBreaking, line, stop, rtask, k, after, up>>

RunHooksEnd ==
    /\ where = "runFan"
    /\ InDriver
    /\ k = N + 1
    /\ where' = "release"
    /\ UNCHANGED <<latch, line, stop, rtask, k, after, up>>

\* mutant: RESB is released whatever the run hooks did
ReleasesAlways ==
    /\ where = "release"
    /\ holding' = TRUE
    /\ releasePending' = TRUE
    /\ where' = "ifStopping"
    /\ UNCHANGED <<latch, resb, stop, rtask, k, after, up>>

(* RESB is released only when no run hook stopped the machine.             *)
CommitRelease ==
    /\ where = "release"
    /\ IF sysState = "running"
       THEN holding' = TRUE /\ releasePending' = TRUE
       ELSE UNCHANGED <<holding, releasePending>>
    /\ where' = "ifStopping"
    /\ UNCHANGED <<latch, resb, stop, rtask, k, after, up>>

\* mutant: the stop fan-out leaves out the driver listed last
StopSkipsLast ==
    /\ where = "ifStopping"
    /\ Core1Prompt
    /\ IF sysState = "stopping"
       THEN where' = "stopFan" /\ k' = N - 1 /\ after' = "ifBreaking"
       ELSE where' = "ifBreaking" /\ UNCHANGED <<k, after>>
    /\ UNCHANGED <<latch, line, stop, rtask, up>>

CommitStop ==
    /\ where = "ifStopping"
    /\ Core1Prompt
    /\ IF sysState = "stopping"
       THEN where' = "stopFan" /\ k' = N /\ after' = "ifBreaking"
       ELSE where' = "ifBreaking" /\ UNCHANGED <<k, after>>
    /\ UNCHANGED <<latch, line, stop, rtask, up>>

StopHook ==
    /\ where = "stopFan"
    /\ InDriver
    /\ k \in Drivers
    /\ up' = up \ {k}
    /\ k' = k - 1
    /\ UNCHANGED <<latch, line, stop, rtask, where, after>>

StopHooksEnd ==
    /\ where = "stopFan"
    /\ InDriver
    /\ k = 0
    /\ sysState' = "stopped"
    /\ where' = after
    /\ UNCHANGED <<sysBreaking, line, stop, rtask, k, after, up>>

CommitBreak ==
    /\ where = "ifBreaking"
    /\ IF sysBreaking
       THEN sysBreaking' = FALSE /\ where' = "breakFan" /\ k' = N
       ELSE where' = "walk" /\ UNCHANGED <<sysBreaking, k>>
    /\ UNCHANGED <<sysState, line, stop, rtask, after, up>>

BreakHook ==
    /\ where = "breakFan"
    /\ InDriver
    /\ k \in Drivers
    /\ k' = k - 1
    /\ UNCHANGED <<latch, line, stop, rtask, where, after, up>>

\* mutant: the flag is cleared after the break hooks
ClearsBreakLate ==
    /\ where = "breakFan"
    /\ InDriver
    /\ k = 0
    /\ sysBreaking' = FALSE
    /\ where' = "walk"
    /\ UNCHANGED <<sysState, line, stop, rtask, k, after, up>>

BreakHooksEnd ==
    /\ where = "breakFan"
    /\ InDriver
    /\ k = 0
    /\ where' = "walk"
    /\ UNCHANGED <<latch, line, stop, rtask, k, after, up>>

---------------------------------------------------------------------------
Requests == SysRunRequest \/ StopRequest \/ BreakRequest \/ StopNow

ResbTask == ResbTaskPin \/ ResbTaskPending \/ ResbTaskRaise

(* What core 0 does between two driver calls, whatever the drivers ask.    *)
MainLoop ==
    \/ StopNowPerform \/ CommitStart \/ CommitRelease \/ CommitStop \/ CommitBreak
    \/ Commit \/ RunHook \/ RunHooksEnd \/ StopHook \/ StopHooksEnd
    \/ BreakHook \/ BreakHooksEnd

Next ==
    \/ \E c \in Cores : SysStop(c)
    \/ Exit
    \/ Requests
    \/ ResbTask
    \/ HoldElapses
    \/ MainLoop

Spec == Init /\ [][Next]_vars

(* Both cores keep executing, and every driver call returns, however much  *)
(* it asked for on the way.                                                *)
Fairness ==
    /\ \A c \in Cores : WF_vars(SysStop(c))
    /\ WF_vars(ResbTaskPending) /\ WF_vars(ResbTaskRaise)
    /\ SF_vars(Commit) /\ WF_vars(MainLoop)
    /\ SF_vars(RunHook) /\ SF_vars(RunHooksEnd)
    /\ SF_vars(StopHook) /\ SF_vars(StopHooksEnd)
    /\ SF_vars(BreakHook) /\ SF_vars(BreakHooksEnd)

FairSpec == Spec /\ Fairness

---------------------------------------------------------------------------
(* RESB is low through the run, stop and break fan-outs (sys.c:58), and no *)
(* resb_task of either has decided to raise it.                            *)
ResetLowInFanouts ==
    where \in Fanouts => resb = "low" /\ rtask # "raise"

(* The 6502 executes only while every driver is up (sys.c:159-167): a stop *)
(* asked for by a run hook keeps the line low on a machine half up.        *)
CpuNeedsEveryDriver == resb = "high" => up = Drivers

(* A run hook is called only on a driver that is down and a stop hook only *)
(* on one that is up, so no driver is opened twice or closed twice, in     *)
(* whatever order runs, stops and breaks are asked for (sys.c:97-114).     *)
HooksAlternate ==
    /\ where = "runFan" => \A d \in k..N : d \notin up
    /\ where = "stopFan" => \A d \in 1..k : d \in up

(* Outside a fan-out the state tells the truth about the drivers: a        *)
(* machine that never came up owes them nothing, and one that did still    *)
(* owes every one of them its stop (sys.c:100-113).                        *)
StateTellsDrivers ==
    where \notin {"runFan", "stopFan"} =>
        /\ sysState \in {"stopped", "starting"} => up = {}
        /\ sysState \in {"running", "stopping"} => up = Drivers

(* A break asked for anywhere in a pass beats a run armed anywhere in the  *)
(* same pass: the break hooks find no driver up (sys.c:147-152).           *)
BreakFindsMachineDown == where = "breakFan" => up = {}

(* resb_task cannot raise RESB after a resb_assert has lowered it, on      *)
(* either core (resb.c:26-34): the line rises on a running machine only.   *)
RaisedOnlyWhileRunning ==
    [][resb' # resb /\ resb' = "high" => sysState = "running"]_vars

(* A stop that is under way ends with every driver put away; and a break   *)
(* that is asked for is performed, one asked for by a break hook getting   *)
(* its own pass instead of being swallowed (sys.c:174-180).                *)
StopAndBreakPerformed ==
    /\ sysState = "stopping" ~> up = {}
    /\ sysBreaking /\ where # "breakFan" ~> where = "breakFan"
    /\ sysBreaking /\ where = "breakFan" ~> sysBreaking /\ where = "walk"

(* The latch keeps what sys.h promises.                                    *)
Phase ==
    CASE where = "runFan" -> "rising"
      [] where = "stopFan" -> "falling"
      [] where \notin {"runFan", "stopFan"} /\ up = {} /\ sysState # "running" -> "down"
      [] OTHER -> "up"

RC == INSTANCE RunContract
      WITH phase <- Phase, cpu <- (resb = "high"), broken <- sysBreaking

ImplementsContract == RC!Contract
=============================================================================
