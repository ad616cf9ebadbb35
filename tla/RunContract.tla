---------------------------- MODULE RunContract ----------------------------
(***************************************************************************)
(* What core/sys/sys.h promises to the drivers of a machine, with no word  *)
(* on how sys.c keeps it: the drivers are brought up together and put away *)
(* together, the 6502 is out of reset only while all of them are up, and a *)
(* break that was asked for is performed, with the machine down.           *)
(***************************************************************************)

VARIABLES
    phase,      \* where the drivers are, as a whole
    cpu,        \* TRUE while RESB is high and the 6502 executes
    broken      \* a break was asked for and not performed

contractVars == <<phase, cpu, broken>>

Phases == {"down", "rising", "up", "falling"}

ContractInit ==
    /\ phase = "down"
    /\ cpu = FALSE
    /\ broken = FALSE

BringUp ==
    /\ phase = "down"
    /\ ~cpu
    /\ phase' = "rising"
    /\ UNCHANGED <<cpu, broken>>

AllUp ==
    /\ phase = "rising"
    /\ phase' = "up"
    /\ UNCHANGED <<cpu, broken>>

PutAway ==
    /\ phase = "up"
    /\ ~cpu
    /\ phase' = "falling"
    /\ UNCHANGED <<cpu, broken>>

AllDown ==
    /\ phase = "falling"
    /\ phase' = "down"
    /\ UNCHANGED <<cpu, broken>>

LeaveReset ==
    /\ phase = "up"
    /\ cpu' = TRUE
    /\ UNCHANGED <<phase, broken>>

EnterReset ==
    /\ cpu' = FALSE
    /\ UNCHANGED <<phase, broken>>

AskBreak ==
    /\ broken' = TRUE
    /\ UNCHANGED <<phase, cpu>>

PerformBreak ==
    /\ broken
    /\ phase = "down"
    /\ ~cpu
    /\ broken' = FALSE
    /\ UNCHANGED <<phase, cpu>>

ContractNext ==
    \/ BringUp \/ AllUp \/ PutAway \/ AllDown
    \/ LeaveReset \/ EnterReset \/ AskBreak \/ PerformBreak

(* A fan-out that began ends, and a break asked for is performed: the      *)
(* machine is put away first when it is up.                                *)
Contract ==
    /\ ContractInit
    /\ [][ContractNext]_contractVars
    /\ WF_contractVars(AllUp)
    /\ WF_contractVars(AllDown)
    /\ SF_contractVars(PerformBreak)
=============================================================================
