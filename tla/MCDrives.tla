------------------------------ MODULE MCDrives ------------------------------
(* A stick, a card reader and a floppy drive, and what may befall them.    *)
EXTENDS Drives

Disk(bot, removable, lbpme, medium) ==
    [bot |-> bot, removable |-> removable, wp |-> FALSE, lbpme |-> lbpme, medium |-> medium]

MCKinds == {Disk(TRUE, FALSE, TRUE, "a"), Disk(TRUE, TRUE, FALSE, "c"),
            Disk(FALSE, TRUE, FALSE, "f")}

May(calls, plugs, faults, taken, swaps, yanks, shows) ==
    [calls |-> calls, plugs |-> plugs, faults |-> faults, taken |-> taken,
     swaps |-> swaps, yanks |-> yanks, shows |-> shows,
     disks |-> {}, after |-> 0, breaks |-> 0]

(* One command on a whole drive, and the calls after it.                   *)
MayAlso(may, disks, after) == [may EXCEPT !.disks = disks, !.after = after]
Whole == {"erase", "format", "verify"}

(* Two faults; two changes of medium, with nothing else that could hide    *)
(* one; a control pipe that is taken, or a fault, and a drive pulled out.  *)
(* Then a command with a fault, a change of medium, another drive in the   *)
(* place of the first, and a break.                                        *)
MCBudgets == {May(3, 1, 2, 0, 0, 0, 1), May(4, 1, 0, 0, 2, 0, 0),
              May(2, 2, 0, 1, 0, 1, 1), May(2, 1, 1, 0, 0, 1, 1),
              MayAlso(May(0, 1, 1, 0, 0, 0, 0), Whole, 1),
              MayAlso(May(0, 1, 0, 0, 1, 0, 0), Whole \ {"verify"}, 1),
              MayAlso(May(0, 2, 0, 0, 0, 1, 0), Whole \ {"verify"}, 0),
              [MayAlso(May(0, 1, 0, 0, 0, 0, 0), Whole, 0) EXCEPT !.breaks = 1]}
=============================================================================
