------------------------------ MODULE RxLatch ------------------------------
(***************************************************************************)
(* Console input on its way to the 6502 of the Pico.  Every source         *)
(* (keyboard, UART) has a queue.  Core 0 stages the next byte in           *)
(* ria_uart_rx_slot; core 1, told of the 6502's accesses by the bus, moves *)
(* it to the registers $FFE0 bit 6 (there is a byte) and $FFE2 (the byte). *)
(* Slot and registers are written by both cores without a lock, so every   *)
(* access to one of them is a step.  A program may also read the console   *)
(* with an OS call, which takes a staged byte back first.                  *)
(*                                                                         *)
(* A byte is <<source, n>>, the n-th to arrive from its source.            *)
(***************************************************************************)
EXTENDS Integers, Sequences, FiniteSetsExt

CONSTANTS
    Sources,    \* how many sources com_sources lists, asked in this order
    Dwell,      \* the sources whose driver declares a dwell
    MaxBytes,   \* bound: the bytes that arrive from each source
    MaxRead,    \* bound: the longest console read a program asks for
    None        \* an empty slot, or the zero in an empty $FFE2

ASSUME SourcesAssumption == Sources \in Nat \ {0}
ASSUME DwellAssumption == Dwell \subseteq 1..Sources
ASSUME BoundsAssumption ==
    MaxBytes \in [1..Sources -> Nat] /\ MaxRead \in Nat \ {0}

Source == 1..Sources
Any == Sources + 1           \* COM_SOURCE_ANY
Bytes == UNION {{s} \X (1..MaxBytes[s]) : s \in Source}
ASSUME NoneAssumption == None \notin Bytes    \* -1 in the slot is no byte

VARIABLES
    sent,      \* how many bytes have arrived from each source
    queue,     \* com_uart_rx and the other sources' rows
    slot,      \* ria_uart_rx_slot
    flag,      \* $FFE0 bit 6
    reg,       \* $FFE2
    act,       \* core 1's handler: its place, the flags and the byte it loaded
    mode,      \* the program polls the registers or waits for an OS read
    sawReady,  \* what its last read of $FFE0 showed
    task,      \* core 0: place, on whose behalf, source, length, bytes in hand
    held,      \* com_rx_held
    passed,    \* com_rx_deadline has passed
    charSrc,   \* com_rx_char_src
    got,       \* the bytes the program has read
    overtook,  \* core 0 has found both places of the latch empty between
               \* core 1's last two stores of a read of $FFE0
    cleared    \* how many of each source's bytes a clear was to discard

vars == <<sent, queue, slot, flag, reg, act, mode, sawReady, task, held,
          passed, charSrc, got, overtook, cleared>>
shared == <<slot, flag, reg>>
picker == <<held, passed, charSrc>>
program == <<mode, sawReady, got>>
history == <<sent, overtook, cleared>>

ActPlaces == {"idle", "pFlags", "pSlot", "pReg", "pEmpty", "pReady",
              "dSlot", "dReg", "dReady", "dEmpty", "dDrop", "dZero"}
TaskPlaces == {"idle", "ready", "pick", "slot", "slotEmpty", "flag", "reg",
               "flagDrop", "regZero", "source", "offer", "return"}
Byte == Bytes \cup {None}

TypeOK ==
    /\ sent \in [Source -> Nat] /\ cleared \in [Source -> Nat]
    /\ \A s \in Source : cleared[s] <= sent[s] /\ sent[s] <= MaxBytes[s]
    /\ queue \in [Source -> Seq(Bytes)]
    /\ {slot, reg} \subseteq Byte
    /\ flag \in BOOLEAN
    /\ act \in [at : ActPlaces, flags : BOOLEAN, ch : Byte]
    /\ mode \in {"polls", "asks"}
    /\ sawReady \in BOOLEAN
    /\ task \in [at : TaskPlaces, who : {"offer", "read"}, s : 1..Any,
                 length : 1..MaxRead, hand : Seq(Byte)]
    /\ held \in 1..Any
    /\ passed \in BOOLEAN
    /\ charSrc \in Source
    /\ got \subseteq Bytes
    /\ overtook \in BOOLEAN

NoTask == [at |-> "idle", who |-> "offer", s |-> 1, length |-> 1, hand |-> <<>>]
NoAct == [at |-> "idle", flags |-> FALSE, ch |-> None]

Init ==
    /\ sent = [s \in Source |-> 0] /\ cleared = sent
    /\ queue = [s \in Source |-> <<>>]
    /\ slot = None /\ flag = FALSE /\ reg = None
    /\ act = NoAct
    /\ mode = "polls" /\ sawReady = FALSE
    /\ task = NoTask
    /\ held = Any /\ passed = TRUE /\ charSrc = 1
    /\ got = {} /\ overtook = FALSE

----------------------------------------------------------------------------
(* A byte arrives: a key, or the UART's hardware FIFO drained into its     *)
(* ring (the ring is longer than a source's bytes here).                   *)
Arrive(s) ==
    /\ sent[s] < MaxBytes[s]
    /\ sent' = [sent EXCEPT ![s] = @ + 1]
    /\ queue' = [queue EXCEPT ![s] = Append(@, <<s, sent[s] + 1>>)]
    /\ UNCHANGED <<shared, act, program, task, picker, overtook, cleared>>

(* Time passes the deadline of the held source.                            *)
Expire ==
    /\ ~passed
    /\ passed' = TRUE
    /\ UNCHANGED <<history, queue, shared, act, program, task, held, charSrc>>

----------------------------------------------------------------------------
(* The program.  The bus answers a read from the registers as they are     *)
(* and then tells core 1, which is done before the 6502's next access.  A  *)
(* program may read $FFE2 without polling: a zero is then no byte.         *)
Poll ==
    /\ mode = "polls" /\ act.at = "idle"
    /\ sawReady' = flag
    /\ act' = [NoAct EXCEPT !.at = "pFlags"]
    /\ UNCHANGED <<history, queue, shared, mode, got, task, picker>>

Read ==
    /\ mode = "polls" /\ act.at = "idle"
    /\ sawReady' = FALSE
    /\ got' = got \cup ({reg} \ {None})
    /\ act' = [NoAct EXCEPT !.at = "dSlot"]
    /\ UNCHANGED <<history, queue, shared, mode, task, picker>>

Ask ==
    /\ mode = "polls" /\ act.at = "idle"
    /\ mode' = "asks" /\ sawReady' = FALSE
    /\ UNCHANGED <<history, queue, shared, act, got, task, picker>>

----------------------------------------------------------------------------
(* Core 1, act_loop.  A read of $FFE0 stages the slot's byte when bit 6 is *)
(* clear: the byte to $FFE2, the slot emptied, bit 6 written last.         *)
ActPollFlags ==
    /\ act.at = "pFlags"
    /\ act' = [act EXCEPT !.at = IF flag THEN "pReady" ELSE "pSlot",
                          !.flags = flag]
    /\ UNCHANGED <<history, queue, shared, program, task, picker>>

ActPollSlot ==
    /\ act.at = "pSlot"
    /\ act' = [act EXCEPT !.at = IF slot # None THEN "pReg" ELSE "pReady",
                          !.ch = slot]
    /\ UNCHANGED <<history, queue, shared, program, task, picker>>

ActPollReg ==
    /\ act.at = "pReg"
    /\ reg' = act.ch
    /\ act' = [act EXCEPT !.at = "pEmpty", !.flags = TRUE]
    /\ UNCHANGED <<history, queue, slot, flag, program, task, picker>>

ActPollEmpty ==
    /\ act.at = "pEmpty"
    /\ slot' = None
    /\ act' = [act EXCEPT !.at = "pReady"]
    /\ UNCHANGED <<history, queue, flag, reg, program, task, picker>>

ActPollReady ==
    /\ act.at = "pReady"
    /\ flag' = act.flags
    /\ act' = NoAct
    /\ UNCHANGED <<history, queue, slot, reg, program, task, picker>>

(* A read of $FFE2 replaces the byte by the slot's, emptied last, or       *)
(* clears bit 6 and the register.                                          *)
ActDataSlot ==
    /\ act.at = "dSlot"
    /\ act' = [act EXCEPT !.at = IF slot # None THEN "dReg" ELSE "dDrop",
                          !.ch = slot]
    /\ UNCHANGED <<history, queue, shared, program, task, picker>>

ActDataReg ==
    /\ act.at = "dReg"
    /\ reg' = act.ch
    /\ act' = [act EXCEPT !.at = "dReady"]
    /\ UNCHANGED <<history, queue, slot, flag, program, task, picker>>

ActDataReady ==
    /\ act.at = "dReady"
    /\ flag' = TRUE
    /\ act' = [act EXCEPT !.at = "dEmpty"]
    /\ UNCHANGED <<history, queue, slot, reg, program, task, picker>>

(* Mutant: the read of $FFE2 leaves the byte in the slot.                  *)
KeepsSlot ==
    /\ act.at = "dEmpty"
    /\ act' = NoAct
    /\ UNCHANGED <<history, queue, shared, program, task, picker>>

ActDataEmpty ==
    /\ act.at = "dEmpty"
    /\ slot' = None
    /\ act' = NoAct
    /\ UNCHANGED <<history, queue, flag, reg, program, task, picker>>

ActDataDrop ==
    /\ act.at = "dDrop"
    /\ flag' = FALSE
    /\ act' = [act EXCEPT !.at = "dZero"]
    /\ UNCHANGED <<history, queue, slot, reg, program, task, picker>>

ActDataZero ==
    /\ act.at = "dZero"
    /\ reg' = None
    /\ act' = NoAct
    /\ UNCHANGED <<history, queue, slot, flag, program, task, picker>>

ActLoop ==
    \/ ActPollFlags \/ ActPollSlot \/ ActPollReg \/ ActPollEmpty \/ ActPollReady
    \/ ActDataSlot \/ ActDataReg \/ ActDataReady \/ ActDataEmpty
    \/ ActDataDrop \/ ActDataZero

----------------------------------------------------------------------------
(* Mutant: the offer does not ask whether the slot is taken.               *)
SlotNotAsked == TRUE

(* Core 0.  com_task asks ria_uart_rx_offer_ready, which reads the slot    *)
(* and then bit 6, and only then picks a byte to offer.                    *)
SlotLooksEmpty == slot = None

TaskLook ==
    /\ task.at = "idle" /\ SlotLooksEmpty
    /\ task' = [NoTask EXCEPT !.at = "ready"]
    /\ UNCHANGED <<history, queue, shared, act, program, picker>>

(* Mutant: a hold is never let go.                                         *)
NeverReleases == held' = held

(* com_rx_pick first lets go of a source whose dwell has passed.           *)
Release == held' = IF passed THEN Any ELSE held

TaskReady ==
    /\ task.at = "ready"
    /\ IF flag
       THEN task' = NoTask /\ UNCHANGED held
       ELSE task' = [task EXCEPT !.at = "pick"] /\ Release
    /\ overtook' = (overtook \/ (~flag /\ act.at = "pReady" /\ act.flags))
    /\ UNCHANGED <<sent, cleared, queue, shared, act, program, passed, charSrc>>

(* The OS call of the waiting program: com_stdin_read on core 0.           *)
StdinRead(length) ==
    /\ task.at = "idle" /\ mode = "asks"
    /\ task' = [NoTask EXCEPT !.at = "pick", !.who = "read", !.length = length]
    /\ Release
    /\ UNCHANGED <<history, queue, shared, act, program, passed, charSrc>>

(* The picker's next source; past the last one the call returns nothing.   *)
Pick ==
    /\ task.at = "pick"
    /\ IF task.s = Any
       THEN /\ task' = NoTask
            /\ mode' = IF task.who = "read" THEN "polls" ELSE mode
       ELSE /\ task' = IF held \notin {Any, task.s}
                       THEN [task EXCEPT !.s = @ + 1]
                       ELSE [task EXCEPT !.at = IF charSrc = task.s
                                                THEN "slot" ELSE "source"]
            /\ UNCHANGED mode
    /\ UNCHANGED <<history, queue, shared, act, sawReady, got, picker>>

(* ria_uart_rx_reclaim for the source whose byte is staged: the slot's     *)
(* byte, or else the register's.                                           *)
ReclaimSlot ==
    /\ task.at = "slot"
    /\ task' = IF slot # None
               THEN [task EXCEPT !.at = "slotEmpty", !.hand = <<slot>>]
               ELSE [task EXCEPT !.at = "flag"]
    /\ UNCHANGED <<history, queue, shared, act, program, picker>>

ReclaimSlotEmpty ==
    /\ task.at = "slotEmpty"
    /\ slot' = None
    /\ task' = [task EXCEPT !.at = "source"]
    /\ UNCHANGED <<history, queue, flag, reg, act, program, picker>>

(* Mutant: a byte that left the slot for the register is not taken back.   *)
ForgetsRegister ==
    /\ task.at = "flag"
    /\ task' = [task EXCEPT !.at = "source"]
    /\ UNCHANGED <<history, queue, shared, act, program, picker>>

ReclaimFlag ==
    /\ task.at = "flag"
    /\ task' = [task EXCEPT !.at = IF flag THEN "reg" ELSE "source"]
    /\ UNCHANGED <<history, queue, shared, act, program, picker>>

ReclaimReg ==
    /\ task.at = "reg"
    /\ task' = [task EXCEPT !.at = "flagDrop", !.hand = <<reg>>]
    /\ UNCHANGED <<history, queue, shared, act, program, picker>>

ReclaimFlagDrop ==
    /\ task.at = "flagDrop"
    /\ flag' = FALSE
    /\ task' = [task EXCEPT !.at = "regZero"]
    /\ UNCHANGED <<history, queue, slot, reg, act, program, picker>>

ReclaimRegZero ==
    /\ task.at = "regZero"
    /\ reg' = None
    /\ task' = [task EXCEPT !.at = "source"]
    /\ UNCHANGED <<history, queue, slot, flag, act, program, picker>>

Reclaim ==
    \/ ReclaimSlot \/ ReclaimSlotEmpty \/ ReclaimFlag
    \/ ReclaimReg \/ ReclaimFlagDrop \/ ReclaimRegZero

(* The source's own row fills what is left of the length.  A source that   *)
(* gave something is held; one with no dwell that gave nothing is let go.  *)
ReadSource ==
    LET s == task.s
        n == Min({task.length - Len(task.hand), Len(queue[s])})
        hand == task.hand \o SubSeq(queue[s], 1, n)
    IN  /\ task.at = "source"
        /\ queue' = [queue EXCEPT ![s] = SubSeq(@, n + 1, Len(@))]
        /\ IF hand # <<>>
           THEN /\ task' = [task EXCEPT !.hand = hand,
                               !.at = IF task.who = "read"
                                      THEN "return" ELSE "offer"]
                /\ held' = s /\ passed' = (s \notin Dwell)
           ELSE /\ task' = [task EXCEPT !.at = "pick", !.s = s + 1]
                /\ held' = IF s \in Dwell THEN held ELSE Any
                /\ UNCHANGED passed
        /\ UNCHANGED <<history, shared, act, program, charSrc>>

(* com_task names the source of the byte and offers it.                    *)
Offer ==
    /\ task.at = "offer"
    /\ charSrc' = task.s
    /\ slot' = Head(task.hand)
    /\ task' = NoTask
    /\ UNCHANGED <<history, queue, flag, reg, act, program, held, passed>>

(* The OS call returns its bytes, in order.                                *)
Return ==
    /\ task.at = "return"
    /\ got' = got \cup ({Head(task.hand)} \ {None})
    /\ IF Len(task.hand) = 1
       THEN task' = NoTask /\ mode' = "polls"
       ELSE task' = [task EXCEPT !.hand = Tail(@)] /\ UNCHANGED mode
    /\ UNCHANGED <<history, queue, shared, act, sawReady, picker>>

(* Mutant: only the slot is given back, not the register.                  *)
ClearedSlotOnly == slot' = None /\ UNCHANGED <<flag, reg>>

(* com_rx_clear with the 6502 in reset: each source gives back its staged  *)
(* byte, one at most, and empties its row.                                 *)
Cleared ==
    /\ slot' = None
    /\ IF slot = None THEN flag' = FALSE /\ reg' = None ELSE UNCHANGED <<flag, reg>>

Discard ==
    /\ task.at = "idle" /\ act.at = "idle" /\ mode = "polls"
    /\ cleared' = sent
    /\ queue' = [s \in Source |-> <<>>]
    /\ held' = Any
    /\ sawReady' = FALSE
    /\ UNCHANGED <<sent, overtook, act, mode, got, task, passed, charSrc>>

(* proc_stop of a program nothing follows discards the type-ahead; a break *)
(* does as well, and ria_break then empties the latch outright.            *)
Stop == Discard /\ Cleared
Break == Discard /\ slot' = None /\ flag' = FALSE /\ reg' = None

Core0 ==
    \/ TaskLook \/ TaskReady \/ (\E n \in 1..MaxRead : StdinRead(n))
    \/ Pick \/ Reclaim \/ ReadSource \/ Offer \/ Return

Next ==
    \/ (\E s \in Source : Arrive(s)) \/ Expire
    \/ Poll \/ Read \/ Ask
    \/ ActLoop \/ Core0
    \/ Stop \/ Break

Spec == Init /\ [][Next]_vars

(* Both cores run, every walk of core 0's tasks serves an OS call that     *)
(* waits, time passes, and the program keeps polling and reads what it is  *)
(* told is there.                                                          *)
Fairness ==
    /\ WF_vars(ActLoop)
    /\ SF_vars(Core0)
    /\ SF_vars(\E n \in 1..MaxRead : StdinRead(n))
    /\ WF_vars(Expire)
    /\ SF_vars(Poll)
    /\ SF_vars(Read)

FairSpec == Spec /\ Fairness

----------------------------------------------------------------------------
SetOf(f) == {f[i] : i \in DOMAIN f}

(* The bytes on their way: in a row, in a core's hands, in the slot or in  *)
(* the register while bit 6 announces it.                                  *)
Underway ==
    (UNION {SetOf(queue[s]) : s \in Source})
    \cup SetOf(task.hand) \cup {slot, act.ch}
    \cup (IF flag \/ task.at \in {"flagDrop", "regZero"} THEN {reg} ELSE {})

(* However the cores interleave, no byte that arrived vanishes: it is      *)
(* underway or was read, unless it was there when a break, or an exit with *)
(* nothing to follow, discarded the type-ahead (api/proc.c: "No ROM is     *)
(* launching, so the type-ahead goes").  Those are gone from the latch,    *)
(* both bytes it may hold, unless core 0 has looked in the window.         *)
KeptTillCleared ==
    /\ \A s \in Source : \A n \in (cleared[s] + 1)..sent[s] :
           <<s, n>> \in Underway \cup got
    /\ overtook \/ \A b \in {slot} \cup (IF flag THEN {reg} ELSE {}) :
                      b # None => b[2] > cleared[b[1]]

(* The program reads each source's bytes in the order they arrived,        *)
(* whether it reads the registers or asks the OS (com.h: a reader takes    *)
(* the staged byte back before the source's own row is read).              *)
NewBytesAreNewest ==
    \A b \in got' \ got : \A a \in got : a[1] = b[1] => a[2] < b[2]

InOrder == [][NewBytesAreNewest]_vars

(* As above, until core 0 first looks at the latch in core 1's window; and *)
(* till then no byte is read twice, and no read the program was told to    *)
(* make returns the zero of an empty register.                             *)
OnceInOrderTillOvertaken ==
    [][overtook \/
        /\ NewBytesAreNewest
        /\ Read => reg \notin got /\ (sawReady => reg # None)
        /\ Return => Head(task.hand) \in Bytes \ got]_vars

(* A program that keeps polling and reading reads every byte no break or   *)
(* exit discards: the pick's hold on a source never starves another, and   *)
(* the two cores never each wait for the other to fill or empty the latch. *)
(* Once core 0 has looked in the window a byte may be taken back from a    *)
(* program that was told of it, again and again.                           *)
Delivered ==
    \A b \in Bytes :
        sent[b[1]] >= b[2] ~> b \in got \/ cleared[b[1]] >= b[2] \/ overtook

=============================================================================
