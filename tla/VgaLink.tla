------------------------------ MODULE VgaLink ------------------------------
(***************************************************************************)
(* The RIA and the VGA of a Pico machine, two boards with a one-way bus    *)
(* (PIX) from the first to the second and a one-way serial backchannel the *)
(* other way.  The 6502 programs the VGA with the xreg op, whose key       *)
(* registers (canvas and mode) wait for an answer; VSYNC comes over the    *)
(* same backchannel and is caught early by a trap on its start bit, so the *)
(* VGA holds answers back around a VSYNC.  The VGA may be missing, die and *)
(* come back; answers may be too late for the RIA's timeout.               *)
(***************************************************************************)
EXTENDS Integers, Sequences

CONSTANTS
    Canvases,   \* the canvases a program may select
    Console,    \* vga_canvas_console, the canvas of the terminal
    Bad,        \* a canvas the VGA does not know
    MaxRegs,    \* bound: the most registers one call writes
    PixRoom,    \* pix_ready: PIX holds fewer messages than this (6)
    WireRoom,   \* bound: answers are read before more than this many queue
    MaxDeaths   \* bound: how often the VGA dies

ASSUME CanvasAssumption == {Console, Bad} \cap Canvases = {} /\ Console # Bad
ASSUME RoomAssumption ==
    /\ MaxRegs \in Nat \ {0} /\ PixRoom \in Nat \ {0}
    /\ WireRoom \in Nat \ {0} /\ MaxDeaths \in Nat

VARIABLES
    machine,    \* "up" while a program runs, else "down"
    busy,       \* the program waits for its xreg call
    call,       \* pix_index and the canvas word of the call
    left,       \* pix_send_count
    api,        \* pix_api_state
    canvas,     \* vga_canvas_current
    needsReset, \* vga_needs_reset
    state,      \* vga_state, the stages of vga_connect left out
    pix,        \* the messages in PIX, oldest first
    vga,        \* the VGA: powered, backchannel attached, canvas, xregs, modes
    held,       \* ria_held
    wire,       \* the bytes on the backchannel, the first one being sent
    phase,      \* whether a VSYNC was seen, and whether answers are locked out
    trap,       \* the alarm is set, the trap is armed, or neither
    fired,      \* vga_vsync_trap_fired
    debt,       \* VSYNCs the VGA sent less those the RIA raised, while it lives
    deaths,     \* how often the VGA has died
    mirrored,   \* no canvas selected by the RIA was lost with the VGA
    verdict,    \* what the VGA made of the call's key registers
    muddled,    \* the call began with an answer to an earlier one on its way
    result      \* how the last call ended

ria == <<machine, busy, call, left, api, canvas, needsReset>>
back == <<held, wire, phase>>
vsync == <<trap, fired, debt>>
history == <<mirrored, verdict, muddled, result>>
vars == <<ria, state, pix, vga, back, vsync, deaths, history>>

Answers == {"ack", "nak"}
Words == Canvases \cup {Console, Bad}
Key == {"canvas", "mode"}
Regs == Key \cup {"argument"}
RegAt(i) == IF i = 0 THEN "canvas" ELSE IF i = 1 THEN "mode" ELSE "argument"

(* new: of the program that runs; mine: of the wait that is in progress.   *)
Message == [reg : Regs \cup {"display", "detach"}, word : Words,
            new : BOOLEAN, mine : BOOLEAN]
Order(o) == [reg |-> o, word |-> Console, new |-> FALSE, mine |-> FALSE]
Orders == {Order("display"), Order("detach")}    \* on channel $F
Byte == [is : Answers \cup {"vsync"}, mine : BOOLEAN]
Vsync == [is |-> "vsync", mine |-> FALSE]
Nothing == [is |-> "none", mine |-> FALSE]

NoCall == [first |-> 0, word |-> Console]
Untried == [k \in Key |-> "none"]
Blank(on) == [on |-> on, attached |-> FALSE, canvas |-> Console,
              args |-> {}, drawn |-> {}]

TypeOK ==
    /\ machine \in {"up", "down"} /\ busy \in BOOLEAN
    /\ call \in [first : 0..2, word : Words]
    /\ left \in 0..MaxRegs
    /\ api \in {"running", "waiting"} \cup Answers
    /\ canvas \in Canvases \cup {Console} /\ needsReset \in BOOLEAN
    /\ state \in {"notFound", "connected", "lost"}
    /\ pix \in Seq(Message) /\ Len(pix) <= PixRoom
    /\ vga \in [on : BOOLEAN, attached : BOOLEAN,
                canvas : Canvases \cup {Console},
                args : SUBSET {"new", "old"}, drawn : SUBSET {"new", "old"}]
    /\ held \in [is : Answers, mine : BOOLEAN] \cup {Nothing}
    /\ wire \in Seq(Byte)
    /\ phase \in {"unseen", "open", "locked"}
    /\ trap \in {"off", "set", "armed"}
    /\ fired \in BOOLEAN /\ mirrored \in BOOLEAN /\ muddled \in BOOLEAN
    /\ debt \in -1..WireRoom + 1
    /\ deaths \in 0..MaxDeaths
    /\ verdict \in [Key -> Answers \cup {"none", "asked"}]
    /\ result \in {"none", "ok", "EINVAL", "EIO", "refused"}

(* vga_init has looked for a VGA; vga_needs_reset starts as true.          *)
Init ==
    /\ machine = "down" /\ busy = FALSE /\ call = NoCall
    /\ left = 0 /\ api = "running"
    /\ canvas = Console /\ needsReset = TRUE
    /\ pix = <<>>
    /\ \E on \in BOOLEAN :
        /\ vga = [Blank(on) EXCEPT !.attached = on]
        /\ state = IF on THEN "connected" ELSE "notFound"
    /\ held = Nothing /\ wire = <<>> /\ phase = "unseen"
    /\ trap = "off" /\ fired = FALSE /\ debt = 0
    /\ deaths = 0 /\ mirrored = TRUE
    /\ verdict = Untried /\ muddled = FALSE /\ result = "none"

----------------------------------------------------------------------------
(* When nobody waits any more, what is on its way becomes a stray.         *)
Stray(b) == [b EXCEPT !.mine = FALSE]
StrayAll(s) == [i \in DOMAIN s |-> Stray(s[i])]
Strays ==
    \/ held # Nothing
    \/ \E i \in DOMAIN wire : wire[i].is # "vsync"
    \/ \E i \in DOMAIN pix : pix[i].reg \in Key

PixReady == Len(pix) < PixRoom

(* The program asks; its words lie on the xstack.                          *)
Ask ==
    /\ machine = "up" /\ ~busy
    /\ busy' = TRUE /\ result' = "none"
    /\ UNCHANGED <<machine, call, left, api, canvas, needsReset, state, pix, vga,
                   back, vsync, deaths, mirrored, verdict, muddled>>

(* The call ends, or is broken off, with p what PIX then holds.            *)
GiveUp(r, p) ==
    /\ busy' = FALSE /\ result' = r
    /\ call' = NoCall /\ left' = 0 /\ api' = "running"
    /\ held' = Stray(held) /\ wire' = StrayAll(wire) /\ pix' = StrayAll(p)
    /\ verdict' = Untried /\ muddled' = FALSE
    /\ UNCHANGED <<state, vga, phase, vsync, deaths, mirrored>>

(* api_return_ax, api_return_errno, api_working.                           *)
Answer(r) == GiveUp(r, pix) /\ UNCHANGED <<machine, canvas, needsReset>>
Working ==
    UNCHANGED <<busy, machine, needsReset, state, vga, back, vsync, deaths,
                mirrored, result>>

(* pix_send of register r.                                                 *)
Put(r, w) ==
    Append(pix, [reg |-> r, word |-> IF r = "canvas" THEN w ELSE Console,
                 new |-> TRUE, mine |-> r \in Key])

(* vga_set_canvas, which knows what the VGA will refuse.                   *)
SetCanvas(r, w) == canvas' = IF r = "canvas" /\ w # Bad THEN w ELSE canvas

Idle == busy /\ api = "running" /\ left = 0

(* A call for the RIA's own registers, or with arguments that are refused. *)
Refuse == Idle /\ Answer("refused")

(* Mutant: the canvas goes first, the mode does not wait for its answer.   *)
SetupUnawaited(f, n, w) ==
    /\ Idle
    /\ muddled' = Strays
    /\ IF f = 0 /\ n > 1
       THEN /\ PixReady /\ pix' = Put("canvas", w) /\ SetCanvas("canvas", w)
            /\ call' = [first |-> 1, word |-> Console]
            /\ left' = n - 1 /\ UNCHANGED api
            /\ verdict' = [Untried EXCEPT !["canvas"] = "asked"]
       ELSE /\ call' = [first |-> f, word |-> w]
            /\ left' = n
            /\ verdict' = Untried
            /\ UNCHANGED <<api, canvas, pix>>
    /\ Working

(* A call is set up: first register f, n registers, canvas word w.  Its    *)
(* registers go out in reverse; a canvas that leads others goes first, or  *)
(* it would clear the mode.                                                *)
Setup(f, n, w) ==
    /\ Idle
    /\ muddled' = Strays
    /\ IF f = 0 /\ n > 1
       THEN /\ PixReady /\ pix' = Put("canvas", w) /\ SetCanvas("canvas", w)
            /\ call' = [first |-> 1, word |-> Console]
            /\ left' = n - 1 /\ api' = "waiting"
            /\ verdict' = [Untried EXCEPT !["canvas"] = "asked"]
       ELSE /\ call' = [first |-> f, word |-> w]
            /\ left' = n
            /\ verdict' = Untried
            /\ UNCHANGED <<api, canvas, pix>>
    /\ Working

(* One register goes out; a key register waits for its answer.             *)
Send ==
    LET r == RegAt(call.first + left - 1) IN
    /\ busy /\ left > 0 /\ api \in {"running", "ack"} /\ PixReady
    /\ IF r \in Key \/ left > 1
       THEN /\ pix' = Put(r, call.word)
            /\ SetCanvas(r, call.word)
            /\ left' = left - 1
            /\ api' = IF r \in Key THEN "waiting" ELSE "running"
            /\ verdict' = IF r \in Key THEN [verdict EXCEPT ![r] = "asked"] ELSE verdict
            /\ UNCHANGED <<call, muddled>>
            /\ Working
       ELSE GiveUp("ok", Put(r, call.word)) /\ UNCHANGED <<machine, canvas, needsReset>>

Acked == busy /\ api = "ack" /\ left = 0 /\ Answer("ok")
Naked == busy /\ api = "nak" /\ Answer("EINVAL")

(* 25 ms after the register went out.                                      *)
Timeout == busy /\ api = "waiting" /\ Answer("EIO")

Calls == {c \in (0..2) \X (1..MaxRegs) \X Words :
              c[1] + c[2] <= MaxRegs /\ (c[1] # 0 => c[3] = Console)}

PixApiXreg ==
    \/ Refuse \/ (\E c \in Calls : Setup(c[1], c[2], c[3]))
    \/ Send \/ Acked \/ Naked \/ Timeout

----------------------------------------------------------------------------
(* Mutant: vga_stop forgets the reset.                                     *)
StopUnreset ==
    /\ machine = "up"
    /\ machine' = "down"
    /\ GiveUp("none", pix) /\ UNCHANGED <<canvas, needsReset>>

(* The stop hooks pix_stop and vga_stop (vga_break does what vga_stop does).*)
Stop ==
    /\ machine = "up"
    /\ machine' = "down" /\ needsReset' = TRUE
    /\ GiveUp("none", pix) /\ UNCHANGED canvas

(* A break, or another display type set in the monitor.                    *)
ResetAgain ==
    /\ machine = "down"
    /\ needsReset' = TRUE
    /\ UNCHANGED <<machine, busy, call, left, api, canvas, state, pix, vga, back,
                   vsync, deaths, history>>

(* Mutant: the VGA is put back, the RIA's own idea of its canvas is not.   *)
ResetNotMirrored ==
    /\ needsReset /\ PixReady
    /\ needsReset' = FALSE /\ mirrored' = TRUE
    /\ pix' = Append(pix, Order("display"))
    /\ UNCHANGED <<machine, busy, call, left, api, canvas, state, vga, back, vsync,
                   deaths, verdict, muddled, result>>

(* vga_task, which every walk runs: the VGA is put back to the console,    *)
(* and the RIA's idea of it too.                                           *)
VgaTaskReset ==
    /\ needsReset /\ PixReady
    /\ needsReset' = FALSE
    /\ canvas' = Console /\ mirrored' = TRUE
    /\ pix' = Append(pix, Order("display"))
    /\ UNCHANGED <<machine, busy, call, left, api, state, vga, back, vsync, deaths,
                   verdict, muddled, result>>

(* vga_task when no VSYNC came for 44 ms, twice what a VGA that lives and  *)
(* has its backchannel attached ever takes.                                *)
VgaTaskLost ==
    /\ state = "connected" /\ ~vga.attached /\ PixReady
    /\ state' = "lost" /\ trap' = "off"
    /\ pix' = Append(pix, Order("detach"))
    /\ UNCHANGED <<ria, vga, back, fired, debt, deaths, history>>

(* A new program: what there is of the last one is old.                    *)
Aging(m) == [m EXCEPT !.new = FALSE]
Old(s) == [i \in DOMAIN s |-> Aging(s[i])]
OldTags(t) == IF t = {} THEN {} ELSE {"old"}
Aged == [vga EXCEPT !.args = OldTags(@), !.drawn = OldTags(@)]

(* vga_run does nothing unless the connection was lost.                    *)
Run ==
    /\ machine = "down" /\ ~needsReset /\ state # "lost"
    /\ machine' = "up"
    /\ pix' = Old(pix) /\ vga' = Aged
    /\ UNCHANGED <<busy, call, left, api, canvas, needsReset, state, back, vsync,
                   deaths, history>>

(* vga_connect blocks: the VGA takes what is in PIX, is asked who it is,   *)
(* has 3 ms to answer, and is told to take the pin and say its version.    *)
RunConnects ==
    /\ machine = "down" /\ ~needsReset /\ state = "lost" /\ pix = <<>>
    /\ machine' = "up"
    /\ IF vga.on
       THEN /\ state' = "connected"
            /\ vga' = [Aged EXCEPT !.attached = TRUE]
            /\ UNCHANGED pix
       ELSE /\ state' = "notFound"
            /\ pix' = <<Order("detach")>>
            /\ UNCHANGED vga
    /\ UNCHANGED <<busy, call, left, api, canvas, needsReset, back, trap, fired,
                   debt, deaths, history>>

----------------------------------------------------------------------------
(* The falling edge of a byte's first bit fires a trap that is armed: the  *)
(* RIA raises VSYNC and guesses the frame number.                          *)
TrapFires == trap' = "off" /\ fired' = TRUE
NoTrap == UNCHANGED <<trap, fired>>
Edge == IF trap = "armed" THEN TrapFires ELSE NoTrap
Owe(n) == debt' = IF deaths = 0 THEN debt + n ELSE 0
Raised == IF trap = "armed" THEN 1 ELSE 0

(* pio_sm_put: a byte is sent at once if none is ahead of it; without the  *)
(* pin it goes nowhere.                                                    *)
Emit(b) ==
    IF vga.attached
    THEN /\ wire' = Append(wire, b)
         /\ IF wire = <<>> THEN Edge ELSE NoTrap
         /\ Owe((IF b = Vsync THEN 1 ELSE 0) - (IF wire = <<>> THEN Raised ELSE 0))
    ELSE UNCHANGED <<wire, trap, fired, debt>>

WireFree == Len(wire) < WireRoom

(* Mutant: no lockout.                                                     *)
SendAtOnce(b) == Emit(b) /\ UNCHANGED held

(* ria_send, under its lock: while a VSYNC is due an answer is held.       *)
RiaSend(b) ==
    IF phase = "locked"
    THEN held' = b /\ UNCHANGED <<wire, trap, fired, debt>>
    ELSE Emit(b) /\ UNCHANGED held

(* Mutant: what was held is sent and held on to.                           *)
ResendHeld ==
    /\ held # Nothing /\ phase # "locked" /\ WireFree
    /\ Emit(held)
    /\ UNCHANGED <<ria, state, pix, vga, held, phase, deaths, history>>

(* The VGA's ria_task.                                                     *)
RiaTask ==
    /\ held # Nothing /\ phase # "locked" /\ WireFree
    /\ Emit(held) /\ held' = Nothing
    /\ UNCHANGED <<ria, state, pix, vga, phase, deaths, history>>

(* ria_vsync, from either core of the VGA; it may come before the frame    *)
(* period is over or after it, when the VGA switches modes, but never      *)
(* while the last one is still being sent.                                 *)
RiaVsync ==
    /\ vga.on /\ \A i \in DOMAIN wire : wire[i] # Vsync
    /\ phase' = "open"
    /\ Emit(Vsync)
    /\ UNCHANGED <<ria, state, pix, vga, held, deaths, history>>

(* ria_locked_out, 2 ms to either side of the next VSYNC expected.  The    *)
(* RIA's own window is half a millisecond shorter on either side.          *)
LockoutBegins ==
    /\ phase = "open"
    /\ phase' = "locked"
    /\ UNCHANGED <<ria, state, pix, vga, held, wire, vsync, deaths, history>>

LockoutEnds ==
    /\ phase = "locked" /\ trap # "armed"
    /\ phase' = "open"
    /\ UNCHANGED <<ria, state, pix, vga, held, wire, vsync, deaths, history>>

----------------------------------------------------------------------------
(* The VGA's pix_task, a message at a time.                                *)
Msg == Head(pix)
Tag == IF Msg.new THEN "new" ELSE "old"

Take ==
    /\ vga.on /\ pix # <<>> /\ WireFree
    /\ pix' = Tail(pix)
    /\ UNCHANGED <<ria, state, phase, deaths, mirrored, muddled, result>>

Reply(a) ==
    /\ RiaSend([is |-> a, mine |-> Msg.mine])
    /\ verdict' = IF Msg.mine THEN [verdict EXCEPT ![Msg.reg] = a] ELSE verdict

(* vga_xreg_canvas; a canvas is a fresh screen, but the console stays as   *)
(* it is when it was selected.                                             *)
TakeCanvas ==
    /\ Take /\ Msg.reg = "canvas"
    /\ IF Msg.word = Bad
       THEN /\ Reply("nak")
            /\ vga' = [vga EXCEPT !.args = {}]
       ELSE /\ Reply("ack")
            /\ vga' = [vga EXCEPT !.args = {}, !.canvas = Msg.word,
                           !.drawn = IF Msg.word = Console THEN {} ELSE {Tag}]

(* A mode takes the registers above it.  The console has no modes, and a   *)
(* mode may be refused for its arguments.                                  *)
TakeMode ==
    /\ Take /\ Msg.reg = "mode"
    /\ \/ /\ Reply("nak")
          /\ vga' = [vga EXCEPT !.args = {}]
       \/ /\ vga.canvas # Console
          /\ Reply("ack")
          /\ vga' = [vga EXCEPT !.args = {}, !.drawn = @ \cup {Tag}]

TakeArgument ==
    /\ Take /\ Msg.reg = "argument"
    /\ vga' = [vga EXCEPT !.args = @ \cup {Tag}]
    /\ UNCHANGED <<held, wire, trap, fired, debt, verdict>>

TakeDisplay ==
    /\ Take /\ Msg.reg = "display"
    /\ vga' = [vga EXCEPT !.args = {}, !.drawn = {}, !.canvas = Console]
    /\ UNCHANGED <<held, wire, trap, fired, debt, verdict>>

TakeDetach ==
    /\ vga.on /\ pix # <<>> /\ Msg.reg = "detach"
    /\ pix' = Tail(pix)
    /\ vga' = [vga EXCEPT !.attached = FALSE]
    /\ phase' = "unseen" /\ held' = Nothing
    /\ UNCHANGED <<ria, state, wire, vsync, deaths, history>>

PixTask == TakeCanvas \/ TakeMode \/ TakeArgument \/ TakeDisplay \/ TakeDetach

(* The VGA loses its power or is reset, and is back some time later.       *)
VgaDies ==
    /\ vga.on /\ deaths < MaxDeaths
    /\ deaths' = deaths + 1
    /\ vga' = Blank(FALSE)
    /\ held' = Nothing /\ wire' = <<>> /\ phase' = "unseen"
    /\ debt' = 0 /\ mirrored' = FALSE
    /\ UNCHANGED <<ria, state, pix, trap, fired, verdict, muddled, result>>

VgaBoots ==
    /\ ~vga.on
    /\ vga' = Blank(TRUE)
    /\ UNCHANGED <<ria, state, pix, back, vsync, deaths, history>>

(* PIX is clocked out whether anybody listens or not.                      *)
PixDrops ==
    /\ ~vga.on /\ pix # <<>>
    /\ pix' = Tail(pix)
    /\ mirrored' = (mirrored /\ Head(pix) \in Orders)
    /\ UNCHANGED <<ria, state, vga, back, vsync, deaths, verdict, muddled, result>>

----------------------------------------------------------------------------
(* The RIA's interrupts.  vga_backchannel_command: a VSYNC whose trap      *)
(* fired has been raised already.  (The guessed frame number can be wrong  *)
(* only after a reconnection, where VSYNCs are not counted here.)          *)
Received == state = "connected" /\ wire # <<>> /\ wire' = Tail(wire)

ReceiveVsync ==
    /\ Received /\ Head(wire) = Vsync
    /\ trap' = "set" /\ fired' = FALSE
    /\ Owe(IF fired THEN 0 ELSE -1)
    /\ UNCHANGED <<ria, state, pix, vga, held, phase, deaths, history>>

(* pix_ack and pix_nak.                                                    *)
ReceiveAnswer ==
    /\ Received /\ Head(wire) # Vsync
    /\ api' = IF api = "waiting" THEN Head(wire).is ELSE api
    /\ IF Len(wire) > 1
       THEN Edge /\ Owe(-Raised)
       ELSE NoTrap /\ UNCHANGED debt
    /\ UNCHANGED <<machine, busy, call, left, canvas, needsReset, state, pix, vga,
                   held, phase, deaths, history>>

(* vga_vsync_alarm_handler arms the trap 1.5 ms before the VSYNC expected  *)
(* and disarms it 1.5 ms after.  A VSYNC that comes early may be on the    *)
(* wire by then, and the edges of its bits fire the trap.                  *)
Arm ==
    /\ trap = "set" /\ state = "connected"
    /\ \A i \in DOMAIN wire : wire[i] = Vsync
    /\ phase = "locked" \/ wire # <<>>
    /\ trap' = "armed" /\ fired' = FALSE
    /\ UNCHANGED <<ria, state, pix, vga, back, debt, deaths, history>>

BitFires ==
    /\ trap = "armed" /\ wire # <<>>
    /\ TrapFires /\ Owe(-1)
    /\ UNCHANGED <<ria, state, pix, vga, back, deaths, history>>

Disarm ==
    /\ trap = "armed"
    /\ trap' = "off"
    /\ UNCHANGED <<ria, state, pix, vga, back, fired, debt, deaths, history>>

Interrupts == ReceiveVsync \/ ReceiveAnswer \/ Arm \/ BitFires \/ Disarm

Next ==
    \/ Ask \/ PixApiXreg \/ Stop \/ ResetAgain \/ VgaTaskReset
    \/ VgaTaskLost \/ Run \/ RunConnects
    \/ PixTask \/ RiaTask \/ RiaVsync \/ LockoutBegins \/ LockoutEnds
    \/ VgaDies \/ VgaBoots \/ PixDrops
    \/ Interrupts

Spec == Init /\ [][Next]_vars

----------------------------------------------------------------------------
(* vga_canvas_current, which the RIA keeps without asking, is the canvas   *)
(* the VGA will have when it has taken what is in PIX, whatever was        *)
(* refused, given up or broken off; a VGA that dies is in step again with  *)
(* the next reset (vga.c: "Mirror that here").                             *)
SetsCanvas(m) == m.reg = "display" \/ (m.reg = "canvas" /\ m.word # Bad)

WillBe(c) ==
    \/ c = vga.canvas /\ \A i \in DOMAIN pix : ~SetsCanvas(pix[i])
    \/ \E i \in DOMAIN pix :
          /\ SetsCanvas(pix[i]) /\ c = pix[i].word
          /\ \A j \in DOMAIN pix : j > i => ~SetsCanvas(pix[j])

CanvasMirrored == vga.on /\ mirrored => WillBe(canvas)

(* A call that returns 0 had each of its key registers accepted, and one   *)
(* that returns EINVAL had one refused (pix.c: canvas and mode "require an *)
(* ACK"), unless an answer to an earlier call was still on its way when it *)
(* began: the answers carry no name.                                       *)
Returns(r) == busy /\ ~busy' /\ result' = r

XregHonest ==
    [][~muddled =>
         /\ Returns("ok") => \A k \in Key : verdict[k] \in {"none", "ack"}
         /\ Returns("EINVAL") => \E k \in Key : verdict[k] = "nak"]_vars

(* While a call waits, its answer is on its way in exactly one place: not  *)
(* lost in the VGA's lockout, not overwritten there, not sent twice.       *)
Mine(s) == {i \in DOMAIN s : s[i].mine}

AnswerOnItsWay ==
    api = "waiting" /\ ~muddled /\ deaths = 0 /\ state = "connected" =>
        \/ held.mine /\ Mine(pix) = {} /\ Mine(wire) = {}
        \/ ~held.mine /\ Mine(wire) = {} /\ \E i \in DOMAIN pix : Mine(pix) = {i}
        \/ ~held.mine /\ Mine(pix) = {} /\ \E i \in DOMAIN wire : Mine(wire) = {i}

(* The first register of a program finds the console, no mode and no       *)
(* arguments of the program before it, however that one ended and          *)
(* whatever it left in PIX.                                                *)
NothingInherited ==
    pix # <<>> /\ Head(pix).new => "old" \notin vga.args \cup vga.drawn

(* Every VSYNC of the VGA is raised once on the RIA, by the trap or by the *)
(* byte, and none is raised that the VGA did not send: no answer is ever   *)
(* taken for a VSYNC.                                                      *)
VsyncOnce ==
    deaths = 0 /\ state = "connected" =>
        /\ debt >= 0
        /\ wire = <<>> => debt = 0
=============================================================================
