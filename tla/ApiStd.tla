------------------------------ MODULE ApiStd -------------------------------
(***************************************************************************)
(* OS calls of a 6502 program: the op latch of core/api/api.c and the      *)
(* descriptors and transfers of core/api/std.c.  The 6502 writes an op     *)
(* number and waits for $FFF2 to clear.  Core 0 dispatches the op once per *)
(* walk until its handler answers; a handler may not block, so a transfer  *)
(* lives in static variables between dispatches.  A program can exit or be *)
(* broken off at any point, whatever is in flight.                         *)
(*                                                                         *)
(* A file driver answers a call in any way std.h permits.  Bytes have no   *)
(* values: what counts is how many moved and, for a read into xram, which  *)
(* addresses the video device's copy of xram still lacks.                  *)
(***************************************************************************)
EXTENDS Integers, FiniteSetsExt

CONSTANTS
    Fds,        \* the descriptors open() hands out (5..15 in the code)
    Descs,      \* what the file drivers number their open files with
    XramSize,   \* the size of xram
    Chunk,      \* the most one dispatch reads into xram
    MaxCount,   \* bound: the longest transfer a program asks for
    MaxLine,    \* bound: the longest line typed
    None

Stdin == "stdin"
Con == "con"

ASSUME FdsAssumption == Fds # {} /\ Stdin \notin Fds /\ Con \notin Fds
ASSUME SizesAssumption ==
    /\ XramSize \in Nat \ {0} /\ Chunk \in Nat \ {0}
    /\ MaxCount \in Nat /\ MaxLine \in Nat

VARIABLES
    machine,   \* "up", "exiting" (RESB is low, the stop not performed), "down"
    reg,       \* what the program put in API_OP, API_A and the xstack
    busy,      \* API_BUSY
    active,    \* api_active_op
    pool,      \* std_fd_pool: the driver's descriptor behind each open one
    files,     \* the descriptors the drivers hold open
    draining,  \* those with output still to go
    xfer,      \* std_fd_active, and std_size and std_pos while it is set
    fwd,       \* std_xram_addr, std_xram_len
    stale,     \* addresses whose copy in the video device is out of date
    line,      \* std_rln_pos, std_rln_len, std_rln_needs_nl, std_stdin_closed
    reading,   \* std_rln_active
    editor     \* rln_callback is std's

vars == <<machine, reg, busy, active, pool, files, draining, xfer,
          fwd, stale, line, reading, editor>>
call == <<reg, busy, active>>
fds == <<pool, files, draining>>
xram == <<fwd, stale>>
stdin == <<line, reading, editor>>

Ops == {"open", "close", "read", "readx", "write", "sync", "quick"}
ASSUME NoneAssumption == None \notin Descs \cup Ops \cup Fds \cup {Stdin, Con}
Console == {Stdin, Con}
NoXfer == [fd |-> None, size |-> 0, pos |-> 0]
NoLine == [pos |-> 0, len |-> 0, nl |-> FALSE, closed |-> FALSE]
Idle == [op |-> "quick", fd |-> Stdin, count |-> 0, addr |-> 0]

(* The arguments that each op looks at.                                    *)
Requests ==
    LET Fd == Fds \cup Console
        Count == 0..MaxCount
    IN  [op : {"open", "quick"}, fd : {Stdin}, count : {0}, addr : {0}]
        \cup [op : {"close", "sync"}, fd : Fd, count : {0}, addr : {0}]
        \cup [op : {"read", "write"}, fd : Fd, count : Count, addr : {0}]
        \cup [op : {"readx"}, fd : Fd, count : Count, addr : 0..XramSize-1]

TypeOK ==
    /\ machine \in {"up", "exiting", "down"}
    /\ reg \in Requests
    /\ busy \in BOOLEAN
    /\ active \in Ops \cup {None}
    /\ pool \in [Fds -> Descs \cup {None}]
    /\ files \subseteq Descs /\ draining \subseteq files
    /\ xfer \in [fd : Fds \cup Console \cup {None}, size : 0..MaxCount,
                 pos : 0..MaxCount]
    /\ fwd \in [addr : 0..XramSize, len : 0..XramSize]
    /\ stale \subseteq 0..XramSize-1
    /\ line \in [pos : 0..MaxLine, len : 0..MaxLine, nl : BOOLEAN,
                 closed : BOOLEAN]
    /\ reading \in BOOLEAN /\ editor \in BOOLEAN

Init ==
    /\ machine = "down"
    /\ reg = Idle /\ busy = FALSE /\ active = None
    /\ pool = [f \in Fds |-> None] /\ files = {} /\ draining = {}
    /\ xfer = NoXfer
    /\ fwd = [addr |-> 0, len |-> 0] /\ stale = {}
    /\ line = NoLine /\ reading = FALSE /\ editor = FALSE

----------------------------------------------------------------------------
(* The 6502, on core 1: it asks only while no op is in flight.             *)
Ask(r) ==
    /\ machine = "up" /\ ~busy
    /\ reg' = r /\ busy' = TRUE
    /\ UNCHANGED <<machine, active, fds, xfer, xram, stdin>>

(* Op $FF, a break key or an exec: RESB goes down, the stop is owed.       *)
Exit ==
    /\ machine = "up"
    /\ machine' = "exiting"
    /\ UNCHANGED <<call, fds, xfer, xram, stdin>>

----------------------------------------------------------------------------
(* api_task latches the op of a running program and dispatches the latched *)
(* one; a handler works on (api_working) or answers, which puts the result *)
(* in the registers and releases the program.                              *)
Serves(o) ==
    \/ active = o
    \/ active = None /\ machine = "up" /\ busy /\ reg.op = o

Working(o) == active' = o /\ UNCHANGED <<reg, busy>>
Answer == active' = None /\ busy' = FALSE /\ reg' = Idle

(* Every op that one dispatch answers and that changes nothing here.       *)
Quick ==
    /\ Serves("quick")
    /\ Answer
    /\ UNCHANGED <<machine, fds, xfer, xram, stdin>>

(* std_api_open finds a free descriptor before any driver is asked; it is  *)
(* refused when there is none or the driver fails.                         *)
FreeFds == {f \in Fds : pool[f] = None}

OpenRefused ==
    /\ Serves("open")
    /\ Answer
    /\ UNCHANGED <<machine, fds, xfer, xram, stdin>>

Open ==
    /\ Serves("open") /\ FreeFds # {}
    /\ \E f \in FreeFds, d \in Descs \ files :
        /\ pool' = [pool EXCEPT ![f] = d]
        /\ files' = files \cup {d}
    /\ Answer
    /\ UNCHANGED <<machine, draining, xfer, xram, stdin>>

IsOpen(f) == f \in Console \cup {g \in Fds : pool[g] # None}

(* A close is dispatched again while the driver drains; one that fails     *)
(* frees the descriptor all the same.  A console descriptor stays open.    *)
Close ==
    /\ Serves("close")
    /\ IF reg.fd \in Console
       THEN Answer /\ UNCHANGED fds
       ELSE IF pool[reg.fd] = None
       THEN Answer /\ UNCHANGED fds
       ELSE IF pool[reg.fd] \in draining
       THEN Working("close") /\ UNCHANGED fds
       ELSE /\ Answer
            /\ files' = files \ {pool[reg.fd]}
            /\ pool' = [pool EXCEPT ![reg.fd] = None]
            /\ UNCHANGED draining
    /\ UNCHANGED <<machine, xfer, xram, stdin>>

Sync ==
    /\ Serves("sync")
    /\ IF reg.fd \notin Fds \/ ~IsOpen(reg.fd)
       THEN Answer
       ELSE IF pool[reg.fd] \in draining
       THEN Working("sync")
       ELSE Answer
    /\ UNCHANGED <<machine, fds, xfer, xram, stdin>>

----------------------------------------------------------------------------
(* The first dispatch of a transfer checks the arguments (a descriptor     *)
(* that is not open or not for this direction, an xstack that holds        *)
(* something else) and records the transfer.                               *)
XferOps == {"read", "readx", "write"}
Fits == Min({reg.count, XramSize - reg.addr})

Refuse(o) ==
    /\ Serves(o) /\ xfer.fd = None
    /\ Answer
    /\ UNCHANGED <<machine, fds, xfer, xram, stdin>>

Begin(o) ==
    /\ Serves(o) /\ xfer.fd = None
    /\ IsOpen(reg.fd) /\ ~(o = "write" /\ reg.fd = Stdin)
    /\ Working(o)
    /\ xfer' = [fd |-> reg.fd, pos |-> 0,
                size |-> IF o = "readx" THEN Fits ELSE reg.count]
    /\ fwd' = IF o = "readx" THEN [addr |-> reg.addr, len |-> 0] ELSE fwd
    /\ UNCHANGED <<machine, fds, stale, stdin>>

(* A driver's answer to a call for n bytes: how many it moved and whether  *)
(* it is done, would block or failed.  The console is asked below.         *)
Replies(n) == [k : 0..n, res : {"ok", "pending", "error"}]

(* std_stdin_read: with the last line used up it asks the editor for the   *)
(* next; CON: answers an empty read rather than wait.                      *)
LineUsedUp == line.pos >= line.len /\ ~line.nl

(* Mutant: an empty stdin that has ended still waits for a line.           *)
EofStillWaits(n) ==
    LET taken == Min({n, line.len - line.pos})
        nl == IF taken < n /\ line.nl THEN 1 ELSE 0
    IN  IF n = 0
        THEN [k |-> 0, res |-> "ok", line |-> line, asks |-> FALSE]
        ELSE IF LineUsedUp
        THEN [k |-> 0, line |-> line, asks |-> ~line.closed /\ ~reading,
              res |-> IF xfer.fd = Con THEN "ok" ELSE "pending"]
        ELSE [k |-> taken + nl, res |-> "ok", asks |-> FALSE,
              line |-> [line EXCEPT !.pos = @ + taken,
                                    !.nl = @ /\ nl = 0]]

StdinRead(n) ==
    LET taken == Min({n, line.len - line.pos})
        nl == IF taken < n /\ line.nl THEN 1 ELSE 0
    IN  IF n = 0
        THEN [k |-> 0, res |-> "ok", line |-> line, asks |-> FALSE]
        ELSE IF LineUsedUp
        THEN [k |-> 0, line |-> line, asks |-> ~line.closed /\ ~reading,
              res |-> IF line.closed \/ xfer.fd = Con
                      THEN "ok" ELSE "pending"]
        ELSE [k |-> taken + nl, res |-> "ok", asks |-> FALSE,
              line |-> [line EXCEPT !.pos = @ + taken,
                                    !.nl = @ /\ nl = 0]]

(* The descriptor's read handler, and its effect on stdin.                 *)
CallRead(n, r) ==
    IF xfer.fd \in Console
    THEN LET s == StdinRead(n)
         IN  /\ r = [k |-> s.k, res |-> s.res]
             /\ line' = s.line
             /\ reading' = (reading \/ s.asks)
             /\ editor' = (editor \/ s.asks)
    ELSE r \in Replies(n) /\ UNCHANGED stdin

Read ==
    /\ Serves("read") /\ xfer.fd # None
    /\ \E r \in Replies(xfer.size - xfer.pos) :
        /\ CallRead(xfer.size - xfer.pos, r)
        /\ IF r.res = "pending"
           THEN /\ Working("read")
                /\ xfer' = [xfer EXCEPT !.pos = @ + r.k]
           ELSE Answer /\ xfer' = NoXfer
    /\ UNCHANGED <<machine, fds, xram>>

(* A read into xram goes chunk by chunk; std_task forwards what has been   *)
(* read, and the op answers only when all of it has been.  A failed read   *)
(* forgets what is still to be forwarded.                                  *)
ReadXram ==
    /\ Serves("readx") /\ xfer.fd # None /\ xfer.pos < xfer.size
    /\ LET n == Min({Chunk, xfer.size - xfer.pos})
           at == fwd.addr + fwd.len
       IN  \E r \in Replies(n) :
            /\ CallRead(n, r)
            /\ stale' = stale \cup (at..(at + r.k - 1))
            /\ IF r.res = "error"
               THEN /\ Answer
                    /\ xfer' = NoXfer
                    /\ fwd' = [fwd EXCEPT !.len = 0]
               ELSE /\ Working("readx")
                    /\ xfer' = [xfer EXCEPT
                                !.pos = @ + r.k,
                                !.size = IF r.res = "ok" /\ r.k < n
                                         THEN xfer.pos + r.k ELSE @]
                    /\ fwd' = [fwd EXCEPT !.len = @ + r.k]
    /\ UNCHANGED <<machine, fds>>

(* Mutant: the op answers as soon as the last byte is read.                *)
EndsUnforwarded ==
    /\ Serves("readx") /\ xfer.fd # None /\ xfer.pos = xfer.size
    /\ Answer /\ xfer' = NoXfer
    /\ UNCHANGED <<machine, fds, xram, stdin>>

ReadXramEnds ==
    /\ Serves("readx") /\ xfer.fd # None /\ xfer.pos = xfer.size
    /\ IF fwd.len > 0
       THEN Working("readx") /\ UNCHANGED xfer
       ELSE Answer /\ xfer' = NoXfer
    /\ UNCHANGED <<machine, fds, xram, stdin>>

(* Output makes its device drain; CON: takes what it can and is done.      *)
Write ==
    /\ Serves("write") /\ xfer.fd # None
    /\ \E r \in Replies(xfer.size - xfer.pos) :
        /\ xfer.fd = Con => r.res = "ok"
        /\ xfer' = IF r.res = "pending"
                   THEN [xfer EXCEPT !.pos = @ + r.k] ELSE NoXfer
        /\ draining' \in {draining} \cup
                (IF xfer.fd \in Fds /\ r.k > 0
                 THEN {draining \cup {pool[xfer.fd]}} ELSE {})
        /\ IF r.res = "pending"
           THEN Working("write")
           ELSE Answer
    /\ UNCHANGED <<machine, pool, files, xram, stdin>>

ApiTask ==
    \/ Quick \/ OpenRefused \/ Open \/ Close \/ Sync
    \/ (\E o \in XferOps : Begin(o) \/ Refuse(o))
    \/ Read \/ ReadXram \/ ReadXramEnds \/ Write

----------------------------------------------------------------------------
(* std_task: one byte to the video device while PIX has room.              *)
Forward ==
    /\ fwd.len > 0
    /\ stale' = stale \ {fwd.addr}
    /\ fwd' = [addr |-> fwd.addr + 1, len |-> fwd.len - 1]
    /\ UNCHANGED <<machine, call, fds, xfer, stdin>>

(* The editor's line is finished: std_rln_callback.                        *)
Line(n) ==
    /\ editor
    /\ editor' = FALSE /\ reading' = FALSE
    /\ line' = [line EXCEPT !.pos = 0, !.len = n, !.nl = TRUE]
    /\ UNCHANGED <<machine, call, fds, xfer, xram>>

(* The host's input ends: a line begun is handed over, or the read is      *)
(* given up.                                                               *)
StdinEof(n) ==
    /\ machine = "up" /\ ~line.closed
    /\ reading' = FALSE /\ editor' = FALSE
    /\ line' = IF reading /\ n > 0
               THEN [pos |-> 0, len |-> n, nl |-> TRUE, closed |-> TRUE]
               ELSE [line EXCEPT !.closed = TRUE]
    /\ UNCHANGED <<machine, call, fds, xfer, xram>>

(* A device has sent all of its output.                                    *)
Drain(d) ==
    /\ d \in draining
    /\ draining' = draining \ {d}
    /\ UNCHANGED <<machine, call, pool, files, xfer, xram, stdin>>

(* The stop hooks, in the reverse of drivers.h: API, RLN, MID and AUD      *)
(* (which cut their output short), STD.                                    *)
ApiStop == active' = None
(* Mutant: the editor keeps reading the line of the program that stopped.  *)
RlnStopKeepsLine == UNCHANGED editor

RlnStop == editor' = FALSE
(* Mutant: the stop forgets the transfer in flight.                        *)
StdStopKeepsTransfer ==
    /\ xfer' = xfer
    /\ reading' = FALSE
    /\ line' = NoLine
    /\ pool' = [f \in Fds |-> None]
    /\ files' = files \ {pool[f] : f \in Fds}

(* Mutant: the stop frees the descriptors without closing the files.       *)
StdStopKeepsFiles ==
    /\ xfer' = NoXfer
    /\ reading' = FALSE
    /\ line' = NoLine
    /\ pool' = [f \in Fds |-> None]
    /\ files' = files

StdStop ==
    /\ xfer' = NoXfer
    /\ reading' = FALSE
    /\ line' = NoLine
    /\ pool' = [f \in Fds |-> None]
    /\ files' = files \ {pool[f] : f \in Fds}

Stop ==
    /\ machine = "exiting"
    /\ machine' = "down"
    /\ ApiStop /\ RlnStop /\ StdStop
    /\ draining' = {}
    /\ UNCHANGED <<reg, busy, xram>>

(* A program starts: api_run clears the registers and releases the call.   *)
(* By then PIX has long taken what a broken-off read left to forward.      *)
ApiRun == busy' = FALSE /\ reg' = Idle

Run ==
    /\ machine = "down" /\ fwd.len = 0
    /\ machine' = "up"
    /\ ApiRun
    /\ UNCHANGED <<active, fds, xfer, xram, stdin>>

Next ==
    \/ (\E r \in Requests : Ask(r)) \/ Exit
    \/ ApiTask
    \/ Forward \/ (\E n \in 0..MaxLine : Line(n) \/ StdinEof(n))
    \/ (\E d \in Descs : Drain(d))
    \/ Stop \/ Run

Spec == Init /\ [][Next]_vars

(* Core 0 walks its tasks, PIX takes bytes, devices drain, the user ends   *)
(* the line being read, and a driver that may block does not block for     *)
(* ever.                                                                   *)
Fairness ==
    /\ WF_vars(ApiTask)
    /\ SF_vars((Read \/ Write) /\ active' = None)
    /\ SF_vars(ReadXram /\ (xfer'.fd = None \/ xfer'.pos = xfer'.size))
    /\ WF_vars(Forward)
    /\ WF_vars(\E n \in 0..MaxLine : Line(n))
    /\ \A d \in Descs : WF_vars(Drain(d))
    /\ WF_vars(Stop)

FairSpec == Spec /\ Fairness

----------------------------------------------------------------------------
(* The transfer in flight belongs to the latched op and its descriptor is  *)
(* still open: no exit, close or failed call leaves a transfer behind for  *)
(* the next op to carry on with.  Nor a line: std and the editor agree on  *)
(* whether one is being read, and none is while bytes of the last one      *)
(* (which lies in the editor's own buffer) are still to be handed out.     *)
NothingLeftBehind ==
    /\ xfer.fd # None => active \in XferOps /\ IsOpen(xfer.fd)
    /\ reading <=> editor
    /\ editor => LineUsedUp

(* The descriptor pool and the drivers agree about what is open: no file   *)
(* is left open with no descriptor, and no two descriptors share one.      *)
NoLeakedFile ==
    /\ files = {pool[f] : f \in Fds} \ {None}
    /\ \A f, g \in Fds : pool[f] = pool[g] /\ pool[f] # None => f = g

(* A read into xram that succeeds returns only when the video device's     *)
(* copy of xram has the bytes read (std.c's comment in std_api_read_xram). *)
ForwardsRead ==
    [][ReadXramEnds /\ ~busy' =>
        stale \cap (reg.addr..(reg.addr + xfer.pos - 1)) = {}]_vars

(* Every call is answered, or the program ends first.                      *)
Answered == busy ~> (~busy \/ machine # "up")

=============================================================================
