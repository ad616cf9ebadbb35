--------------------------- MODULE ApiStdProofs ----------------------------
(***************************************************************************)
(* Proofs about ApiStd for any descriptors, drivers, size of xram and      *)
(* length of a transfer.                                                   *)
(***************************************************************************)
EXTENDS ApiStd, TLAPS

(* The op in flight is the one the program waits for, and its arguments    *)
(* stay in the registers until it is answered.                             *)
OpInv ==
    /\ active # None => busy /\ reg.op = active
    /\ machine = "down" => active = None

(* Transfers and lines stay within their bounds.                           *)
BoundInv ==
    /\ xfer.pos <= xfer.size
    /\ fwd.addr + fwd.len <= XramSize
    /\ line.pos <= line.len

(* While a read into xram goes on, what it has read is what has been       *)
(* forwarded and then what is still to be.                                 *)
ForwardInv ==
    xfer.fd # None /\ active = "readx" =>
        /\ reg.addr + xfer.size <= XramSize
        /\ reg.addr <= fwd.addr
        /\ fwd.addr + fwd.len = reg.addr + xfer.pos
        /\ stale \cap (reg.addr..(fwd.addr - 1)) = {}

IInv ==
    TypeOK /\ OpInv /\ BoundInv /\ ForwardInv /\ NothingLeftBehind /\ NoLeakedFile

USE FdsAssumption, NoneAssumption, SizesAssumption

----------------------------------------------------------------------------
(* Min picks the smaller of two numbers.                                   *)
LEMMA MinOfTwo ==
    ASSUME NEW a \in Int, NEW b \in Int
    PROVE  /\ Min({a, b}) \in {a, b}
           /\ Min({a, b}) <= a /\ Min({a, b}) <= b
<1>1. \E x \in {a, b} : \A y \in {a, b} : x =< y
  <2>1. CASE a <= b
    BY <2>1
  <2>2. CASE ~(a <= b)
    BY <2>2
  <2> QED
    BY <2>1, <2>2
<1> QED
  BY <1>1 DEF Min

(* What the arguments of an op can be.                                     *)
LEMMA RequestTypes ==
    ASSUME NEW r \in Requests
    PROVE  /\ r.op \in Ops /\ r.fd \in Fds \cup Console
           /\ r.count \in 0..MaxCount /\ r.addr \in 0..XramSize-1
BY DEF Requests, Ops, Console

LEMMA IdleIsRequest == Idle \in Requests /\ Idle.op = "quick"
BY DEF Idle, Requests

(* A read of stdin or CON: hands out no more than was asked for, and no    *)
(* more than there is; it asks the editor only when the line is used up.   *)
LEMMA StdinReadBounds ==
    ASSUME TypeOK, BoundInv, NothingLeftBehind, NEW n \in Nat
    PROVE  /\ StdinRead(n).k \in 0..n
           /\ StdinRead(n).res \in {"ok", "pending"}
           /\ StdinRead(n).asks => LineUsedUp /\ ~reading /\ StdinRead(n).line = line
           /\ StdinRead(n).line \in [pos : 0..MaxLine, len : 0..MaxLine,
                                     nl : BOOLEAN, closed : BOOLEAN]
           /\ StdinRead(n).line.pos <= StdinRead(n).line.len
           /\ StdinRead(n).line.closed = line.closed
           /\ LineUsedUp => StdinRead(n).line = line
<1> DEFINE taken == Min({n, line.len - line.pos})
           nl == IF taken < n /\ line.nl THEN 1 ELSE 0
<1>1. /\ line.pos \in Nat /\ line.len \in Nat /\ line.len <= MaxLine
      /\ line.pos <= line.len /\ line.nl \in BOOLEAN /\ line.closed \in BOOLEAN
  BY DEF TypeOK, BoundInv
<1>2. taken \in Nat /\ taken <= n /\ taken <= line.len - line.pos
  <2>1. line.len - line.pos \in Nat /\ n \in Int
    BY <1>1
  <2>2. /\ taken \in {n, line.len - line.pos}
        /\ taken <= n /\ taken <= line.len - line.pos
    BY <2>1, MinOfTwo
  <2> QED
    BY <2>1, <2>2
<1>3. nl \in Nat /\ taken + nl <= n
  BY <1>1, <1>2
<1>4. StdinRead(n) =
        IF n = 0
        THEN [k |-> 0, res |-> "ok", line |-> line, asks |-> FALSE]
        ELSE IF LineUsedUp
        THEN [k |-> 0, line |-> line, asks |-> ~line.closed /\ ~reading,
              res |-> IF line.closed \/ xfer.fd = Con
                      THEN "ok" ELSE "pending"]
        ELSE [k |-> taken + nl, res |-> "ok", asks |-> FALSE,
              line |-> [line EXCEPT !.pos = @ + taken,
                                    !.nl = @ /\ nl = 0]]
  BY DEF StdinRead
<1> HIDE DEF taken, nl
<1> line \in [pos : 0..MaxLine, len : 0..MaxLine, nl : BOOLEAN, closed : BOOLEAN]
  BY DEF TypeOK
<1>5. CASE n = 0
  <2>1. StdinRead(n) = [k |-> 0, res |-> "ok", line |-> line, asks |-> FALSE]
    BY <1>4, <1>5
  <2>2. /\ StdinRead(n).k = 0 /\ StdinRead(n).res = "ok"
        /\ StdinRead(n).asks = FALSE /\ StdinRead(n).line = line
    BY <2>1
  <2> QED
    BY <1>1, <2>2
<1>6. CASE n # 0 /\ LineUsedUp
  <2>1. StdinRead(n) = [k |-> 0, line |-> line, asks |-> ~line.closed /\ ~reading,
                        res |-> IF line.closed \/ xfer.fd = Con THEN "ok" ELSE "pending"]
    BY <1>4, <1>6
  <2>2. /\ StdinRead(n).k = 0 /\ StdinRead(n).res \in {"ok", "pending"}
        /\ StdinRead(n).asks = (~line.closed /\ ~reading)
        /\ StdinRead(n).line = line
    BY <2>1
  <2>3. StdinRead(n).asks => ~reading
    BY <2>2
  <2> QED
    BY <1>1, <1>6, <2>2, <2>3
<1>7. CASE n # 0 /\ ~LineUsedUp
  <2>1. StdinRead(n) = [k |-> taken + nl, res |-> "ok", asks |-> FALSE,
              line |-> [line EXCEPT !.pos = @ + taken, !.nl = @ /\ nl = 0]]
    BY <1>4, <1>7
  <2>2. /\ StdinRead(n).k = taken + nl /\ StdinRead(n).res = "ok"
        /\ StdinRead(n).asks = FALSE
        /\ StdinRead(n).line = [line EXCEPT !.pos = @ + taken, !.nl = @ /\ nl = 0]
    BY <2>1
  <2>3. line.pos + taken \in 0..MaxLine /\ line.pos + taken <= line.len
    BY <1>1, <1>2
  <2>4. /\ [line EXCEPT !.pos = @ + taken, !.nl = @ /\ nl = 0].pos = line.pos + taken
        /\ [line EXCEPT !.pos = @ + taken, !.nl = @ /\ nl = 0].len = line.len
        /\ [line EXCEPT !.pos = @ + taken, !.nl = @ /\ nl = 0].closed = line.closed
    OBVIOUS
  <2>5. [line EXCEPT !.pos = @ + taken, !.nl = @ /\ nl = 0]
          \in [pos : 0..MaxLine, len : 0..MaxLine, nl : BOOLEAN, closed : BOOLEAN]
    BY <2>3
  <2> QED
    BY <1>1, <1>2, <1>3, <1>7, <2>2, <2>3, <2>4, <2>5
<1> QED
  BY <1>5, <1>6, <1>7

(* std and the editor still agree after a call of a read handler.          *)
LEMMA CallReadKeepsLine ==
    ASSUME TypeOK, BoundInv, NothingLeftBehind, NEW n \in Nat,
           NEW r \in Replies(n), CallRead(n, r)
    PROVE  /\ r.k \in 0..n /\ r.res \in {"ok", "pending", "error"}
           /\ line' \in [pos : 0..MaxLine, len : 0..MaxLine, nl : BOOLEAN, closed : BOOLEAN]
           /\ line'.pos <= line'.len
           /\ reading' \in BOOLEAN /\ editor' \in BOOLEAN
           /\ reading' <=> editor'
           /\ editor' => LineUsedUp'
<1>1. r.k \in 0..n /\ r.res \in {"ok", "pending", "error"}
  BY DEF Replies
<1>2. /\ reading \in BOOLEAN /\ editor \in BOOLEAN
      /\ reading <=> editor
      /\ editor => LineUsedUp
      /\ line \in [pos : 0..MaxLine, len : 0..MaxLine, nl : BOOLEAN, closed : BOOLEAN]
      /\ line.pos <= line.len
  BY DEF TypeOK, BoundInv, NothingLeftBehind
<1>3. CASE xfer.fd \in Console
  <2>1. /\ line' = StdinRead(n).line
        /\ reading' = (reading \/ StdinRead(n).asks)
        /\ editor' = (editor \/ StdinRead(n).asks)
    BY <1>3 DEF CallRead
  <2>2. StdinRead(n).asks => LineUsedUp /\ StdinRead(n).line = line
    BY StdinReadBounds
  <2>3. LineUsedUp => StdinRead(n).line = line
    BY StdinReadBounds
  <2>4. editor' => LineUsedUp /\ line' = line
    BY <1>2, <2>1, <2>2, <2>3
  <2>5. editor' => LineUsedUp'
    BY <2>4 DEF LineUsedUp
  <2>6. /\ line' \in [pos : 0..MaxLine, len : 0..MaxLine, nl : BOOLEAN, closed : BOOLEAN]
        /\ line'.pos <= line'.len
    BY <2>1, StdinReadBounds
  <2>7. reading' \in BOOLEAN /\ editor' \in BOOLEAN /\ (reading' <=> editor')
    BY <1>2, <2>1
  <2> QED
    BY <1>1, <2>5, <2>6, <2>7
<1>4. CASE xfer.fd \notin Console
  BY <1>1, <1>2, <1>4 DEF CallRead, stdin, LineUsedUp
<1> QED
  BY <1>3, <1>4

----------------------------------------------------------------------------
LEMMA InitEstablishes == Init => IInv
<1> SUFFICES ASSUME Init PROVE IInv
  OBVIOUS
<1> USE DEF Init, NoXfer, NoLine
<1>1. TypeOK
  <2>1. /\ machine \in {"up", "exiting", "down"} /\ busy \in BOOLEAN
        /\ active \in Ops \cup {None} /\ reg \in Requests
        /\ pool \in [Fds -> Descs \cup {None}]
        /\ files \subseteq Descs /\ draining \subseteq files
        /\ stale \subseteq 0..XramSize-1
        /\ reading \in BOOLEAN /\ editor \in BOOLEAN
    BY IdleIsRequest
  <2>2. fwd \in [addr : 0..XramSize, len : 0..XramSize]
    OBVIOUS
  <2>3. xfer \in [fd : Fds \cup Console \cup {None}, size : 0..MaxCount, pos : 0..MaxCount]
    OBVIOUS
  <2>4. 0 \in 0..MaxLine /\ FALSE \in BOOLEAN
    OBVIOUS
  <2>5. line \in [pos : 0..MaxLine, len : 0..MaxLine, nl : BOOLEAN, closed : BOOLEAN]
    BY <2>4, Zenon
  <2> QED
    BY <2>1, <2>2, <2>3, <2>5 DEF TypeOK
<1>2. OpInv /\ BoundInv /\ ForwardInv /\ NothingLeftBehind
  BY DEF OpInv, BoundInv, ForwardInv, NothingLeftBehind
<1>3. NoLeakedFile
  BY DEF NoLeakedFile
<1> QED
  BY <1>1, <1>2, <1>3 DEF IInv

(* The program asks, and exits.                                            *)
LEMMA ProgramPreserves ==
    ASSUME IInv, (\E r \in Requests : Ask(r)) \/ Exit
    PROVE  IInv'
<1> USE DEF IInv, call, fds, xram, stdin
<1>1. CASE Exit
  BY <1>1 DEF Exit, TypeOK, OpInv, BoundInv, ForwardInv,
              NothingLeftBehind, NoLeakedFile, LineUsedUp, IsOpen
<1>2. ASSUME NEW r \in Requests, Ask(r)
      PROVE  IInv'
  <2>0. active = None /\ xfer.fd = None
    BY <1>2 DEF Ask, OpInv, NothingLeftBehind, XferOps, Ops
  <2>1. TypeOK'
    BY <1>2 DEF Ask, TypeOK
  <2>2. OpInv' /\ BoundInv' /\ ForwardInv'
    BY <1>2, <2>0 DEF Ask, OpInv, BoundInv, ForwardInv
  <2>3. NothingLeftBehind' /\ NoLeakedFile'
    BY <1>2, <2>0 DEF Ask, NothingLeftBehind, NoLeakedFile, LineUsedUp
  <2> QED
    BY <2>1, <2>2, <2>3
<1> QED
  BY <1>1, <1>2

(* An op answered without a transfer: no transfer was in flight, and what  *)
(* the descriptors hold is what NoLeakedFile says.                         *)
LEMMA AnswerPreserves ==
    ASSUME IInv, Answer, UNCHANGED <<machine, line, reading, editor>>,
           xfer' = NoXfer \/ (xfer.fd = None /\ xfer' = xfer),
           pool' \in [Fds -> Descs \cup {None}],
           files' \subseteq Descs, draining' \subseteq files', NoLeakedFile',
           stale' \subseteq 0..XramSize-1,
           fwd' \in [addr : 0..XramSize, len : 0..XramSize],
           fwd'.addr + fwd'.len <= XramSize
    PROVE  IInv'
<1> USE DEF IInv, Answer
<1>1. xfer' \in [fd : Fds \cup Console \cup {None}, size : 0..MaxCount, pos : 0..MaxCount]
      /\ xfer'.fd = None /\ xfer'.pos <= xfer'.size
  BY DEF NoXfer, TypeOK, BoundInv
<1>2. TypeOK'
  BY <1>1, IdleIsRequest DEF TypeOK
<1>3. OpInv' /\ BoundInv' /\ ForwardInv'
  BY <1>1 DEF OpInv, BoundInv, ForwardInv
<1>4. NothingLeftBehind'
  BY <1>1 DEF NothingLeftBehind, LineUsedUp
<1> QED
  BY <1>2, <1>3, <1>4

(* An op that goes on: it is the program's, and a transfer is a read's or  *)
(* a write's on a descriptor that is open.                                 *)
LEMMA WorkingPreserves ==
    ASSUME IInv, NEW o \in Ops, Serves(o), Working(o), UNCHANGED <<machine, fds>>,
           xfer' \in [fd : Fds \cup Console \cup {None}, size : 0..MaxCount,
                      pos : 0..MaxCount],
           xfer'.pos <= xfer'.size,
           xfer'.fd # None => o \in XferOps /\ IsOpen(xfer'.fd),
           ForwardInv',
           stale' \subseteq 0..XramSize-1,
           fwd' \in [addr : 0..XramSize, len : 0..XramSize],
           fwd'.addr + fwd'.len <= XramSize,
           line' \in [pos : 0..MaxLine, len : 0..MaxLine, nl : BOOLEAN, closed : BOOLEAN],
           line'.pos <= line'.len,
           reading' \in BOOLEAN, editor' \in BOOLEAN, reading' <=> editor',
           editor' => LineUsedUp'
    PROVE  IInv'
<1> USE DEF IInv, Working, fds
<1>0. machine # "down" /\ busy /\ reg.op = o /\ o # None
  BY DEF Serves, OpInv
<1>1. TypeOK'
  BY DEF TypeOK
<1>2. OpInv' /\ BoundInv'
  BY <1>0 DEF OpInv, BoundInv
<1>3. NothingLeftBehind'
  BY DEF NothingLeftBehind, IsOpen
<1>4. NoLeakedFile'
  BY DEF NoLeakedFile
<1> QED
  BY <1>1, <1>2, <1>3, <1>4

(* What the invariant says of the state, for the steps below.              *)
LEMMA StateFacts ==
    ASSUME IInv
    PROVE  /\ reg \in Requests /\ reg.op \in Ops /\ reg.fd \in Fds \cup Console
           /\ reg.count \in 0..MaxCount /\ reg.addr \in 0..XramSize-1
           /\ pool \in [Fds -> Descs \cup {None}]
           /\ files \subseteq Descs /\ draining \subseteq files
           /\ xfer \in [fd : Fds \cup Console \cup {None}, size : 0..MaxCount,
                        pos : 0..MaxCount]
           /\ xfer.pos <= xfer.size
           /\ fwd \in [addr : 0..XramSize, len : 0..XramSize]
           /\ fwd.addr + fwd.len <= XramSize
           /\ stale \subseteq 0..XramSize-1
           /\ line \in [pos : 0..MaxLine, len : 0..MaxLine, nl : BOOLEAN, closed : BOOLEAN]
           /\ line.pos <= line.len
           /\ reading \in BOOLEAN /\ editor \in BOOLEAN /\ (reading <=> editor)
           /\ editor => LineUsedUp
           /\ xfer.fd # None => active \in XferOps /\ IsOpen(xfer.fd)
<1>1. reg \in Requests
  BY DEF IInv, TypeOK
<1> QED
  BY <1>1, RequestTypes DEF IInv, TypeOK, BoundInv, NothingLeftBehind

LEMMA Numbers ==
    ASSUME IInv
    PROVE  /\ reg.addr \in Nat
           /\ xfer.size \in 0..MaxCount /\ xfer.pos \in Nat /\ xfer.pos <= xfer.size
           /\ fwd.addr \in Nat /\ fwd.len \in Nat /\ fwd.addr + fwd.len <= XramSize
BY StateFacts

(* The op served is the one latched, so while a transfer is in flight no   *)
(* other is, and a transfer's own arguments are in the registers.          *)
LEMMA ServedOp ==
    ASSUME IInv, NEW o \in Ops, Serves(o)
    PROVE  /\ reg.op = o /\ busy /\ machine # "down"
           /\ xfer.fd # None => active = o /\ o \in XferOps
BY DEF IInv, Serves, OpInv, NothingLeftBehind, XferOps, Ops

(* open, close, sync and the ops that one dispatch answers.                *)
LEMMA DescriptorOpPreserves ==
    ASSUME IInv, Quick \/ OpenRefused \/ Open \/ Close \/ Sync
    PROVE  IInv'
<1> USE DEF fds, xram, stdin
<1>0. /\ "quick" \in Ops /\ "open" \in Ops /\ "close" \in Ops /\ "sync" \in Ops
      /\ XferOps \cap {"quick", "open", "close", "sync"} = {}
  BY DEF Ops, XferOps
<1>1. CASE Quick \/ OpenRefused
  <2>1. xfer.fd = None
    BY <1>0, <1>1, ServedOp DEF Quick, OpenRefused
  <2>2. Answer /\ UNCHANGED <<machine, pool, files, draining, xfer, fwd, stale, line, reading, editor>>
    BY <1>1 DEF Quick, OpenRefused
  <2>3. NoLeakedFile'
    BY <2>2 DEF IInv, NoLeakedFile
  <2> QED
    BY <2>1, <2>2, <2>3, StateFacts, AnswerPreserves
<1>2. CASE Open
  <2>1. xfer.fd = None
    BY <1>0, <1>2, ServedOp DEF Open
  <2>2. PICK f \in FreeFds, d \in Descs \ files :
            pool' = [pool EXCEPT ![f] = d] /\ files' = files \cup {d}
    BY <1>2 DEF Open
  <2>3. f \in Fds /\ pool[f] = None /\ d # None
    BY <2>2 DEF FreeFds
  <2>4. files' = {pool'[g] : g \in Fds} \ {None}
    BY <2>2, <2>3, StateFacts DEF IInv, NoLeakedFile
  <2>5. \A g, h \in Fds : pool'[g] = pool'[h] /\ pool'[g] # None => g = h
    BY <2>2, <2>3, StateFacts DEF IInv, NoLeakedFile
  <2>6. pool' \in [Fds -> Descs \cup {None}] /\ files' \subseteq Descs
    BY <2>2, <2>3, StateFacts
  <2> QED
    BY <1>2, <2>1, <2>2, <2>4, <2>5, <2>6, StateFacts, AnswerPreserves
       DEF Open, NoLeakedFile
<1>3. CASE Close
  <2>1. xfer.fd = None
    BY <1>0, <1>3, ServedOp DEF Close
  <2>2. CASE UNCHANGED fds /\ Answer
    <3>1. NoLeakedFile'
      BY <2>2 DEF IInv, NoLeakedFile
    <3> QED
      BY <1>3, <2>1, <2>2, <3>1, StateFacts, AnswerPreserves DEF Close
  <2>3. CASE Working("close") /\ UNCHANGED fds
    <3>1. ForwardInv'
      BY <1>3, <2>1 DEF Close, ForwardInv
    <3>2. editor' => LineUsedUp'
      BY <1>3, StateFacts DEF Close, LineUsedUp
    <3> QED
      BY <1>0, <1>3, <2>1, <2>3, <3>1, <3>2, StateFacts, WorkingPreserves DEF Close
  <2>4. CASE /\ Answer /\ reg.fd \in Fds /\ pool[reg.fd] # None
             /\ pool[reg.fd] \notin draining
             /\ files' = files \ {pool[reg.fd]}
             /\ pool' = [pool EXCEPT ![reg.fd] = None]
             /\ UNCHANGED draining
    <3>1. files' = {pool'[g] : g \in Fds} \ {None}
      BY <2>4, StateFacts DEF IInv, NoLeakedFile
    <3>2. \A g, h \in Fds : pool'[g] = pool'[h] /\ pool'[g] # None => g = h
      BY <2>4, StateFacts DEF IInv, NoLeakedFile
    <3>3. pool' \in [Fds -> Descs \cup {None}] /\ files' \subseteq Descs
          /\ draining' \subseteq files'
      BY <2>4, StateFacts
    <3> QED
      BY <1>3, <2>1, <2>4, <3>1, <3>2, <3>3, StateFacts, AnswerPreserves
         DEF Close, NoLeakedFile
  <2> QED
    BY <1>3, <2>2, <2>3, <2>4, StateFacts DEF Close
<1>4. CASE Sync
  <2>1. xfer.fd = None
    BY <1>0, <1>4, ServedOp DEF Sync
  <2>2. CASE Answer
    <3>1. NoLeakedFile'
      BY <1>4, <2>2 DEF Sync, IInv, NoLeakedFile
    <3> QED
      BY <1>4, <2>1, <2>2, <3>1, StateFacts, AnswerPreserves DEF Sync
  <2>3. CASE Working("sync")
    <3>1. ForwardInv'
      BY <1>4, <2>1 DEF Sync, ForwardInv
    <3>2. editor' => LineUsedUp'
      BY <1>4, StateFacts DEF Sync, LineUsedUp
    <3> QED
      BY <1>0, <1>4, <2>1, <2>3, <3>1, <3>2, StateFacts, WorkingPreserves DEF Sync
  <2> QED
    BY <1>4, <2>2, <2>3 DEF Sync
<1> QED
  BY <1>1, <1>2, <1>3, <1>4

(* A transfer that ends, whatever it moved, while the line may have been   *)
(* handed out.                                                             *)
LEMMA TransferEnds ==
    ASSUME IInv, Answer, UNCHANGED machine, xfer' = NoXfer,
           UNCHANGED <<pool, files>>, draining' \subseteq files,
           stale' \subseteq 0..XramSize-1,
           fwd' \in [addr : 0..XramSize, len : 0..XramSize],
           fwd'.addr + fwd'.len <= XramSize,
           line' \in [pos : 0..MaxLine, len : 0..MaxLine, nl : BOOLEAN, closed : BOOLEAN],
           line'.pos <= line'.len,
           reading' \in BOOLEAN, editor' \in BOOLEAN, reading' <=> editor',
           editor' => LineUsedUp'
    PROVE  IInv'
<1> USE DEF IInv, Answer
<1>1. xfer' \in [fd : Fds \cup Console \cup {None}, size : 0..MaxCount, pos : 0..MaxCount]
      /\ xfer'.fd = None /\ xfer'.pos <= xfer'.size
  BY DEF NoXfer
<1>2. TypeOK'
  BY <1>1, IdleIsRequest DEF TypeOK
<1>3. OpInv' /\ BoundInv' /\ ForwardInv'
  BY <1>1 DEF OpInv, BoundInv, ForwardInv
<1>4. NothingLeftBehind'
  BY <1>1 DEF NothingLeftBehind
<1>5. NoLeakedFile'
  BY DEF NoLeakedFile
<1> QED
  BY <1>2, <1>3, <1>4, <1>5

(* What is asked for of xram fits into it.                                 *)
LEMMA FitsXram ==
    ASSUME IInv
    PROVE  Fits \in 0..MaxCount /\ reg.addr + Fits <= XramSize
<1>1. reg.count \in Nat /\ reg.count <= MaxCount /\ reg.addr \in Nat
      /\ XramSize - reg.addr \in Nat
  BY StateFacts
<1>2. Fits \in {reg.count, XramSize - reg.addr}
      /\ Fits <= reg.count /\ Fits <= XramSize - reg.addr
  <2>1. reg.count \in Int /\ XramSize - reg.addr \in Int
    BY <1>1
  <2> QED
    BY <2>1, MinOfTwo DEF Fits
<1> QED
  BY <1>1, <1>2

(* read, readx and write: the first dispatch.                              *)
LEMMA BeginPreserves ==
    ASSUME IInv, NEW o \in XferOps, Begin(o) \/ Refuse(o)
    PROVE  IInv'
<1> USE DEF fds, xram, stdin
<1>0. o \in Ops
  BY DEF XferOps, Ops
<1>1. CASE Refuse(o)
  <2>1. NoLeakedFile'
    BY <1>1 DEF Refuse, IInv, NoLeakedFile
  <2> QED
    BY <1>1, <2>1, StateFacts, AnswerPreserves DEF Refuse
<1>2. CASE Begin(o)
  <2>1. reg.op = o /\ Serves(o) /\ IsOpen(reg.fd) /\ IsOpen(reg.fd)'
    BY <1>0, <1>2, ServedOp DEF Begin, IsOpen, Working
  <2>2. Fits \in 0..MaxCount /\ reg.addr + Fits <= XramSize
    BY FitsXram
  <2>3. xfer' \in [fd : Fds \cup Console \cup {None}, size : 0..MaxCount, pos : 0..MaxCount]
        /\ xfer'.pos = 0 /\ xfer'.fd = reg.fd
        /\ xfer'.size = (IF o = "readx" THEN Fits ELSE reg.count)
    BY <1>2, <2>2, StateFacts DEF Begin
  <2>4. fwd' \in [addr : 0..XramSize, len : 0..XramSize]
        /\ fwd'.addr + fwd'.len <= XramSize
        /\ (o = "readx" => fwd'.addr = reg.addr /\ fwd'.len = 0)
    BY <1>2, StateFacts DEF Begin
  <2>5. ForwardInv'
    <3>1. active' = o /\ reg' = reg
      BY <1>2 DEF Begin, Working
    <3> QED
      BY <2>2, <2>3, <2>4, <3>1, StateFacts DEF ForwardInv
  <2>6. editor' => LineUsedUp'
    BY <1>2, StateFacts DEF Begin, LineUsedUp
  <2> QED
    BY <1>0, <1>2, <2>1, <2>3, <2>4, <2>5, <2>6, StateFacts, WorkingPreserves
       DEF Begin, IsOpen
<1> QED
  BY <1>1, <1>2

(* A dispatch of a read that moves bytes.                                  *)
LEMMA ReadPreserves ==
    ASSUME IInv, Read
    PROVE  IInv'
<1> USE DEF fds, xram
<1>0. "read" \in Ops /\ "read" \in XferOps
  BY DEF Ops, XferOps
<1>1. xfer.fd # None /\ active = "read" /\ Serves("read") /\ IsOpen(xfer.fd)
  BY <1>0, ServedOp, StateFacts DEF Read
<1> DEFINE n == xfer.size - xfer.pos
<1>2. n \in Nat
  BY StateFacts
<1>3. PICK r \in Replies(n) :
        /\ CallRead(n, r)
        /\ IF r.res = "pending"
           THEN Working("read") /\ xfer' = [xfer EXCEPT !.pos = @ + r.k]
           ELSE Answer /\ xfer' = NoXfer
  BY DEF Read
<1>4. /\ r.k \in 0..n
      /\ line' \in [pos : 0..MaxLine, len : 0..MaxLine, nl : BOOLEAN, closed : BOOLEAN]
      /\ line'.pos <= line'.len
      /\ reading' \in BOOLEAN /\ editor' \in BOOLEAN
      /\ reading' <=> editor'
      /\ editor' => LineUsedUp'
  BY <1>2, <1>3, CallReadKeepsLine DEF IInv
<1>5. UNCHANGED <<machine, pool, files, draining, fwd, stale>>
  BY DEF Read
<1>6. CASE r.res = "pending"
  <2>1. Working("read") /\ xfer' = [xfer EXCEPT !.pos = @ + r.k]
    BY <1>3, <1>6
  <2>2. xfer' \in [fd : Fds \cup Console \cup {None}, size : 0..MaxCount, pos : 0..MaxCount]
        /\ xfer'.pos <= xfer'.size /\ xfer'.fd = xfer.fd
    BY <1>4, <2>1, StateFacts
  <2>3. ForwardInv' /\ IsOpen(xfer'.fd)
    BY <1>1, <1>5, <2>1, <2>2 DEF ForwardInv, Working, IsOpen
  <2> QED
    BY <1>0, <1>1, <1>4, <1>5, <2>1, <2>2, <2>3, StateFacts, WorkingPreserves
<1>7. CASE r.res # "pending"
  BY <1>3, <1>4, <1>5, <1>7, StateFacts, TransferEnds
<1> QED
  BY <1>6, <1>7

(* A dispatch of a write: output makes its device drain.                   *)
LEMMA WritePreserves ==
    ASSUME IInv, Write
    PROVE  IInv'
<1> USE DEF stdin, xram
<1>0. "write" \in Ops /\ "write" \in XferOps
  BY DEF Ops, XferOps
<1>1. xfer.fd # None /\ active = "write" /\ Serves("write") /\ IsOpen(xfer.fd)
  BY <1>0, ServedOp, StateFacts DEF Write
<1> DEFINE n == xfer.size - xfer.pos
<1>2. n \in Nat
  BY StateFacts
<1>3. PICK r \in Replies(n) :
        /\ xfer' = IF r.res = "pending" THEN [xfer EXCEPT !.pos = @ + r.k] ELSE NoXfer
        /\ draining' \in {draining} \cup
                (IF xfer.fd \in Fds /\ r.k > 0
                 THEN {draining \cup {pool[xfer.fd]}} ELSE {})
        /\ IF r.res = "pending" THEN Working("write") ELSE Answer
  BY DEF Write
<1>4. r.k \in 0..n
  BY <1>2 DEF Replies
<1>5. UNCHANGED <<machine, pool, files, fwd, stale, line, reading, editor>>
  BY DEF Write
<1>6. draining' \subseteq files /\ NoLeakedFile'
  <2>1. xfer.fd \in Fds => pool[xfer.fd] \in files
    BY <1>1, StateFacts DEF IInv, NoLeakedFile, IsOpen, Console
  <2> QED
    BY <1>3, <1>5, <2>1, StateFacts DEF IInv, NoLeakedFile
<1>7. editor' => LineUsedUp'
  BY <1>5, StateFacts DEF LineUsedUp
<1>8. CASE r.res = "pending"
  <2>1. Working("write") /\ xfer' = [xfer EXCEPT !.pos = @ + r.k]
    BY <1>3, <1>8
  <2>2. xfer' \in [fd : Fds \cup Console \cup {None}, size : 0..MaxCount, pos : 0..MaxCount]
        /\ xfer'.pos <= xfer'.size /\ xfer'.fd = xfer.fd
    BY <1>4, <2>1, StateFacts
  <2>3. TypeOK'
    <3>1. UNCHANGED <<machine, pool, files, fwd, stale, line, reading, editor, reg, busy>>
          /\ active' \in Ops
      BY <1>0, <1>5, <2>1 DEF Working
    <3> QED
      BY <1>6, <2>2, <3>1 DEF IInv, TypeOK
  <2>4. OpInv' /\ BoundInv' /\ ForwardInv'
    BY <1>1, <1>5, <2>1, <2>2, ServedOp, <1>0
       DEF IInv, OpInv, BoundInv, ForwardInv, Working
  <2>5. NothingLeftBehind'
    BY <1>0, <1>1, <1>5, <1>7, <2>1, <2>2
       DEF IInv, NothingLeftBehind, Working, IsOpen
  <2> QED
    BY <1>6, <2>3, <2>4, <2>5 DEF IInv
<1>9. CASE r.res # "pending"
  BY <1>3, <1>5, <1>6, <1>7, <1>9, StateFacts, TransferEnds
<1> QED
  BY <1>8, <1>9

(* A dispatch of a read into xram: a chunk is read, and is stale until it  *)
(* has been forwarded.                                                     *)
LEMMA ReadXramPreserves ==
    ASSUME IInv, ReadXram
    PROVE  IInv'
<1> USE DEF fds
<1>0. "readx" \in Ops /\ "readx" \in XferOps
  BY DEF Ops, XferOps
<1>1. xfer.fd # None /\ active = "readx" /\ Serves("readx") /\ IsOpen(xfer.fd)
      /\ xfer.pos < xfer.size
  BY <1>0, ServedOp, StateFacts DEF ReadXram
<1> DEFINE n == Min({Chunk, xfer.size - xfer.pos})
           at == fwd.addr + fwd.len
<1>2. n \in Nat /\ n <= xfer.size - xfer.pos
  <2>1. Chunk \in Int /\ xfer.size - xfer.pos \in Int
        /\ Chunk >= 0 /\ xfer.size - xfer.pos >= 0
    BY <1>1, Numbers
  <2>2. n \in {Chunk, xfer.size - xfer.pos} /\ n <= xfer.size - xfer.pos
    BY <2>1, MinOfTwo
  <2> QED
    BY <2>1, <2>2
<1>3. PICK r \in Replies(n) :
        /\ CallRead(n, r)
        /\ stale' = stale \cup (at..(at + r.k - 1))
        /\ IF r.res = "error"
           THEN Answer /\ xfer' = NoXfer /\ fwd' = [fwd EXCEPT !.len = 0]
           ELSE /\ Working("readx")
                /\ xfer' = [xfer EXCEPT
                             !.pos = @ + r.k,
                             !.size = IF r.res = "ok" /\ r.k < n
                                      THEN xfer.pos + r.k ELSE @]
                /\ fwd' = [fwd EXCEPT !.len = @ + r.k]
  BY DEF ReadXram
<1> HIDE DEF n
<1>4. /\ r.k \in 0..n
      /\ line' \in [pos : 0..MaxLine, len : 0..MaxLine, nl : BOOLEAN, closed : BOOLEAN]
      /\ line'.pos <= line'.len
      /\ reading' \in BOOLEAN /\ editor' \in BOOLEAN
      /\ reading' <=> editor'
      /\ editor' => LineUsedUp'
  BY <1>2, <1>3, CallReadKeepsLine DEF IInv
<1>5. UNCHANGED <<machine, pool, files, draining>>
  BY DEF ReadXram
<1>6. /\ reg.addr + xfer.size <= XramSize
      /\ reg.addr <= fwd.addr
      /\ at = reg.addr + xfer.pos
      /\ stale \cap (reg.addr..(fwd.addr - 1)) = {}
  BY <1>1 DEF IInv, ForwardInv
<1>7. at \in Nat /\ r.k \in Nat /\ at + r.k <= XramSize
  BY <1>2, <1>4, <1>6, StateFacts
<1>8. stale' \subseteq 0..XramSize-1
  BY <1>3, <1>7, StateFacts
<1>9. CASE r.res # "error"
  <2>1. /\ Working("readx") /\ fwd' = [fwd EXCEPT !.len = @ + r.k]
        /\ xfer' = [xfer EXCEPT !.pos = @ + r.k,
                        !.size = IF r.res = "ok" /\ r.k < n THEN xfer.pos + r.k ELSE @]
    BY <1>3, <1>9
  <2>2. fwd' \in [addr : 0..XramSize, len : 0..XramSize]
        /\ fwd'.addr = fwd.addr /\ fwd'.len = fwd.len + r.k
        /\ fwd'.addr + fwd'.len <= XramSize
    BY <1>7, <2>1, StateFacts
  <2>3. /\ xfer' \in [fd : Fds \cup Console \cup {None}, size : 0..MaxCount, pos : 0..MaxCount]
        /\ xfer'.fd = xfer.fd /\ xfer'.pos = xfer.pos + r.k
        /\ xfer'.pos <= xfer'.size /\ xfer'.size <= xfer.size
    <3> DEFINE size == IF r.res = "ok" /\ r.k < n THEN xfer.pos + r.k ELSE xfer.size
    <3>1. xfer' = [xfer EXCEPT !.pos = xfer.pos + r.k, !.size = size]
      BY <2>1
    <3>2. /\ size \in 0..MaxCount /\ xfer.pos + r.k \in 0..MaxCount
          /\ xfer.pos + r.k <= size /\ size <= xfer.size
      BY <1>2, <1>4, Numbers
    <3> HIDE DEF size
    <3>3. xfer \in [fd : Fds \cup Console \cup {None}, size : 0..MaxCount, pos : 0..MaxCount]
      BY StateFacts
    <3> QED
      BY <3>1, <3>2, <3>3
  <2>4. ForwardInv'
    <3>1. reg' = reg
      BY <2>1 DEF Working
    <3>2. fwd.addr <= at /\ fwd.addr \in Nat /\ reg.addr \in Nat
      BY Numbers
    <3>3. stale' \cap (reg.addr..(fwd.addr - 1)) = {}
      BY <1>3, <1>6, <1>7, <3>2
    <3>4. /\ reg.addr + xfer'.size <= XramSize
          /\ fwd'.addr + fwd'.len = reg.addr + xfer'.pos
      <4>1. xfer'.size \in Nat
        BY <2>3
      <4> QED
        BY <1>6, <1>7, <2>2, <2>3, <4>1, Numbers
    <3> QED
      BY <1>6, <2>2, <3>1, <3>3, <3>4 DEF ForwardInv
  <2>5. IsOpen(xfer'.fd)
    BY <1>1, <2>3
  <2> QED
    BY <1>0, <1>1, <1>4, <1>5, <1>8, <2>1, <2>2, <2>3, <2>4, <2>5, WorkingPreserves
<1>10. CASE r.res = "error"
  <2>1. Answer /\ xfer' = NoXfer /\ fwd' = [fwd EXCEPT !.len = 0]
    BY <1>3, <1>10
  <2>2. fwd' \in [addr : 0..XramSize, len : 0..XramSize] /\ fwd'.addr + fwd'.len <= XramSize
    BY <2>1, StateFacts
  <2> QED
    BY <1>4, <1>5, <1>8, <2>1, <2>2, StateFacts, TransferEnds
<1> QED
  BY <1>9, <1>10

LEMMA ReadXramEndsPreserves ==
    ASSUME IInv, ReadXramEnds
    PROVE  IInv'
<1> USE DEF fds, xram, stdin
<1>0. "readx" \in Ops /\ "readx" \in XferOps
  BY DEF Ops, XferOps
<1>1. Serves("readx") /\ active = "readx" /\ IsOpen(xfer.fd)
      /\ UNCHANGED <<machine, pool, files, draining, fwd, stale, line, reading, editor>>
  BY <1>0, ServedOp, StateFacts DEF ReadXramEnds
<1>2. editor' => LineUsedUp'
  BY <1>1, StateFacts DEF LineUsedUp
<1>3. CASE Working("readx") /\ UNCHANGED xfer
  <2>1. ForwardInv'
    BY <1>1, <1>3 DEF IInv, ForwardInv, Working
  <2> QED
    BY <1>0, <1>1, <1>2, <1>3, <2>1, StateFacts, WorkingPreserves
<1>4. CASE Answer /\ xfer' = NoXfer
  BY <1>1, <1>2, <1>4, StateFacts, TransferEnds
<1> QED
  BY <1>3, <1>4 DEF ReadXramEnds

----------------------------------------------------------------------------
(* What happens beside the ops: forwarding, lines typed, output drained,   *)
(* the stop and the start of a program.                                    *)
LEMMA OthersPreserve ==
    ASSUME IInv,
           \/ Forward \/ (\E n \in 0..MaxLine : Line(n) \/ StdinEof(n))
           \/ (\E d \in Descs : Drain(d)) \/ Stop \/ Run
    PROVE  IInv'
<1> USE DEF call, fds, xram, stdin
<1>1. CASE Forward
  <2>1. /\ fwd.len > 0 /\ stale' = stale \ {fwd.addr}
        /\ fwd' = [addr |-> fwd.addr + 1, len |-> fwd.len - 1]
    BY <1>1 DEF Forward
  <2>2. /\ fwd' \in [addr : 0..XramSize, len : 0..XramSize]
        /\ fwd'.addr = fwd.addr + 1 /\ fwd'.len = fwd.len - 1
        /\ fwd'.addr + fwd'.len <= XramSize
        /\ stale' \subseteq 0..XramSize-1
    BY <2>1, StateFacts
  <2>3. ForwardInv'
    <3>1. reg' = reg /\ xfer' = xfer /\ active' = active
      BY <1>1 DEF Forward
    <3>2. ASSUME stale \cap (reg.addr..(fwd.addr - 1)) = {}
          PROVE  stale' \cap (reg.addr..(fwd'.addr - 1)) = {}
      BY <2>1, <2>2, <3>2, StateFacts
    <3> QED
      BY <2>2, <3>1, <3>2, StateFacts DEF IInv, ForwardInv
  <2>4. TypeOK'
    BY <1>1, <2>2 DEF Forward, IInv, TypeOK
  <2>5. OpInv' /\ BoundInv' /\ NothingLeftBehind' /\ NoLeakedFile'
    BY <1>1, <2>2 DEF Forward, IInv, OpInv, BoundInv, NothingLeftBehind, NoLeakedFile,
                      LineUsedUp, IsOpen
  <2> QED
    BY <2>3, <2>4, <2>5 DEF IInv
<1>2. ASSUME NEW n \in 0..MaxLine, Line(n) \/ StdinEof(n)
      PROVE  IInv'
  <2>1. /\ UNCHANGED <<machine, reg, busy, active, pool, files, draining, xfer, fwd, stale>>
        /\ editor' = FALSE /\ reading' = FALSE
    <3>1. CASE Line(n)
      BY <3>1 DEF Line
    <3>2. CASE StdinEof(n)
      BY <3>2 DEF StdinEof
    <3> QED
      BY <1>2, <3>1, <3>2
  <2>2. /\ line' \in [pos : 0..MaxLine, len : 0..MaxLine, nl : BOOLEAN, closed : BOOLEAN]
        /\ line'.pos <= line'.len
    <3>1. CASE line' = [line EXCEPT !.pos = 0, !.len = n, !.nl = TRUE]
      <4>1. line \in [pos : 0..MaxLine, len : 0..MaxLine, nl : BOOLEAN, closed : BOOLEAN]
        BY StateFacts
      <4>2. 0 \in 0..MaxLine /\ n \in 0..MaxLine /\ 0 <= n
        OBVIOUS
      <4> QED
        BY <3>1, <4>1, <4>2
    <3>2. CASE line' = [pos |-> 0, len |-> n, nl |-> TRUE, closed |-> TRUE]
      BY <3>2
    <3>3. CASE line' = [line EXCEPT !.closed = TRUE]
      BY <3>3, StateFacts
    <3> QED
      BY <1>2, <3>1, <3>2, <3>3 DEF Line, StdinEof
  <2>3. TypeOK'
    BY <2>1, <2>2 DEF IInv, TypeOK
  <2>4. OpInv' /\ BoundInv' /\ ForwardInv' /\ NothingLeftBehind' /\ NoLeakedFile'
    BY <2>1, <2>2 DEF IInv, OpInv, BoundInv, ForwardInv, NothingLeftBehind,
                      NoLeakedFile, IsOpen
  <2> QED
    BY <2>3, <2>4 DEF IInv
<1>3. ASSUME NEW d \in Descs, Drain(d)
      PROVE  IInv'
  <2>1. TypeOK'
    BY <1>3 DEF Drain, IInv, TypeOK
  <2>2. OpInv' /\ BoundInv' /\ ForwardInv'
    BY <1>3 DEF Drain, IInv, OpInv, BoundInv, ForwardInv
  <2>3. NothingLeftBehind' /\ NoLeakedFile'
    BY <1>3 DEF Drain, IInv, NothingLeftBehind, NoLeakedFile, LineUsedUp, IsOpen
  <2> QED
    BY <2>1, <2>2, <2>3 DEF IInv
<1>4. CASE Stop
  <2>1. /\ machine' = "down" /\ active' = None /\ editor' = FALSE /\ reading' = FALSE
        /\ xfer' = NoXfer /\ line' = NoLine /\ draining' = {}
        /\ pool' = [f \in Fds |-> None] /\ files' = files \ {pool[f] : f \in Fds}
        /\ UNCHANGED <<reg, busy, fwd, stale>>
    BY <1>4 DEF Stop, ApiStop, RlnStop, StdStop
  <2>2. files' = {}
    BY <2>1 DEF IInv, NoLeakedFile
  <2>3. xfer' \in [fd : Fds \cup Console \cup {None}, size : 0..MaxCount, pos : 0..MaxCount]
        /\ xfer'.fd = None /\ xfer'.pos <= xfer'.size
    BY <2>1 DEF NoXfer
  <2>4. line' \in [pos : 0..MaxLine, len : 0..MaxLine, nl : BOOLEAN, closed : BOOLEAN]
        /\ line'.pos <= line'.len
    <3>1. 0 \in 0..MaxLine /\ FALSE \in BOOLEAN
      OBVIOUS
    <3>2. line' = [pos |-> 0, len |-> 0, nl |-> FALSE, closed |-> FALSE]
      BY <2>1 DEF NoLine
    <3>3. line' \in [pos : 0..MaxLine, len : 0..MaxLine, nl : BOOLEAN, closed : BOOLEAN]
      BY <3>1, <3>2, Zenon
    <3> QED
      BY <3>2, <3>3
  <2>5. TypeOK'
    BY <2>1, <2>2, <2>3, <2>4 DEF IInv, TypeOK
  <2>6. OpInv' /\ BoundInv' /\ ForwardInv' /\ NothingLeftBehind'
    BY <2>1, <2>3, <2>4 DEF IInv, OpInv, BoundInv, ForwardInv, NothingLeftBehind
  <2>7. NoLeakedFile'
    BY <2>1, <2>2 DEF NoLeakedFile
  <2> QED
    BY <2>5, <2>6, <2>7 DEF IInv
<1>5. CASE Run
  <2>1. /\ machine' = "up" /\ busy' = FALSE /\ reg' = Idle /\ active = None
        /\ UNCHANGED <<active, pool, files, draining, xfer, fwd, stale, line, reading, editor>>
    BY <1>5 DEF Run, ApiRun, IInv, OpInv
  <2>2. xfer.fd = None
    BY <2>1, StateFacts DEF XferOps, Ops
  <2>3. TypeOK'
    BY <2>1, IdleIsRequest DEF IInv, TypeOK
  <2>4. OpInv' /\ BoundInv' /\ ForwardInv'
    BY <2>1, <2>2 DEF IInv, OpInv, BoundInv, ForwardInv
  <2>5. NothingLeftBehind' /\ NoLeakedFile'
    BY <2>1, <2>2 DEF IInv, NothingLeftBehind, NoLeakedFile, LineUsedUp
  <2> QED
    BY <2>3, <2>4, <2>5 DEF IInv
<1> QED
  BY <1>1, <1>2, <1>3, <1>4, <1>5

LEMMA StutterPreserves ==
    ASSUME IInv, UNCHANGED vars
    PROVE  IInv'
<1> USE DEF vars, call, fds, xram, stdin, IInv
<1>1. TypeOK'
  BY DEF TypeOK
<1>2. OpInv' /\ BoundInv' /\ ForwardInv'
  BY DEF OpInv, BoundInv, ForwardInv
<1>3. NothingLeftBehind' /\ NoLeakedFile'
  BY DEF NothingLeftBehind, NoLeakedFile, LineUsedUp, IsOpen
<1> QED
  BY <1>1, <1>2, <1>3

(* The invariant holds of every state an OS call can be in.                *)
THEOREM Inductive == Spec => []IInv
<1>1. IInv /\ [Next]_vars => IInv'
  <2> SUFFICES ASSUME IInv, [Next]_vars
               PROVE  IInv'
    OBVIOUS
  <2>1. CASE ApiTask
    BY <2>1, DescriptorOpPreserves, BeginPreserves, ReadPreserves, ReadXramPreserves,
       ReadXramEndsPreserves, WritePreserves DEF ApiTask
  <2> QED
    BY <2>1, ProgramPreserves, OthersPreserve, StutterPreserves DEF Next
<1> QED
  BY <1>1, InitEstablishes, PTL DEF Spec

(* The variables have their types.                                         *)
THEOREM TypeCorrect == Spec => []TypeOK
BY Inductive, PTL DEF IInv

(* No exit, close or failed call leaves a transfer behind for the next op  *)
(* to carry on with, nor a line (std.c: std_stop; api.c: api_stop).        *)
THEOREM NothingIsLeftBehind == Spec => []NothingLeftBehind
BY Inductive, PTL DEF IInv

(* Descriptors and the drivers' open files always agree (std.c: std_stop   *)
(* closes what a program left open).                                       *)
THEOREM NoFileLeaks == Spec => []NoLeakedFile
BY Inductive, PTL DEF IInv

(* A read into xram that succeeds returns only when the video device has   *)
(* every byte of it (std.c: std_api_read_xram waits for std_task).         *)
THEOREM ReadIsForwarded == Spec => ForwardsRead
<1>1. IInv /\ [Next]_vars =>
        [ReadXramEnds /\ ~busy' =>
            stale \cap (reg.addr..(reg.addr + xfer.pos - 1)) = {}]_vars
  <2> SUFFICES ASSUME IInv, ReadXramEnds, ~busy'
               PROVE  stale \cap (reg.addr..(reg.addr + xfer.pos - 1)) = {}
    OBVIOUS
  <2>1. active = "readx" /\ busy /\ xfer.fd # None
    BY ServedOp DEF ReadXramEnds, Ops
  <2>2. fwd.len = 0
    <3>1. ~(fwd.len > 0)
      BY <2>1 DEF ReadXramEnds, Working
    <3> QED
      BY <3>1, Numbers
  <2>3. fwd.addr = reg.addr + xfer.pos
        /\ stale \cap (reg.addr..(fwd.addr - 1)) = {}
    BY <2>1, <2>2, Numbers DEF IInv, ForwardInv
  <2> QED
    BY <2>3, Numbers
<1> QED
  BY <1>1, Inductive, PTL DEF Spec, ForwardsRead
=============================================================================
